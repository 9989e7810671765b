------------------------ MODULE SkillExecutionProofs ------------------------
(***************************************************************************)
(* Machine-checked facts about SkillExecution, for any number of tasks,    *)
(* invocations, cancellations and nested calls, and any of the habits.     *)
(*                                                                         *)
(* First the guards: TypeOK and GuardHeld.  Then what cancellation         *)
(* promises: it is sticky, a cancelled root never succeeds, its event      *)
(* follows the stop's answer, and an ended invocation told so.  CallInv    *)
(* says how the open calls of the tasks, the phases of their invocations   *)
(* and the stop requests belong together; it is inductive beside TypeOK    *)
(* and GuardHeld.  AskedCancels is added for the root that was cancelled   *)
(* and must not succeed.  Last, from the same CallInv, the refinement:     *)
(* SkillExecution implements SkillLifecycle.                               *)
(***************************************************************************)
EXTENDS SkillExecution, SequenceTheorems, FiniteSetTheorems, TLAPS

-----------------------------------------------------------------------------
(* The stack operations of the model keep stacks well formed. *)

(* Popping a frame leaves the frames underneath. *)
LEMMA PopStack ==
    ASSUME NEW s \in Seq(Frame), s # <<>>
    PROVE  LET p == SubSeq(s, 1, Len(s) - 1)
           IN  /\ p \in Seq(Frame)
               /\ Len(p) = Len(s) - 1
               /\ \A k \in 1..Len(p) : p[k] = s[k]
<1>1. Len(s) \in Nat /\ Len(s) # 0
  BY EmptySeq, LenProperties
<1> DEFINE n == Len(s) - 1
           p == SubSeq(s, 1, n)
<1>2. n \in Int /\ 1 \in Int /\ n >= 0
  BY <1>1
<1>3. \A k \in 1..n : s[k] \in Frame
  BY <1>1, ElementOfSeq
<1>4. /\ p \in Seq(Frame)
      /\ Len(p) = IF 1 <= n THEN n - 1 + 1 ELSE 0
      /\ \A k \in 1..(n - 1 + 1) : p[k] = s[1 + k - 1]
  <2> HIDE DEF n
  <2> QED
    BY <1>2, <1>3, SubSeqProperties
<1>5. Len(p) = n /\ n - 1 + 1 = n
  <2> HIDE DEF n, p
  <2> QED
    BY <1>2, <1>4
<1>6. \A k \in 1..n : p[k] = s[k]
  BY <1>2, <1>4
<1> QED
  BY <1>4, <1>5, <1>6

(* Pushing a frame keeps the frames underneath. *)
LEMMA PushStack ==
    ASSUME NEW s \in Seq(Frame), NEW f \in Frame
    PROVE  LET p == Append(s, f)
           IN  /\ p \in Seq(Frame)
               /\ p # <<>>
               /\ Len(p) = Len(s) + 1
               /\ \A k \in 1..Len(s) : p[k] = s[k]
               /\ p[Len(p)] = f
BY AppendProperties

(* A timeout that fires changes that one frame's mark. *)
LEMMA ExpireStack ==
    ASSUME NEW s \in Seq(Frame), NEW k \in DOMAIN s
    PROVE  LET p == [s EXCEPT ![k].expired = TRUE]
           IN  /\ p \in Seq(Frame)
               /\ Len(p) = Len(s)
               /\ \A l \in 1..Len(s) : /\ p[l].inv = s[l].inv
                                       /\ p[l].call = s[l].call
                                       /\ s[l].expired => p[l].expired
               /\ p[k].expired
<1>1. k \in 1..Len(s)
  BY LenProperties
<1>2. s[k] \in Frame
  BY <1>1, ElementOfSeq
<1> DEFINE f == [s[k] EXCEPT !.expired = TRUE]
<1>3. f \in Frame /\ f.inv = s[k].inv /\ f.call = s[k].call /\ f.expired
  BY <1>2 DEF Frame
<1>4. [s EXCEPT ![k].expired = TRUE] = [s EXCEPT ![k] = f]
  OBVIOUS
<1> HIDE DEF f
<1> DEFINE p == [s EXCEPT ![k] = f]
<1>5. /\ p \in Seq(Frame)
      /\ Len(p) = Len(s)
      /\ \A l \in 1..Len(s) : p[l] = IF l = k THEN f ELSE s[l]
  BY <1>1, <1>3, ExceptSeq
<1>6. \A l \in 1..Len(s) : /\ p[l].inv = s[l].inv
                           /\ p[l].call = s[l].call
                           /\ s[l].expired => p[l].expired
  BY <1>3, <1>5
<1>7. p[k].expired
  BY <1>1, <1>3, <1>5
<1> QED
  BY <1>4, <1>5, <1>6, <1>7

LEMMA FrameTypes ==
    /\ \A i \in Invs \cup {None} : CallFrame(i) \in Frame
    /\ \A i \in Invs \cup {None}, n \in Nat : TimeoutFrame(i, n) \in Frame
BY DEF Frame, CallFrame, TimeoutFrame, None

(* task.cancelling() is a natural number, and positive as soon as the task *)
(* was cancelled from outside or one of its open timeouts has fired.       *)
LEMMA CancellingCounts ==
    ASSUME TypeOK, NEW t \in Tasks
    PROVE  /\ Cancelling(t) \in Nat
           /\ requests[t] > 0 => Cancelling(t) > 0
           /\ (\E k \in DOMAIN stack[t] : stack[t][k].expired) => Cancelling(t) > 0
<1> DEFINE E == {k \in DOMAIN stack[t] : stack[t][k].expired}
<1>1. requests[t] \in Nat
  BY DEF TypeOK
<1>2. DOMAIN stack[t] = 1..Len(stack[t]) /\ Len(stack[t]) \in Nat
  BY LenProperties DEF TypeOK
<1>3. IsFiniteSet(E)
  <2>1. IsFiniteSet(1..Len(stack[t]))
    BY <1>2, FS_Interval
  <2> QED
    BY <1>2, <2>1, FS_Subset
<1>4. Cardinality(E) \in Nat /\ (E # {} => Cardinality(E) # 0)
  BY <1>3, FS_CardinalityType, FS_EmptySet
<1>5. Cancelling(t) = requests[t] + Cardinality(E)
  BY DEF Cancelling
<1> HIDE DEF E
<1>6. (\E k \in DOMAIN stack[t] : stack[t][k].expired) => E # {}
  BY DEF E
<1> QED
  BY <1>1, <1>4, <1>5, <1>6

-----------------------------------------------------------------------------
(* Type correctness. *)

(* What a body may pop or push, with the facts above applied to task t. *)
LEMMA StackTypes ==
    ASSUME TypeOK, NEW t \in Tasks
    PROVE  /\ stack[t] \in Seq(Frame)
           /\ stack[t] # <<>> => Top(t) \in Frame
           /\ Below(t) \in Seq(Frame)
           /\ Active(t) \in Invs \cup {None}
           /\ \A i \in Invs \cup {None} :
                 /\ Append(stack[t], CallFrame(i)) \in Seq(Frame)
                 /\ Append(Below(t), CallFrame(i)) \in Seq(Frame)
           /\ Append(stack[t], TimeoutFrame(Active(t), Cancelling(t))) \in Seq(Frame)
<1>1. stack[t] \in Seq(Frame)
  BY DEF TypeOK
<1>2. stack[t] # <<>> => Top(t) \in Frame
  BY <1>1, EmptySeq, ElementOfSeq DEF Top
<1>3. Below(t) \in Seq(Frame)
  <2>1. CASE stack[t] # <<>>
    BY <1>1, <2>1, PopStack DEF Below
  <2>2. CASE stack[t] = <<>>
    <3>1. Len(stack[t]) - 1 < 1 /\ Len(stack[t]) - 1 \in Int
      BY <2>2, EmptySeq
    <3> QED
      BY <3>1, SubSeqEmpty, EmptySeq DEF Below
  <2> QED
    BY <2>1, <2>2
<1>4. Active(t) \in Invs \cup {None}
  BY <1>2 DEF Active, Frame, TypeOK
<1>5. \A i \in Invs \cup {None} :
         /\ Append(stack[t], CallFrame(i)) \in Seq(Frame)
         /\ Append(Below(t), CallFrame(i)) \in Seq(Frame)
  BY <1>1, <1>3, FrameTypes, PushStack
<1>6. Append(stack[t], TimeoutFrame(Active(t), Cancelling(t))) \in Seq(Frame)
  BY <1>1, <1>4, CancellingCounts, FrameTypes, PushStack
<1> QED
  BY <1>1, <1>2, <1>3, <1>4, <1>5, <1>6

(* Both ways out of async_call keep the types of what they change. *)
LEMMA LeaveTypes ==
    ASSUME TypeOK, NEW t \in Tasks, NEW i \in Invs \cup {None},
           NEW root \in BOOLEAN, NEW below \in Seq(Frame),
           NEW event \in Phases, NEW place \in Places,
           Leave(t, i, root, below, event, place)
    PROVE  /\ at' \in [Tasks -> Places]
           /\ stack' \in [Tasks -> Seq(Frame)]
           /\ phase' \in [Invs -> Phases]
           /\ closed' \in [Invs -> BOOLEAN]
           /\ stop' \in [Invs -> {"none", "pending"} \cup Outcomes]
BY DEF TypeOK, Leave, Goto

LEMMA RequestStopTypes ==
    ASSUME TypeOK, NEW t \in Tasks, NEW i \in Invs \cup {None},
           NEW below \in Seq(Frame), RequestStop(t, i, below)
    PROVE  /\ at' \in [Tasks -> Places]
           /\ stack' \in [Tasks -> Seq(Frame)]
           /\ phase' \in [Invs -> Phases]
           /\ cancelled' \in [Invs -> BOOLEAN]
           /\ closed' \in [Invs -> BOOLEAN]
           /\ stop' \in [Invs -> {"none", "pending"} \cup Outcomes]
<1>1. Append(below, CallFrame(i)) \in Seq(Frame)
  BY FrameTypes, PushStack
<1> QED
  BY <1>1 DEF TypeOK, RequestStop, Goto, Places, Phases

LEMMA CheckedOutTypes ==
    ASSUME TypeOK, NEW t \in Tasks, NEW i \in Invs \cup {None}, NEW e,
           NEW below \in Seq(Frame), CheckedOut(t, i, e, below)
    PROVE  /\ at' \in [Tasks -> Places]
           /\ stack' \in [Tasks -> Seq(Frame)]
           /\ phase' \in [Invs -> Phases]
           /\ cancelled' \in [Invs -> BOOLEAN]
           /\ closed' \in [Invs -> BOOLEAN]
           /\ stop' \in [Invs -> {"none", "pending"} \cup Outcomes]
<1>1. CASE i = e
  BY <1>1, RequestStopTypes DEF CheckedOut
<1>2. CASE i # e
  <2>1. Leave(t, i, FALSE, below, "cancelled", "CancelledError")
    BY <1>2 DEF CheckedOut
  <2>2. cancelled' = [cancelled EXCEPT ![e] = TRUE]
    BY <1>2 DEF CheckedOut
  <2>3. "cancelled" \in Phases /\ "CancelledError" \in Places
    BY DEF Phases, Places, Running
  <2>4. cancelled' \in [Invs -> BOOLEAN]
    BY <2>2 DEF TypeOK
  <2> QED
    BY <2>1, <2>3, <2>4, LeaveTypes
<1> QED
  BY <1>1, <1>2

LEMMA Names ==
    /\ Running \subseteq Places
    /\ {"body", "CancelledError", "Error", "sleep", "op", "stop", "wait"} \subseteq Places
    /\ {"started", "completed", "failed", "cancelled", "torn"} \subseteq Phases
BY DEF Running, Places, Phases

LEMMA UnwindTypes ==
    ASSUME TypeOK, NEW t \in Tasks, Unwind(t)
    PROVE  TypeOK'
<1> USE StackTypes DEF TypeOK, Goto, Places, Running, Phases
<1>1. CASE LeaveCancelled(t)
  <2> DEFINE i == Top(t).inv
  <2>1. i \in Invs \cup {None} /\ Below(t) \in Seq(Frame)
    BY <1>1 DEF LeaveCancelled, InCall, Frame
  <2>2. CASE IsRoot(i)
    <3>1. RequestStop(t, i, Below(t))
      BY <1>1, <2>2 DEF LeaveCancelled
    <3> QED
      BY <1>1, <2>1, <3>1, RequestStopTypes DEF LeaveCancelled
  <2>3. CASE ~IsRoot(i)
    <3>1. Leave(t, i, FALSE, Below(t), "cancelled", "CancelledError")
      BY <1>1, <2>3 DEF LeaveCancelled
    <3> QED
      BY <1>1, <2>1, <2>3, <3>1, Names, LeaveTypes DEF LeaveCancelled
  <2> QED
    BY <2>2, <2>3
<1>2. CASE LeaveFailed(t)
  BY <1>2 DEF LeaveFailed, Leave, InCall, IsRoot
<1>3. CASE LeaveTimeout(t)
  BY <1>3 DEF LeaveTimeout, InTimeout
<1>4. CASE Finish(t)
  BY <1>4 DEF Finish
<1> QED
  BY <1>1, <1>2, <1>3, <1>4 DEF Unwind

LEMMA BodyTypes ==
    ASSUME TypeOK, NEW t \in Tasks, Body(t)
    PROVE  TypeOK'
<1> USE StackTypes DEF TypeOK, Goto, Places, Running, Phases
<1>1. ASSUME NEW i \in Invs, NEW e \in Invs, NEW refused \in BOOLEAN,
             Invoke(t, i, e, refused)
      PROVE  TypeOK'
  <2>1. /\ owner' \in [Invs -> Invs]
        /\ runner' \in [Invs -> Tasks]
        /\ asked' \in [Invs -> SUBSET Tasks]
        /\ UNCHANGED <<context, requests, thrown>>
    BY <1>1 DEF Invoke
  <2>2. CASE CheckCancels(t, e)
    <3>1. CheckedOut(t, i, e, stack[t])
      BY <1>1, <2>2 DEF Invoke
    <3> QED
      BY <2>1, <3>1, CheckedOutTypes
  <2>3. CASE ~CheckCancels(t, e)
    <3>1. UNCHANGED cancelled
      BY <1>1, <2>3 DEF Invoke
    <3>2. CASE closed[e] \/ refused
      <4>1. Leave(t, i, i = e, stack[t], "failed", "Error")
        BY <1>1, <2>3, <3>2 DEF Invoke
      <4>2. (i = e) \in BOOLEAN
        OBVIOUS
      <4> HIDE DEF Places, Phases, Running, Goto
      <4> QED
        BY <2>1, <3>1, <4>1, <4>2, Names, LeaveTypes
    <3>3. CASE ~(closed[e] \/ refused)
      <4>1. /\ stack' = [stack EXCEPT ![t] = Append(stack[t], CallFrame(i))]
            /\ phase' = [phase EXCEPT ![i] = "started"]
            /\ UNCHANGED <<at, closed, stop>>
        BY <1>1, <2>3, <3>3 DEF Invoke
      <4>2. stack' \in [Tasks -> Seq(Frame)]
        BY <4>1
      <4> QED
        BY <2>1, <3>1, <4>1, <4>2
    <3> QED
      BY <3>2, <3>3
  <2> QED
    BY <2>2, <2>3
<1>2. ASSUME NEW h \in Tasks, Spawn(t, h)
      PROVE  TypeOK'
  BY <1>2 DEF Spawn
<1>3. CASE Return(t)
  <2> DEFINE i == Top(t).inv
             e == owner[i]
  <2>1. i \in Invs \cup {None} /\ Below(t) \in Seq(Frame)
    BY <1>3 DEF Return, InCall, Frame
  <2>2. CASE CheckCancels(t, e)
    <3>1. CheckedOut(t, i, e, Below(t))
      BY <1>3, <2>2 DEF Return
    <3> QED
      BY <1>3, <2>1, <3>1, CheckedOutTypes DEF Return
  <2>3. CASE ~CheckCancels(t, e)
    <3>1. \E event \in {"failed", "completed"}, place \in {"Error", "body"} :
             Leave(t, i, i = e, Below(t), event, place)
      BY <1>3, <2>3 DEF Return
    <3>2. (i = e) \in BOOLEAN
      OBVIOUS
    <3> HIDE DEF Places, Phases, Running, Goto, i, e
    <3>3. /\ at' \in [Tasks -> Places]
          /\ stack' \in [Tasks -> Seq(Frame)]
          /\ phase' \in [Invs -> Phases]
          /\ closed' \in [Invs -> BOOLEAN]
          /\ stop' \in [Invs -> {"none", "pending"} \cup Outcomes]
      BY <2>1, <3>1, <3>2, Names, LeaveTypes
    <3> QED
      BY <1>3, <2>3, <3>3 DEF Return, i, e
  <2> QED
    BY <2>2, <2>3
<1>4. CASE CallOp(t)
  BY <1>4 DEF CallOp, Check, CheckCancels
<1>5. CASE ReportProgress(t)
  BY <1>5 DEF ReportProgress, Check, CheckCancels
<1>6. CASE EnterTimeout(t)
  BY <1>6 DEF EnterTimeout
<1>7. CASE Wait(t) \/ Raise(t) \/ HandleError(t) \/ Swallow(t)
  <2>1. /\ \E place \in {"wait", "Error", "body"} : at' = [at EXCEPT ![t] = place]
        /\ UNCHANGED <<stack, context, requests, thrown, owner, runner, phase,
                       cancelled, closed, stop, asked>>
    BY <1>7 DEF Wait, Raise, HandleError, Swallow
  <2> QED
    BY <2>1
<1>8. CASE TouchClient(t)
  BY <1>8 DEF TouchClient, Check, CheckCancels
<1> QED
  BY <1>1, <1>2, <1>3, <1>4, <1>5, <1>6, <1>7, <1>8 DEF Body

LEMMA LoopTypes ==
    ASSUME TypeOK, NEW t \in Tasks, Loop(t)
    PROVE  TypeOK'
<1> USE StackTypes DEF TypeOK, Goto, Places, Running, Phases, Resumed
<1>1. CASE Resume(t)
  BY <1>1 DEF Resume
<1>2. CASE BeginOp(t)
  BY <1>2 DEF BeginOp, Check, CheckCancels
<1>3. CASE OpReturns(t)
  BY <1>3 DEF OpReturns, Check, CheckCancels
<1>4. CASE OpRaises(t)
  BY <1>4 DEF OpRaises
<1>5. CASE KeepWaiting(t)
  BY <1>5 DEF KeepWaiting
<1>6. CASE StopAnswered(t)
  <2>1. Active(t) \in Invs \cup {None} /\ Below(t) \in Seq(Frame)
    OBVIOUS
  <2>2. \E event \in {"torn", "cancelled"} :
           Leave(t, Active(t), TRUE, Below(t), event, "CancelledError")
    BY <1>6 DEF StopAnswered
  <2> QED
    BY <1>6, <2>1, <2>2, Names, LeaveTypes DEF StopAnswered
<1> QED
  BY <1>1, <1>2, <1>3, <1>4, <1>5, <1>6 DEF Loop

LEMMA WorldTypes ==
    ASSUME TypeOK
    PROVE  /\ \A t \in Tasks : Cancel(t) \/ Expire(t) => TypeOK'
           /\ \A e \in Invs : StopReply(e) => TypeOK'
<1> USE DEF TypeOK
<1>1. ASSUME NEW t \in Tasks, Cancel(t) PROVE TypeOK'
  BY <1>1 DEF Cancel
<1>2. ASSUME NEW t \in Tasks, Expire(t) PROVE TypeOK'
  <2>1. PICK k \in DOMAIN stack[t] :
             stack' = [stack EXCEPT ![t] = [@ EXCEPT ![k].expired = TRUE]]
    BY <1>2 DEF Expire
  <2>2. stack' \in [Tasks -> Seq(Frame)]
    BY <2>1, StackTypes, ExpireStack
  <2>3. asked' \in [Invs -> SUBSET Tasks]
    BY <1>2 DEF Expire
  <2> QED
    BY <1>2, <2>2, <2>3 DEF Expire
<1>3. ASSUME NEW e \in Invs, StopReply(e) PROVE TypeOK'
  BY <1>3, SkillAssumption DEF StopReply
<1> QED
  BY <1>1, <1>2, <1>3

(* Every variable keeps its type, whatever the tasks and the world do. *)
THEOREM TypeCorrect == Spec => []TypeOK
<1>1. Init => TypeOK
  BY SkillAssumption, EmptySeq DEF Init, TypeOK, Places, Running, Phases, None
<1>2. TypeOK /\ [Next]_vars => TypeOK'
  <2> SUFFICES ASSUME TypeOK, [Next]_vars PROVE TypeOK'
    OBVIOUS
  <2>1. CASE UNCHANGED vars
    BY <2>1 DEF vars, TypeOK
  <2>2. CASE Next
    BY <2>2, UnwindTypes, BodyTypes, LoopTypes, WorldTypes DEF Next
  <2> QED
    BY <2>1, <2>2
<1> QED
  BY <1>1, <1>2, PTL DEF Spec

-----------------------------------------------------------------------------
(* No operation begins, and nothing completes, after a cancellation was    *)
(* seen.  BeginOp checks the latch and the closed flag; that covers the    *)
(* stop request because a request never exists without the latch, and the  *)
(* check reads a real execution because a suspended call holds a guard.    *)

StopLatched == \A e \in Invs : stop[e] # "none" => cancelled[e]

GuardHeld == \A t \in Tasks : at[t] \in {"sleep", "op"} => Active(t) # None

(* A step that touches only task t's place and stack, and leaves t outside *)
(* a client call, cannot take a guard from a suspended call.               *)
LEMMA GuardKept ==
    ASSUME TypeOK, GuardHeld, NEW t \in Tasks,
           NEW place, NEW frames,
           at' = [at EXCEPT ![t] = place], place \notin {"sleep", "op"},
           stack' = [stack EXCEPT ![t] = frames],
           context' = context
    PROVE  GuardHeld'
BY DEF TypeOK, GuardHeld, Active, Top

LEMMA LatchKept ==
    ASSUME TypeOK, StopLatched, [Next]_vars
    PROVE  StopLatched'
<1> USE DEF StopLatched, TypeOK
<1>1. ASSUME UNCHANGED stop, \A e \in Invs : cancelled[e] => cancelled'[e]
      PROVE  StopLatched'
  BY <1>1
<1>2. ASSUME NEW t \in Tasks, NEW i, NEW below, RequestStop(t, i, below)
      PROVE  StopLatched'
  BY <1>2 DEF RequestStop
<1>3. ASSUME NEW t \in Tasks, NEW i, NEW e, NEW below, CheckedOut(t, i, e, below)
      PROVE  StopLatched'
  BY <1>2, <1>3 DEF CheckedOut, Leave
<1>4. ASSUME NEW t \in Tasks, Unwind(t) PROVE StopLatched'
  BY <1>1, <1>2, <1>4 DEF Unwind, LeaveCancelled, LeaveFailed, LeaveTimeout,
                          Finish, Leave
<1>5. ASSUME NEW t \in Tasks, Body(t) PROVE StopLatched'
  <2>1. ASSUME NEW i \in Invs, NEW e \in Invs, NEW refused \in BOOLEAN,
               Invoke(t, i, e, refused)
        PROVE  StopLatched'
    BY <1>1, <1>3, <2>1 DEF Invoke, Leave
  <2>2. CASE Return(t)
    BY <1>1, <1>3, <2>2 DEF Return, Leave
  <2>3. CASE CallOp(t) \/ ReportProgress(t) \/ TouchClient(t)
    BY <1>1, <2>3 DEF CallOp, ReportProgress, TouchClient, Check, CheckCancels
  <2>4. CASE (\E h \in Tasks : Spawn(t, h)) \/ EnterTimeout(t) \/ Wait(t)
                \/ Raise(t) \/ HandleError(t) \/ Swallow(t)
    BY <1>1, <2>4 DEF Spawn, EnterTimeout, Wait, Raise, HandleError, Swallow
  <2> QED
    BY <1>5, <2>1, <2>2, <2>3, <2>4 DEF Body
<1>6. ASSUME NEW t \in Tasks, Loop(t) PROVE StopLatched'
  <2>1. CASE BeginOp(t) \/ OpReturns(t)
    BY <1>1, <2>1 DEF BeginOp, OpReturns, Check, CheckCancels
  <2>2. CASE Resume(t) \/ OpRaises(t) \/ KeepWaiting(t) \/ StopAnswered(t)
    BY <1>1, <2>2 DEF Resume, OpRaises, KeepWaiting, StopAnswered, Leave
  <2> QED
    BY <1>6, <2>1, <2>2 DEF Loop
<1>7. ASSUME NEW t \in Tasks, Cancel(t) \/ Expire(t) PROVE StopLatched'
  BY <1>1, <1>7 DEF Cancel, Expire
<1>8. ASSUME NEW e \in Invs, StopReply(e) PROVE StopLatched'
  BY <1>8 DEF StopReply
<1>9. CASE UNCHANGED vars
  BY <1>1, <1>9 DEF vars
<1> QED
  BY <1>4, <1>5, <1>6, <1>7, <1>8, <1>9 DEF Next

LEMMA GuardStep ==
    ASSUME TypeOK, GuardHeld, [Next]_vars
    PROVE  GuardHeld'
<1>1. ASSUME NEW t \in Tasks, NEW i, NEW e, NEW below,
             CheckedOut(t, i, e, below), UNCHANGED context
      PROVE  GuardHeld'
  <2>1. \E place \in {"stop", "CancelledError"} : \E frames :
           /\ at' = [at EXCEPT ![t] = place]
           /\ stack' = [stack EXCEPT ![t] = frames]
    BY <1>1 DEF CheckedOut, RequestStop, Leave, Goto
  <2> QED
    BY <1>1, <2>1, GuardKept
<1>2. ASSUME NEW t \in Tasks, NEW i, NEW root, NEW below, NEW event, NEW place,
             Leave(t, i, root, below, event, place), place \notin {"sleep", "op"},
             UNCHANGED context
      PROVE  GuardHeld'
  BY <1>2, GuardKept DEF Leave, Goto
<1>3. ASSUME NEW t \in Tasks, NEW place,
             at' = [at EXCEPT ![t] = place],
             place \in {"sleep", "op"} => Active(t) # None,
             UNCHANGED <<stack, context>>
      PROVE  GuardHeld'
  BY <1>3 DEF TypeOK, GuardHeld, Active, Top
<1>4. ASSUME NEW t \in Tasks, Unwind(t) PROVE GuardHeld'
  <2>1. CASE LeaveCancelled(t)
    <3>1. /\ \E place \in {"stop", "CancelledError"} : \E frames :
                /\ at' = [at EXCEPT ![t] = place]
                /\ stack' = [stack EXCEPT ![t] = frames]
          /\ UNCHANGED context
      BY <2>1 DEF LeaveCancelled, RequestStop, Leave, Goto
    <3> QED
      BY <3>1, GuardKept
  <2>2. CASE LeaveFailed(t)
    BY <1>2, <2>2 DEF LeaveFailed
  <2>3. CASE LeaveTimeout(t)
    <3>1. /\ \E place \in Running : \E frames :
                /\ at' = [at EXCEPT ![t] = place]
                /\ stack' = [stack EXCEPT ![t] = frames]
          /\ UNCHANGED context
      BY <2>3 DEF LeaveTimeout, Goto, Running
    <3> QED
      BY <3>1, GuardKept DEF Running
  <2>4. CASE Finish(t)
    BY <1>3, <2>4 DEF Finish, Goto
  <2> QED
    BY <1>4, <2>1, <2>2, <2>3, <2>4 DEF Unwind
<1>5. ASSUME NEW t \in Tasks, Body(t) PROVE GuardHeld'
  <2>1. ASSUME NEW i \in Invs, NEW e \in Invs, NEW refused \in BOOLEAN,
               Invoke(t, i, e, refused)
        PROVE  GuardHeld'
    <3>1. CASE CheckCancels(t, e)
      BY <1>1, <2>1, <3>1 DEF Invoke
    <3>2. CASE ~CheckCancels(t, e) /\ (closed[e] \/ refused)
      BY <1>2, <2>1, <3>2 DEF Invoke
    <3>3. CASE ~CheckCancels(t, e) /\ ~(closed[e] \/ refused)
      <4>1. /\ at[t] = "body"
            /\ stack' = [stack EXCEPT ![t] = Append(stack[t], CallFrame(i))]
            /\ UNCHANGED <<at, context>>
        BY <2>1, <3>3 DEF Invoke
      <4>2. at' = [at EXCEPT ![t] = "body"]
        BY <4>1 DEF TypeOK
      <4> QED
        BY <4>1, <4>2, GuardKept
    <3> QED
      BY <3>1, <3>2, <3>3
  <2>2. CASE Return(t)
    BY <1>1, <1>2, <2>2 DEF Return
  <2>3. CASE CallOp(t) \/ ReportProgress(t) \/ TouchClient(t)
    BY <1>3, <2>3 DEF CallOp, ReportProgress, TouchClient, Check, Goto
  <2>4. CASE EnterTimeout(t)
    <3>1. /\ at[t] = "body"
          /\ \E frames : stack' = [stack EXCEPT ![t] = frames]
          /\ UNCHANGED <<at, context>>
      BY <2>4 DEF EnterTimeout
    <3>2. at' = [at EXCEPT ![t] = "body"]
      BY <3>1 DEF TypeOK
    <3> QED
      BY <3>1, <3>2, GuardKept
  <2>5. CASE Wait(t) \/ Raise(t) \/ HandleError(t) \/ Swallow(t)
    BY <1>3, <2>5 DEF Wait, Raise, HandleError, Swallow, Goto
  <2>6. ASSUME NEW h \in Tasks, Spawn(t, h) PROVE GuardHeld'
    BY <2>6 DEF Spawn, TypeOK, GuardHeld, Active, Top
  <2> QED
    BY <1>5, <2>1, <2>2, <2>3, <2>4, <2>5, <2>6 DEF Body
<1>6. ASSUME NEW t \in Tasks, Loop(t) PROVE GuardHeld'
  <2>1. CASE Resume(t) \/ OpRaises(t)
    BY <1>3, <2>1 DEF Resume, OpRaises, Goto
  <2>2. CASE BeginOp(t) \/ OpReturns(t)
    <3>1. Active(t) # None
      BY <2>2 DEF BeginOp, OpReturns, GuardHeld
    <3>2. /\ \E place : at' = [at EXCEPT ![t] = place]
          /\ UNCHANGED <<stack, context>>
      BY <2>2 DEF BeginOp, OpReturns, Check, Goto
    <3> QED
      BY <1>3, <3>1, <3>2
  <2>3. CASE KeepWaiting(t)
    BY <2>3 DEF KeepWaiting, GuardHeld, Active, Top
  <2>4. CASE StopAnswered(t)
    <3>1. /\ \E place \in {"CancelledError"} : \E frames :
                /\ at' = [at EXCEPT ![t] = place]
                /\ stack' = [stack EXCEPT ![t] = frames]
          /\ UNCHANGED context
      BY <2>4 DEF StopAnswered, Leave, Goto
    <3> QED
      BY <3>1, GuardKept
  <2> QED
    BY <1>6, <2>1, <2>2, <2>3, <2>4 DEF Loop
<1>7. ASSUME NEW t \in Tasks, Cancel(t) PROVE GuardHeld'
  BY <1>7 DEF Cancel, GuardHeld, Active, Top
<1>8. ASSUME NEW t \in Tasks, Expire(t) PROVE GuardHeld'
  <2>1. PICK k \in DOMAIN stack[t] :
             stack' = [stack EXCEPT ![t] = [stack[t] EXCEPT ![k].expired = TRUE]]
    BY <1>8 DEF Expire
  <2>2. UNCHANGED <<at, context>>
    BY <1>8 DEF Expire
  <2>3. Active(t)' = Active(t)
    <3> DEFINE p == [stack[t] EXCEPT ![k].expired = TRUE]
    <3>1. stack[t] \in Seq(Frame) /\ Len(stack[t]) \in Nat
      BY LenProperties DEF TypeOK
    <3>2. /\ Len(p) = Len(stack[t])
          /\ \A l \in 1..Len(stack[t]) : p[l].inv = stack[t][l].inv
          /\ p \in Seq(Frame)
      BY <3>1, ExpireStack
    <3>3. stack'[t] = p
      BY <2>1 DEF TypeOK
    <3>4. stack[t] # <<>> /\ p # <<>> /\ Len(stack[t]) \in 1..Len(stack[t])
      BY <3>1, <3>2, EmptySeq, LenProperties
    <3> HIDE DEF p
    <3> QED
      BY <2>2, <3>2, <3>3, <3>4 DEF Active, Top
  <2>4. \A u \in Tasks : u # t => Active(u)' = Active(u)
    BY <2>1, <2>2 DEF Active, Top, TypeOK
  <2> QED
    BY <2>2, <2>3, <2>4 DEF GuardHeld
<1>9. CASE UNCHANGED vars \/ \E e \in Invs : StopReply(e)
  BY <1>9 DEF vars, StopReply, GuardHeld, Active, Top
<1> QED
  BY <1>4, <1>5, <1>6, <1>7, <1>8, <1>9 DEF Next

LatchInv == TypeOK /\ StopLatched /\ GuardHeld

LEMMA LatchInvariant == Spec => []LatchInv
<1>1. Init => StopLatched /\ GuardHeld
  BY DEF Init, StopLatched, GuardHeld
<1>2. TypeOK /\ StopLatched /\ GuardHeld /\ [Next]_vars => (StopLatched /\ GuardHeld)'
  BY LatchKept, GuardStep
<1> QED
  BY <1>1, <1>2, TypeCorrect, PTL DEF Spec, LatchInv

(* Only BeginOp reaches the client. *)
LEMMA OpStep ==
    ASSUME TypeOK, Next, NEW t \in Tasks, at[t] # "op", at'[t] = "op"
    PROVE  BeginOp(t)
<1>1. \A u \in Tasks : \A place : Goto(u, place) /\ at'[t] = "op" => u = t /\ place = "op"
  BY DEF Goto, TypeOK
<1>2. ASSUME NEW u \in Tasks, Unwind(u) PROVE FALSE
  BY <1>1, <1>2 DEF Unwind, LeaveCancelled, LeaveFailed, LeaveTimeout, Finish,
                    RequestStop, Leave, Running
<1>3. ASSUME NEW u \in Tasks, Body(u) PROVE FALSE
  <2>1. ASSUME NEW i, NEW e, NEW below, CheckedOut(u, i, e, below) PROVE FALSE
    BY <1>1, <2>1 DEF CheckedOut, RequestStop, Leave
  <2>2. ASSUME NEW i \in Invs, NEW e \in Invs, NEW refused \in BOOLEAN,
               Invoke(u, i, e, refused)
        PROVE  FALSE
    BY <1>1, <2>1, <2>2 DEF Invoke, Leave
  <2>3. CASE Return(u)
    BY <1>1, <2>1, <2>3 DEF Return, Leave
  <2>4. CASE CallOp(u) \/ ReportProgress(u) \/ TouchClient(u)
    BY <1>1, <2>4 DEF CallOp, ReportProgress, TouchClient, Check
  <2>5. CASE EnterTimeout(u) \/ Wait(u) \/ Raise(u) \/ HandleError(u) \/ Swallow(u)
    BY <1>1, <2>5 DEF EnterTimeout, Wait, Raise, HandleError, Swallow
  <2>6. ASSUME NEW h \in Tasks, Spawn(u, h) PROVE FALSE
    BY <2>6 DEF Spawn, TypeOK
  <2> QED
    BY <1>3, <2>2, <2>3, <2>4, <2>5, <2>6 DEF Body
<1>4. ASSUME NEW u \in Tasks, Loop(u) PROVE BeginOp(t)
  <2>1. CASE BeginOp(u)
    BY <1>1, <2>1 DEF BeginOp, Check
  <2>2. CASE Resume(u) \/ OpReturns(u) \/ OpRaises(u) \/ KeepWaiting(u)
                \/ StopAnswered(u)
    BY <1>1, <2>2 DEF Resume, OpReturns, OpRaises, KeepWaiting, StopAnswered,
                      Check, Leave
  <2> QED
    BY <1>4, <2>1, <2>2 DEF Loop
<1>5. ASSUME \/ \E u \in Tasks : Cancel(u) \/ Expire(u)
             \/ \E e \in Invs : StopReply(e)
      PROVE  FALSE
  BY <1>5 DEF Cancel, Expire, StopReply
<1> QED
  BY <1>2, <1>3, <1>4, <1>5 DEF Next

(* No client operation begins, in any task sharing the guard, once the     *)
(* execution saw a cancellation, asked the arm to stop, or was closed.     *)
THEOREM NoOperationAfterStop == Spec => NoOpAfterStop
<1>1. ASSUME LatchInv, [Next]_vars, NEW t \in Tasks, at[t] # "op", at'[t] = "op"
      PROVE  ~cancelled[Guard(t)] /\ stop[Guard(t)] = "none" /\ ~closed[Guard(t)]
  <2>1. Next
    BY <1>1 DEF vars
  <2>2. BeginOp(t)
    BY <1>1, <2>1, OpStep DEF LatchInv
  <2>3. at[t] = "sleep" /\ Active(t) # None
    BY <1>1, <2>2 DEF BeginOp, LatchInv, GuardHeld
  <2>4. Guard(t) \in Invs
    BY <1>1, <2>3, StackTypes DEF Guard, LatchInv, TypeOK
  <2>5. ~CheckCancels(t, Guard(t)) /\ ~closed[Guard(t)]
    BY <1>1, <2>2 DEF BeginOp, Check, Goto, LatchInv, TypeOK
  <2> QED
    BY <1>1, <2>4, <2>5 DEF CheckCancels, LatchInv, StopLatched
<1>2. LatchInv /\ [Next]_vars =>
        [\A t \in Tasks : at[t] # "op" /\ at'[t] = "op"
            => /\ ~cancelled[Guard(t)]
               /\ stop[Guard(t)] = "none"
               /\ ~closed[Guard(t)]]_vars
  BY <1>1
<1> QED
  BY <1>2, LatchInvariant, PTL DEF Spec, NoOpAfterStop

-----------------------------------------------------------------------------
(* Cancellation. *)

Over == {"completed", "failed", "cancelled", "torn"}

(* An open call is of a started invocation of this task.  Only the top one *)
(* of a task in stop() may be of a root that has asked the arm to stop.    *)
FrameHeld(t, k) ==
    LET f == stack[t][k]
    IN  /\ f.inv # None => phase[f.inv] # "none"
        /\ f.call => /\ f.inv # None
                     /\ phase[f.inv] = "started"
                     /\ runner[f.inv] = t
                     /\ IsRoot(f.inv) /\ stop[f.inv] # "none"
                          => at[t] = "stop" /\ k = Len(stack[t])

FramesHeld == \A t \in Tasks : \A k \in DOMAIN stack[t] : FrameHeld(t, k)

(* An invocation is called once. *)
CalledOnce ==
    \A t \in Tasks : \A k, l \in DOMAIN stack[t] :
        /\ stack[t][k].call /\ stack[t][l].call
        /\ stack[t][k].inv = stack[t][l].inv
        => k = l

(* A task in stop() is there for the root whose call is its innermost.     *)
StopsAtRoot ==
    \A t \in Tasks : at[t] = "stop" =>
        InCall(t) /\ IsRoot(Top(t).inv) /\ stop[Top(t).inv] # "none"

(* Contexts and guards name invocations that have started; those that have *)
(* not are untouched.                                                      *)
Known ==
    /\ \A t \in Tasks : context[t] # None => phase[context[t]] # "none"
    /\ \A i \in Invs :
        /\ owner[owner[i]] = owner[i]
        /\ phase[i] # "none" => phase[owner[i]] # "none"
        /\ phase[i] = "none" =>
            owner[i] = i /\ ~cancelled[i] /\ stop[i] = "none" /\ asked[i] = {}

(* A root's guard is closed just when its call is over.                    *)
EndsClosed ==
    \A i \in Invs : /\ closed[i] => phase[i] \in Over
                    /\ IsRoot(i) /\ phase[i] \in Over => closed[i]

CallInv == FramesHeld /\ CalledOnce /\ StopsAtRoot /\ Known /\ EndsClosed

-----------------------------------------------------------------------------
(* A task's stack is a sequence of frames. *)
LEMMA StackShape ==
    ASSUME TypeOK, NEW t \in Tasks
    PROVE  /\ stack[t] \in Seq(Frame)
           /\ Len(stack[t]) \in Nat
           /\ DOMAIN stack[t] = 1..Len(stack[t])
           /\ \A k \in DOMAIN stack[t] : stack[t][k] \in Frame
           /\ stack[t] # <<>> <=> Len(stack[t]) > 0
BY EmptySeq, LenProperties, ElementOfSeq DEF TypeOK

(* The stack without its innermost frame. *)
LEMMA BelowShape ==
    ASSUME TypeOK, NEW t \in Tasks, stack[t] # <<>>
    PROVE  /\ Below(t) \in Seq(Frame)
           /\ Len(Below(t)) = Len(stack[t]) - 1
           /\ DOMAIN Below(t) = 1..(Len(stack[t]) - 1)
           /\ \A k \in 1..(Len(stack[t]) - 1) : Below(t)[k] = stack[t][k]
<1>1. stack[t] \in Seq(Frame)
  BY DEF TypeOK
<1>2. /\ Below(t) \in Seq(Frame)
      /\ Len(Below(t)) = Len(stack[t]) - 1
      /\ \A k \in 1..Len(Below(t)) : Below(t)[k] = stack[t][k]
  BY <1>1, PopStack DEF Below
<1> QED
  BY <1>2, LenProperties

(* A stack with one more frame. *)
LEMMA PushShape ==
    ASSUME NEW s \in Seq(Frame), NEW f \in Frame
    PROVE  /\ Append(s, f) \in Seq(Frame)
           /\ Append(s, f) # <<>>
           /\ Len(Append(s, f)) = Len(s) + 1
           /\ DOMAIN Append(s, f) = 1..(Len(s) + 1)
           /\ \A k \in 1..Len(s) : Append(s, f)[k] = s[k]
           /\ Append(s, f)[Len(s) + 1] = f
BY PushStack, LenProperties

(* What a step of task t for invocation i leaves alone in the other tasks. *)
LEMMA OthersHeld ==
    ASSUME TypeOK, CallInv, NEW t \in Tasks, NEW i \in Invs,
           runner[i] = t \/ phase[i] = "none",
           phase'[i] # "none",
           \A j \in Invs \ {i} : /\ phase'[j] = phase[j] /\ stop'[j] = stop[j]
                                 /\ runner'[j] = runner[j] /\ owner'[j] = owner[j],
           NEW u \in Tasks, u # t, at'[u] = at[u], stack'[u] = stack[u],
           NEW k \in DOMAIN stack[u]
    PROVE  FrameHeld(u, k)'
<1>1. FrameHeld(u, k) /\ stack[u][k] \in Frame
  BY StackShape DEF CallInv, FramesHeld
<1> QED
  BY <1>1 DEF FrameHeld, IsRoot, Frame, None

(* Steps that leave calls and frames alone. *)
LEMMA QuietStep ==
    ASSUME TypeOK, CallInv, NEW t \in Tasks, NEW place,
           at' = [at EXCEPT ![t] = place], place # "stop", at[t] # "stop",
           UNCHANGED <<stack, context, owner, runner, phase, closed, stop, asked>>,
           \A e \in Invs : phase[e] = "none" => cancelled'[e] = cancelled[e]
    PROVE  CallInv'
<1> USE DEF CallInv
<1>1. FramesHeld'
  BY DEF FramesHeld, FrameHeld, IsRoot, TypeOK
<1>2. CalledOnce'
  BY DEF CalledOnce
<1>3. StopsAtRoot'
  BY DEF StopsAtRoot, InCall, Top, IsRoot, TypeOK
<1>4. Known'
  BY DEF Known
<1>5. EndsClosed'
  BY DEF EndsClosed, IsRoot
<1> QED
  BY <1>1, <1>2, <1>3, <1>4, <1>5

(* Steps that only change who asked for what. *)
LEMMA SameStep ==
    ASSUME TypeOK, CallInv,
           UNCHANGED <<at, stack, context, owner, runner, phase, closed, stop, cancelled>>,
           \A e \in Invs : phase[e] = "none" => asked'[e] = asked[e]
    PROVE  CallInv'
BY DEF CallInv, FramesHeld, FrameHeld, IsRoot, CalledOnce, StopsAtRoot, InCall, Top,
       Known, EndsClosed

(* A task's open calls are of invocations that have started. *)
LEMMA OpenStarted ==
    ASSUME TypeOK, CallInv, NEW t \in Tasks, NEW k \in Nat
    PROVE  \A e \in RootsAbove(t, k) : phase[e] = "started"
BY DEF RootsAbove, CallInv, FramesHeld, FrameHeld

(* task.cancel() touches histories only. *)
LEMMA CancelStep ==
    ASSUME TypeOK, CallInv, NEW t \in Tasks, Cancel(t)
    PROVE  CallInv'
<1>1. \A e \in WorksFor(t) : phase[e] # "none"
  BY OpenStarted DEF WorksFor, CallInv, Known, TypeOK
<1>2. \A e \in Invs : phase[e] = "none" => asked'[e] = asked[e]
  BY <1>1 DEF Cancel
<1> QED
  BY <1>2, SameStep DEF Cancel

(* A timeout that fires marks a frame that is no call. *)
LEMMA ExpireStep ==
    ASSUME TypeOK, CallInv, NEW t \in Tasks, Expire(t)
    PROVE  CallInv'
<1>1. PICK k \in DOMAIN stack[t] :
           /\ stack' = [stack EXCEPT ![t] = [@ EXCEPT ![k].expired = TRUE]]
           /\ asked' = [e \in Invs |-> IF e \in RootsAbove(t, k)
                                       THEN asked[e] \cup {t} ELSE asked[e]]
  BY DEF Expire
<1>2. UNCHANGED <<at, context, owner, runner, phase, cancelled, closed, stop>>
  BY DEF Expire
<1>3. /\ stack[t] \in Seq(Frame) /\ Len(stack[t]) \in Nat
      /\ DOMAIN stack[t] = 1..Len(stack[t])
      /\ Len(stack[t]) > 0
  BY StackShape
<1> DEFINE p == [stack[t] EXCEPT ![k].expired = TRUE]
<1>4. /\ Len(p) = Len(stack[t])
      /\ p \in Seq(Frame)
      /\ \A l \in 1..Len(stack[t]) : /\ p[l].inv = stack[t][l].inv
                                     /\ p[l].call = stack[t][l].call
  BY <1>3, ExpireStack
<1>5. DOMAIN p = 1..Len(stack[t])
  BY <1>3
<1>6. /\ stack'[t] = p
      /\ \A u \in Tasks : u # t => stack'[u] = stack[u]
  BY <1>1 DEF TypeOK
<1> HIDE DEF p
<1>7. \A u \in Tasks :
        /\ Len(stack'[u]) = Len(stack[u])
        /\ DOMAIN stack'[u] = DOMAIN stack[u]
        /\ \A l \in DOMAIN stack[u] : /\ stack'[u][l].inv = stack[u][l].inv
                                      /\ stack'[u][l].call = stack[u][l].call
  BY <1>3, <1>4, <1>5, <1>6
<1>8. \A u \in Tasks : stack[u] # <<>> =>
         Len(stack[u]) \in DOMAIN stack[u] /\ stack'[u] # <<>>
  BY <1>3, <1>4, <1>6, StackShape, EmptySeq
<1>9. FramesHeld'
  BY <1>2, <1>7 DEF CallInv, FramesHeld, FrameHeld, IsRoot
<1>10. CalledOnce'
  BY <1>7 DEF CallInv, CalledOnce
<1>11. StopsAtRoot'
  BY <1>2, <1>7, <1>8 DEF CallInv, StopsAtRoot, InCall, Top, IsRoot
<1>12. Known'
  <2>1. \A e \in RootsAbove(t, k) : phase[e] = "started"
    BY <1>3, OpenStarted
  <2> QED
    BY <1>1, <1>2, <2>1 DEF CallInv, Known
<1>13. EndsClosed'
  BY <1>2 DEF CallInv, EndsClosed, IsRoot
<1> QED
  BY <1>9, <1>10, <1>11, <1>12, <1>13 DEF CallInv

-----------------------------------------------------------------------------
(* What is known of the innermost open call. *)
LEMMA TopCall ==
    ASSUME TypeOK, CallInv, NEW t \in Tasks, InCall(t)
    PROVE  LET i == Top(t).inv
           IN  /\ i \in Invs /\ Active(t) = i
               /\ phase[i] = "started" /\ runner[i] = t /\ ~closed[i]
               /\ IsRoot(i) /\ at[t] # "stop" => stop[i] = "none"
               /\ owner[i] \in Invs /\ IsRoot(owner[i]) /\ phase[owner[i]] # "none"
<1>1. Len(stack[t]) \in DOMAIN stack[t] /\ stack[t] # <<>> /\ Top(t) \in Frame
  BY StackShape DEF InCall, Top
<1>2. FrameHeld(t, Len(stack[t]))
  BY <1>1 DEF CallInv, FramesHeld
<1> QED
  BY <1>1, <1>2 DEF FrameHeld, InCall, Top, Active, IsRoot, Frame, CallInv, EndsClosed, Over,
     Known, TypeOK

(* The frames under an open call are of other calls, and none has asked    *)
(* for the arm to stop.                                                    *)
LEMMA UnderTop ==
    ASSUME TypeOK, CallInv, NEW t \in Tasks, InCall(t), NEW k \in 1..(Len(stack[t]) - 1)
    PROVE  LET f == stack[t][k]
           IN  /\ f \in Frame /\ k \in DOMAIN stack[t]
               /\ f.call => f.inv # Top(t).inv
               /\ f.call /\ IsRoot(f.inv) => stop[f.inv] = "none"
<1>1. k \in DOMAIN stack[t] /\ Len(stack[t]) \in DOMAIN stack[t] /\ k # Len(stack[t])
  BY StackShape
<1>2. stack[t][k] \in Frame /\ FrameHeld(t, k)
  BY <1>1, StackShape DEF CallInv, FramesHeld
<1> QED
  BY <1>1, <1>2 DEF CallInv, CalledOnce, FrameHeld, Top, InCall

(* The stop request ends. *)
LEMMA ReplyStep ==
    ASSUME TypeOK, CallInv, NEW e \in Invs, StopReply(e)
    PROVE  CallInv'
<1>1. /\ stop[e] = "pending" /\ stop'[e] # "none"
      /\ \A j \in Invs \ {e} : stop'[j] = stop[j]
      /\ UNCHANGED <<at, stack, context, owner, runner, phase, cancelled, closed, asked>>
  BY SkillAssumption DEF StopReply, TypeOK, Outcomes
<1>2. \A j \in Invs : stop'[j] # "none" <=> stop[j] # "none"
  BY <1>1
<1>3. FramesHeld'
  BY <1>1, <1>2, StackShape DEF CallInv, FramesHeld, FrameHeld, IsRoot, Frame
<1>4. StopsAtRoot'
  <2>1. ASSUME NEW t \in Tasks, at[t] = "stop"
        PROVE  InCall(t) /\ Top(t).inv \in Invs /\ IsRoot(Top(t).inv) /\ stop[Top(t).inv] # "none"
    BY <2>1, TopCall DEF CallInv, StopsAtRoot
  <2> QED
    BY <1>1, <1>2, <2>1 DEF StopsAtRoot, InCall, Top, IsRoot
<1>5. CalledOnce' /\ Known' /\ EndsClosed'
  BY <1>1, <1>2 DEF CallInv, CalledOnce, Known, EndsClosed, IsRoot
<1> QED
  BY <1>3, <1>4, <1>5 DEF CallInv

(* A call ends: async_call leaves with an event. *)
LEMMA LeaveStep ==
    ASSUME TypeOK, CallInv, NEW t \in Tasks, InCall(t), NEW event \in Over, NEW place,
           place # "stop",
           Leave(t, Top(t).inv, IsRoot(Top(t).inv), Below(t), event, place),
           UNCHANGED <<context, owner, runner, asked>>,
           \A e \in Invs : phase[e] = "none" => cancelled'[e] = cancelled[e]
    PROVE  CallInv'
<1> DEFINE i == Top(t).inv
<1>1. /\ i \in Invs /\ phase[i] = "started" /\ runner[i] = t
  BY TopCall
<1>2. /\ DOMAIN stack'[t] = 1..(Len(stack[t]) - 1)
      /\ Len(stack'[t]) = Len(stack[t]) - 1
      /\ \A k \in 1..(Len(stack[t]) - 1) : stack'[t][k] = stack[t][k]
      /\ \A u \in Tasks : u # t => stack'[u] = stack[u]
  BY BelowShape DEF Leave, InCall, TypeOK
<1>3. /\ at'[t] = place /\ \A u \in Tasks : u # t => at'[u] = at[u]
      /\ phase'[i] = event /\ \A j \in Invs : j # i => phase'[j] = phase[j]
      /\ closed'[i] = (IsRoot(i) \/ closed[i])
      /\ \A j \in Invs : j # i => closed'[j] = closed[j]
      /\ stop' = stop
  BY <1>1 DEF Leave, Goto, TypeOK
<1>4. FramesHeld'
  <2>1. ASSUME NEW u \in Tasks, u # t, NEW k \in DOMAIN stack'[u] PROVE FrameHeld(u, k)'
    BY <1>1, <1>2, <1>3, <2>1, OthersHeld DEF Over
  <2>2. ASSUME NEW k \in DOMAIN stack'[t] PROVE FrameHeld(t, k)'
    <3>1. k \in 1..(Len(stack[t]) - 1)
      BY <1>2, <2>2
    <3>2. PICK f \in Frame : /\ f = stack[t][k] /\ FrameHeld(t, k)
                             /\ f.call => f.inv # i
                             /\ f.call /\ IsRoot(f.inv) => stop[f.inv] = "none"
      BY <3>1, UnderTop DEF CallInv, FramesHeld
    <3>3. stack'[t][k] = f
      BY <1>2, <3>1, <3>2
    <3>4. f.inv # None => f.inv \in Invs /\ phase'[f.inv] # "none"
      BY <1>1, <1>3, <3>2 DEF FrameHeld, Frame, Over
    <3>5. f.call => /\ f.inv # None /\ phase'[f.inv] = "started" /\ runner[f.inv] = t
                    /\ IsRoot(f.inv) => stop[f.inv] = "none"
      BY <1>3, <3>2, <3>4 DEF FrameHeld
    <3> QED
      BY <1>3, <3>3, <3>4, <3>5 DEF FrameHeld, IsRoot
  <2> QED
    BY <2>1, <2>2 DEF FramesHeld
<1>5. CalledOnce'
  <2>1. \A u \in Tasks : \A k \in DOMAIN stack'[u] :
           k \in DOMAIN stack[u] /\ stack'[u][k] = stack[u][k]
    BY <1>2, UnderTop
  <2> QED
    BY <2>1 DEF CallInv, CalledOnce
<1>6. StopsAtRoot'
  BY <1>2, <1>3 DEF CallInv, StopsAtRoot, InCall, Top, IsRoot
<1>7. Known'
  <2>1. \A j \in Invs : (phase'[j] = "none" <=> phase[j] = "none")
    BY <1>1, <1>3 DEF Over
  <2>2. /\ \A j \in Invs : owner[j] \in Invs
        /\ \A u \in Tasks : context[u] \in Invs \cup {None}
    BY DEF TypeOK
  <2> QED
    BY <1>3, <2>1, <2>2 DEF CallInv, Known
<1>8. EndsClosed'
  BY <1>1, <1>3 DEF CallInv, EndsClosed, IsRoot, Over
<1> QED
  BY <1>4, <1>5, <1>6, <1>7, <1>8 DEF CallInv

(* A root call that ends asks for the stop first, and stays open. *)
LEMMA StopStep ==
    ASSUME TypeOK, CallInv, NEW t \in Tasks, InCall(t), at[t] # "stop",
           IsRoot(Top(t).inv), RequestStop(t, Top(t).inv, Below(t)),
           UNCHANGED <<context, owner, runner, asked>>
    PROVE  CallInv'
<1> DEFINE i == Top(t).inv
           n == Len(stack[t])
<1>1. /\ i \in Invs /\ phase[i] = "started" /\ runner[i] = t /\ ~closed[i] /\ i # None
  BY TopCall, SkillAssumption DEF None
<1>2. CallFrame(i) \in Frame
  BY <1>1, FrameTypes
<1>3. /\ Below(t) \in Seq(Frame) /\ Len(Below(t)) = n - 1
      /\ \A k \in 1..(n - 1) : Below(t)[k] = stack[t][k]
      /\ n \in Nat /\ n > 0
  BY BelowShape, StackShape DEF InCall
<1>4. /\ DOMAIN stack'[t] = 1..n /\ Len(stack'[t]) = n /\ stack'[t] # <<>>
      /\ \A k \in 1..(n - 1) : stack'[t][k] = stack[t][k]
      /\ stack'[t][n] = CallFrame(i)
      /\ \A u \in Tasks : u # t => stack'[u] = stack[u]
  <2>1. stack'[t] = Append(Below(t), CallFrame(i))
        /\ \A u \in Tasks : u # t => stack'[u] = stack[u]
    BY DEF RequestStop, TypeOK
  <2> HIDE DEF n, i
  <2> QED
    BY <1>2, <1>3, <2>1, PushShape
<1>5. /\ at'[t] = "stop" /\ \A u \in Tasks : u # t => at'[u] = at[u]
      /\ \A j \in Invs : phase'[j] = phase[j]
      /\ stop'[i] = "pending" /\ \A j \in Invs : j # i => stop'[j] = stop[j]
      /\ \A j \in Invs : j # i => cancelled'[j] = cancelled[j]
      /\ closed' = closed
  BY <1>1 DEF RequestStop, Goto, TypeOK
<1>6. FramesHeld'
  <2>1. ASSUME NEW u \in Tasks, u # t, NEW k \in DOMAIN stack'[u] PROVE FrameHeld(u, k)'
    BY <1>1, <1>4, <1>5, <2>1, OthersHeld
  <2>2. ASSUME NEW k \in 1..(n - 1) PROVE FrameHeld(t, k)'
    <3>1. FrameHeld(t, k)
      BY UnderTop DEF CallInv, FramesHeld
    <3> QED
      BY <1>1, <1>4, <1>5, <3>1, UnderTop DEF FrameHeld, IsRoot, Frame, None
  <2>3. FrameHeld(t, n)'
    BY <1>1, <1>4, <1>5 DEF FrameHeld, CallFrame
  <2>4. \A k \in DOMAIN stack'[t] : k \in 1..(n - 1) \/ k = n
    <3> HIDE DEF n
    <3> QED
      BY <1>3, <1>4
  <2> QED
    BY <2>1, <2>2, <2>3, <2>4 DEF FramesHeld
<1>7. CalledOnce'
  <2>1. \A u \in Tasks : DOMAIN stack'[u] = DOMAIN stack[u]
    BY <1>4, StackShape
  <2>2. stack[t][n].inv = i /\ stack[t][n].call
    BY DEF InCall, Top
  <2>3. \A k \in DOMAIN stack[t] : k \in 1..(n - 1) \/ k = n
    <3>1. DOMAIN stack[t] = 1..n
      BY StackShape
    <3> HIDE DEF n
    <3> QED
      BY <1>3, <3>1
  <2>4. \A u \in Tasks : \A k \in DOMAIN stack[u] :
           /\ stack'[u][k].inv = stack[u][k].inv
           /\ stack'[u][k].call = stack[u][k].call
    <3>1. CallFrame(i).inv = i /\ CallFrame(i).call
      BY DEF CallFrame
    <3>2. \A k \in DOMAIN stack[t] : /\ stack'[t][k].inv = stack[t][k].inv
                                     /\ stack'[t][k].call = stack[t][k].call
      <4>1. stack[t][n] \in Frame
        BY StackShape, <1>3
      <4> HIDE DEF n, i
      <4>2. stack[t][n].call = TRUE /\ CallFrame(i).call = TRUE
        BY <2>2, <3>1, <4>1 DEF Frame, CallFrame
      <4> QED
        BY <1>4, <2>2, <2>3, <3>1, <4>2
    <3> QED
      BY <1>4, <3>2
  <2> QED
    BY <2>1, <2>4 DEF CallInv, CalledOnce
<1>8. StopsAtRoot'
  <2>1. ASSUME NEW u \in Tasks, at'[u] = "stop", u # t
        PROVE  (InCall(u) /\ IsRoot(Top(u).inv) /\ stop[Top(u).inv] # "none")'
    <3>1. at[u] = "stop"
      BY <1>5, <2>1
    <3>2. /\ InCall(u) /\ IsRoot(Top(u).inv) /\ stop[Top(u).inv] # "none"
          /\ Top(u).inv \in Invs
      BY <3>1, TopCall DEF CallInv, StopsAtRoot
    <3> QED
      BY <1>4, <1>5, <2>1, <3>2 DEF InCall, Top, IsRoot
  <2>2. (InCall(t) /\ IsRoot(Top(t).inv) /\ stop[Top(t).inv] # "none")'
    <3>1. Top(t)' = CallFrame(i)
      BY <1>4 DEF Top
    <3> QED
      BY <1>4, <1>5, <3>1 DEF InCall, IsRoot, CallFrame
  <2> QED
    BY <2>1, <2>2 DEF StopsAtRoot
<1>9. Known'
  <2>1. /\ \A j \in Invs : owner[j] \in Invs
        /\ \A u \in Tasks : context[u] \in Invs \cup {None}
    BY DEF TypeOK
  <2> HIDE DEF i, n
  <2> QED
    BY <1>1, <1>5, <2>1 DEF CallInv, Known
<1>10. EndsClosed'
  BY <1>1, <1>5 DEF CallInv, EndsClosed, IsRoot, Over
<1> QED
  BY <1>6, <1>7, <1>8, <1>9, <1>10 DEF CallInv

-----------------------------------------------------------------------------
(* The guard at hand is of an execution that has begun. *)
LEMMA GuardKnown ==
    ASSUME TypeOK, CallInv, NEW t \in Tasks, Active(t) # None
    PROVE  /\ Active(t) \in Invs /\ phase[Active(t)] # "none"
           /\ Guard(t) \in Invs /\ phase[Guard(t)] # "none" /\ IsRoot(Guard(t))
<1>1. Active(t) \in Invs
  BY StackTypes
<1>2. phase[Active(t)] # "none"
  <2>1. CASE stack[t] = <<>>
    BY <2>1 DEF Active, CallInv, Known
  <2>2. CASE stack[t] # <<>>
    <3>1. FrameHeld(t, Len(stack[t]))
      BY <2>2, StackShape DEF CallInv, FramesHeld
    <3> QED
      BY <2>2, <3>1 DEF FrameHeld, Active, Top
  <2> QED
    BY <2>1, <2>2
<1> QED
  BY <1>1, <1>2 DEF Guard, IsRoot, CallInv, Known, TypeOK

(* Frames of a task that is not in stop(): nobody asked for the arm to     *)
(* stop in any of its calls.                                               *)
LEMMA RunningFrames ==
    ASSUME TypeOK, CallInv, NEW t \in Tasks, at[t] # "stop", NEW k \in DOMAIN stack[t]
    PROVE  LET f == stack[t][k]
           IN  /\ f \in Frame /\ FrameHeld(t, k)
               /\ f.call /\ IsRoot(f.inv) => stop[f.inv] = "none"
BY StackShape DEF CallInv, FramesHeld, FrameHeld

(* A helper task inherits the active invocation. *)
LEMMA SpawnStep ==
    ASSUME TypeOK, CallInv, NEW t \in Tasks, NEW h \in Tasks, Spawn(t, h)
    PROVE  CallInv'
<1>1. /\ at' = [at EXCEPT ![h] = "ready"] /\ at[h] # "stop"
      /\ context' = [context EXCEPT ![h] = Active(t)]
      /\ UNCHANGED <<stack, owner, runner, phase, cancelled, closed, stop, asked>>
  BY DEF Spawn
<1>2. FramesHeld' /\ CalledOnce' /\ EndsClosed'
  BY <1>1 DEF CallInv, FramesHeld, FrameHeld, CalledOnce, EndsClosed, IsRoot, TypeOK
<1>3. StopsAtRoot'
  BY <1>1 DEF CallInv, StopsAtRoot, InCall, Top, IsRoot, TypeOK
<1>4. Known'
  BY <1>1, GuardKnown DEF CallInv, Known, TypeOK
<1> QED
  BY <1>2, <1>3, <1>4 DEF CallInv

(* asyncio.timeout opens a frame that is no call. *)
LEMMA EnterTimeoutStep ==
    ASSUME TypeOK, CallInv, NEW t \in Tasks, EnterTimeout(t)
    PROVE  CallInv'
<1> DEFINE n == Len(stack[t])
           f == TimeoutFrame(Active(t), Cancelling(t))
<1>1. /\ at[t] = "body" /\ stack' = [stack EXCEPT ![t] = Append(stack[t], f)]
      /\ UNCHANGED <<at, context, owner, runner, phase, cancelled, closed, stop, asked>>
  BY DEF EnterTimeout
<1>2. /\ f \in Frame /\ ~f.call /\ f.inv = Active(t)
  BY StackTypes, CancellingCounts, FrameTypes DEF TimeoutFrame
<1>3. /\ DOMAIN stack'[t] = 1..(n + 1) /\ Len(stack'[t]) = n + 1
      /\ \A k \in 1..n : stack'[t][k] = stack[t][k]
      /\ stack'[t][n + 1] = f
      /\ DOMAIN stack[t] = 1..n /\ n \in Nat
  <2>1. stack[t] \in Seq(Frame) /\ stack'[t] = Append(stack[t], f)
    BY <1>1 DEF TypeOK
  <2> HIDE DEF f
  <2> QED
    BY <1>2, <2>1, PushShape, StackShape
<1>4. \A u \in Tasks : u # t => stack'[u] = stack[u]
  BY <1>1 DEF TypeOK
<1> HIDE DEF f, n
<1>5. \A k \in DOMAIN stack'[t] : k \in DOMAIN stack[t] \/ k = n + 1
  BY <1>3
<1>6. FramesHeld'
  <2>1. ASSUME NEW u \in Tasks, u # t, NEW k \in DOMAIN stack'[u] PROVE FrameHeld(u, k)'
    BY <1>1, <1>4, <2>1 DEF CallInv, FramesHeld, FrameHeld, IsRoot
  <2>2. ASSUME NEW k \in DOMAIN stack[t] PROVE FrameHeld(t, k)'
    <3>1. /\ FrameHeld(t, k)
          /\ stack[t][k].call /\ IsRoot(stack[t][k].inv) => stop[stack[t][k].inv] = "none"
      BY <1>1, RunningFrames
    <3>2. stack'[t][k] = stack[t][k]
      BY <1>3
    <3> QED
      BY <1>1, <3>1, <3>2 DEF FrameHeld, IsRoot
  <2>3. ASSUME NEW k \in DOMAIN stack'[t], k = n + 1 PROVE FrameHeld(t, k)'
    <3>1. stack'[t][k].inv = Active(t) /\ ~stack'[t][k].call
      BY <1>2, <1>3, <2>3
    <3>2. Active(t) # None => phase[Active(t)] # "none"
      BY GuardKnown
    <3> QED
      BY <1>1, <3>1, <3>2 DEF FrameHeld
  <2> QED
    BY <1>5, <2>1, <2>2, <2>3 DEF FramesHeld
<1>7. CalledOnce'
  <2>1. ASSUME NEW u \in Tasks, NEW k \in DOMAIN stack'[u], stack'[u][k].call
        PROVE  k \in DOMAIN stack[u] /\ stack'[u][k] = stack[u][k]
    BY <1>2, <1>3, <1>4, <1>5, <2>1
  <2> QED
    BY <2>1 DEF CallInv, CalledOnce
<1>8. StopsAtRoot'
  BY <1>1, <1>4 DEF CallInv, StopsAtRoot, InCall, Top, IsRoot
<1>9. Known' /\ EndsClosed'
  BY <1>1 DEF CallInv, Known, EndsClosed, IsRoot
<1> QED
  BY <1>6, <1>7, <1>8, <1>9 DEF CallInv

(* Leaving the block closes it. *)
LEMMA LeaveTimeoutStep ==
    ASSUME TypeOK, CallInv, NEW t \in Tasks, LeaveTimeout(t)
    PROVE  CallInv'
<1> DEFINE n == Len(stack[t])
<1>1. /\ stack[t] # <<>> /\ stack' = [stack EXCEPT ![t] = Below(t)]
      /\ at[t] # "stop" /\ at'[t] # "stop"
      /\ \A u \in Tasks : u # t => at'[u] = at[u]
      /\ UNCHANGED <<context, owner, runner, phase, cancelled, closed, stop, asked>>
  BY DEF LeaveTimeout, InTimeout, Goto, Running, TypeOK
<1>2. /\ DOMAIN stack'[t] = 1..(n - 1)
      /\ \A k \in 1..(n - 1) : stack'[t][k] = stack[t][k]
      /\ \A k \in 1..(n - 1) : k \in DOMAIN stack[t]
      /\ \A u \in Tasks : u # t => stack'[u] = stack[u]
  BY <1>1, BelowShape, StackShape DEF TypeOK
<1>3. FramesHeld'
  <2>1. ASSUME NEW u \in Tasks, u # t, NEW k \in DOMAIN stack'[u] PROVE FrameHeld(u, k)'
    BY <1>1, <1>2, <2>1 DEF CallInv, FramesHeld, FrameHeld, IsRoot
  <2>2. ASSUME NEW k \in DOMAIN stack'[t] PROVE FrameHeld(t, k)'
    BY <1>1, <1>2, RunningFrames DEF FrameHeld, IsRoot
  <2> QED
    BY <2>1, <2>2 DEF FramesHeld
<1>4. CalledOnce'
  <2>1. \A u \in Tasks : \A k \in DOMAIN stack'[u] :
           k \in DOMAIN stack[u] /\ stack'[u][k] = stack[u][k]
    BY <1>2
  <2> QED
    BY <2>1 DEF CallInv, CalledOnce
<1>5. StopsAtRoot'
  BY <1>1, <1>2 DEF CallInv, StopsAtRoot, InCall, Top, IsRoot
<1>6. Known' /\ EndsClosed'
  BY <1>1 DEF CallInv, Known, EndsClosed, IsRoot
<1> QED
  BY <1>3, <1>4, <1>5, <1>6 DEF CallInv

-----------------------------------------------------------------------------
(* A new invocation. *)

Invoked(t, i, e) ==
    /\ at[t] = "body" /\ i # None
    /\ phase[i] = "none" /\ ~cancelled[i] /\ ~closed[i] /\ stop[i] = "none"
    /\ owner'[i] = e /\ runner'[i] = t
    /\ asked'[i] = IF Cancelling(t) > 0 THEN {t} ELSE {}
    /\ \A j \in Invs : j # i => /\ owner'[j] = owner[j] /\ runner'[j] = runner[j]
                                /\ asked'[j] = asked[j] /\ owner[j] # i
    /\ e # i => e = Guard(t) /\ phase[e] # "none" /\ owner[e] = e
    /\ UNCHANGED <<context, requests, thrown>>

(* What every outcome of an invocation has in common. *)
LEMMA InvokeFacts ==
    ASSUME TypeOK, CallInv, NEW t \in Tasks, NEW i \in Invs, NEW e \in Invs,
           NEW refused, Invoke(t, i, e, refused)
    PROVE  Invoked(t, i, e)
<1>1. /\ at[t] = "body" /\ phase[i] = "none"
      /\ e = i \/ (Active(t) # None /\ e = Guard(t))
  BY DEF Invoke, Fresh
<1>2. i # None
  BY SkillAssumption DEF None
<1>3. /\ owner'[i] = e /\ runner'[i] = t
      /\ asked'[i] = IF Cancelling(t) > 0 THEN {t} ELSE {}
      /\ \A j \in Invs : j # i => /\ owner'[j] = owner[j] /\ runner'[j] = runner[j]
                                  /\ asked'[j] = asked[j]
      /\ UNCHANGED <<context, requests, thrown>>
  BY DEF Invoke, TypeOK
<1>4. /\ ~cancelled[i] /\ stop[i] = "none" /\ ~closed[i]
      /\ \A j \in Invs : j # i => owner[j] # i
  BY <1>1 DEF CallInv, Known, EndsClosed, Over
<1>5. e # i => phase[e] # "none" /\ owner[e] = e
  BY <1>1, GuardKnown DEF IsRoot
<1> QED
  BY <1>1, <1>2, <1>3, <1>4, <1>5 DEF Invoked

(* The owners and phases after it, whatever becomes of it. *)
LEMMA InvokeKnown ==
    ASSUME TypeOK, CallInv, NEW t \in Tasks, NEW i \in Invs, NEW e \in Invs,
           Invoked(t, i, e),
           phase'[i] # "none", \A j \in Invs : j # i => phase'[j] = phase[j],
           \A j \in Invs : phase'[j] = "none" =>
              cancelled'[j] = cancelled[j] /\ stop'[j] = stop[j]
    PROVE  Known'
<1>0. /\ i # None /\ phase[i] = "none" /\ ~cancelled[i] /\ stop[i] = "none"
      /\ owner'[i] = e
      /\ \A j \in Invs : j # i =>
            owner'[j] = owner[j] /\ asked'[j] = asked[j] /\ owner[j] # i
      /\ e # i => phase[e] # "none" /\ owner[e] = e
      /\ UNCHANGED context
  BY DEF Invoked
<1>1. ASSUME NEW u \in Tasks, context'[u] # None PROVE phase'[context'[u]] # "none"
  BY <1>0, <1>1 DEF CallInv, Known, TypeOK
<1>2. ASSUME NEW j \in Invs
      PROVE  /\ owner'[owner'[j]] = owner'[j]
             /\ phase'[j] # "none" => phase'[owner'[j]] # "none"
             /\ phase'[j] = "none" => /\ owner'[j] = j /\ ~cancelled'[j]
                                      /\ stop'[j] = "none" /\ asked'[j] = {}
  <2>1. CASE j = i
    BY <1>0, <2>1
  <2>2. CASE j # i
    <3>1. owner[j] \in Invs /\ owner[j] # i /\ owner'[j] = owner[j]
      BY <1>0, <2>2 DEF TypeOK
    <3> QED
      BY <1>0, <2>2, <3>1 DEF CallInv, Known
  <2> QED
    BY <2>1, <2>2
<1> QED
  BY <1>1, <1>2 DEF Known

(* The frames that were there before it. *)
LEMMA InvokeFrames ==
    ASSUME TypeOK, CallInv, NEW t \in Tasks, NEW i \in Invs, NEW e \in Invs,
           Invoked(t, i, e),
           phase'[i] # "none", \A j \in Invs : j # i => phase'[j] = phase[j],
           \A j \in Invs : j # i => stop'[j] = stop[j],
           \A u \in Tasks : u # t => at'[u] = at[u] /\ stack'[u] = stack[u],
           \A k \in DOMAIN stack[t] : stack'[t][k] = stack[t][k]
    PROVE  /\ \A u \in Tasks : \A k \in DOMAIN stack[u] : FrameHeld(u, k)'
           /\ \A k \in DOMAIN stack[t] : stack[t][k].inv # i
<1>0. /\ at[t] = "body" /\ i # None /\ phase[i] = "none"
      /\ \A j \in Invs : j # i => owner'[j] = owner[j] /\ runner'[j] = runner[j]
  BY DEF Invoked
<1>1. ASSUME NEW u \in Tasks, u # t, NEW k \in DOMAIN stack[u] PROVE FrameHeld(u, k)'
  BY <1>0, <1>1, OthersHeld
<1>2. ASSUME NEW k \in DOMAIN stack[t] PROVE FrameHeld(t, k)' /\ stack[t][k].inv # i
  <2>1. /\ stack[t][k] \in Frame /\ FrameHeld(t, k)
        /\ stack[t][k].call /\ IsRoot(stack[t][k].inv) => stop[stack[t][k].inv] = "none"
    BY <1>0, RunningFrames
  <2>2. stack[t][k].inv # i
    BY <1>0, <2>1 DEF FrameHeld
  <2>3. stack'[t][k] = stack[t][k]
    OBVIOUS
  <2> QED
    BY <1>0, <2>1, <2>2, <2>3 DEF FrameHeld, IsRoot, Frame, None
<1> QED
  BY <1>1, <1>2

(* The three things that may become of it. *)

(* The body is run. *)
LEMMA AcceptedStep ==
    ASSUME TypeOK, CallInv, NEW t \in Tasks, NEW i \in Invs, NEW e \in Invs,
           Invoked(t, i, e),
           stack' = [stack EXCEPT ![t] = Append(@, CallFrame(i))],
           phase' = [phase EXCEPT ![i] = "started"],
           UNCHANGED <<at, cancelled, closed, stop>>
    PROVE  CallInv'
<1> DEFINE n == Len(stack[t])
           f == CallFrame(i)
<1>0. /\ at[t] = "body" /\ i # None /\ phase[i] = "none" /\ stop[i] = "none"
      /\ owner'[i] = e /\ runner'[i] = t /\ ~closed[i]
      /\ \A j \in Invs : j # i => owner'[j] = owner[j] /\ runner'[j] = runner[j]
  BY DEF Invoked
<1>1. /\ f \in Frame /\ f.call /\ f.inv = i
  BY FrameTypes DEF CallFrame
<1>2. phase'[i] = "started" /\ \A j \in Invs : j # i => phase'[j] = phase[j]
  BY DEF TypeOK
<1>3. /\ DOMAIN stack'[t] = 1..(n + 1) /\ Len(stack'[t]) = n + 1
      /\ \A k \in 1..n : stack'[t][k] = stack[t][k]
      /\ stack'[t][n + 1] = f
      /\ DOMAIN stack[t] = 1..n /\ n \in Nat
  <2>1. stack[t] \in Seq(Frame) /\ stack'[t] = Append(stack[t], f)
    BY DEF TypeOK
  <2> HIDE DEF f
  <2> QED
    BY <1>1, <2>1, PushShape, StackShape
<1>4. \A u \in Tasks : u # t => stack'[u] = stack[u]
  BY DEF TypeOK
<1> HIDE DEF f, n
<1>5. \A k \in DOMAIN stack'[t] : k \in DOMAIN stack[t] \/ k = n + 1
  BY <1>3
<1>6. /\ \A u \in Tasks : \A k \in DOMAIN stack[u] : FrameHeld(u, k)'
      /\ \A k \in DOMAIN stack[t] : stack[t][k].inv # i
  <2>1. \A k \in DOMAIN stack[t] : stack'[t][k] = stack[t][k]
    BY <1>3
  <2> QED
    BY <1>2, <1>4, <2>1, InvokeFrames
<1>7. FramesHeld'
  <2>1. ASSUME NEW k \in DOMAIN stack'[t], k = n + 1 PROVE FrameHeld(t, k)'
    BY <1>0, <1>1, <1>2, <1>3, <2>1 DEF FrameHeld
  <2> QED
    BY <1>4, <1>5, <1>6, <2>1 DEF FramesHeld
<1>8. CalledOnce'
  <2>1. ASSUME NEW k \in DOMAIN stack'[t], NEW l \in DOMAIN stack'[t],
               stack'[t][k].call, stack'[t][l].call, stack'[t][k].inv = stack'[t][l].inv
        PROVE  k = l
    <3>1. CASE k = n + 1 \/ l = n + 1
      BY <1>1, <1>3, <1>5, <1>6, <2>1, <3>1
    <3>2. CASE k \in DOMAIN stack[t] /\ l \in DOMAIN stack[t]
      BY <1>3, <2>1, <3>2 DEF CallInv, CalledOnce
    <3> QED
      BY <1>5, <3>1, <3>2
  <2> QED
    BY <1>4, <2>1 DEF CallInv, CalledOnce
<1>9. StopsAtRoot'
  <2>1. \A u \in Tasks : at[u] = "stop" => u # t /\ Top(u).inv \in Invs /\ Top(u).inv # i
    BY <1>0, TopCall DEF CallInv, StopsAtRoot
  <2> QED
    BY <1>0, <1>4, <2>1 DEF CallInv, StopsAtRoot, InCall, Top, IsRoot
<1>10. Known'
  BY <1>2, InvokeKnown
<1>11. EndsClosed'
  BY <1>0, <1>2 DEF CallInv, EndsClosed, IsRoot, Over
<1> QED
  BY <1>7, <1>8, <1>9, <1>10, <1>11 DEF CallInv

(* The guard is closed or a requirement unmet. *)
LEMMA TurnedAwayStep ==
    ASSUME TypeOK, CallInv, NEW t \in Tasks, NEW i \in Invs, NEW e \in Invs,
           Invoked(t, i, e), NEW event \in Over, NEW place, place # "stop",
           Leave(t, i, i = e, stack[t], event, place),
           \A j \in Invs : phase[j] = "none" => cancelled'[j] = cancelled[j]
    PROVE  CallInv'
<1>0. /\ at[t] = "body" /\ i # None /\ phase[i] = "none" /\ ~closed[i]
      /\ owner'[i] = e
      /\ \A j \in Invs : j # i => owner'[j] = owner[j] /\ runner'[j] = runner[j]
  BY DEF Invoked
<1>1. /\ at'[t] = place /\ \A u \in Tasks : u # t => at'[u] = at[u]
      /\ stack' = stack /\ stop' = stop
      /\ phase'[i] = event /\ \A j \in Invs : j # i => phase'[j] = phase[j]
      /\ closed'[i] = (i = e) /\ \A j \in Invs : j # i => closed'[j] = closed[j]
      /\ event # "none"
  BY <1>0 DEF Leave, Goto, TypeOK, Over
<1>2. FramesHeld'
  BY <1>1, InvokeFrames DEF FramesHeld
<1>3. CalledOnce'
  BY <1>1 DEF CallInv, CalledOnce
<1>4. StopsAtRoot'
  <2>1. \A u \in Tasks : at[u] = "stop" => u # t /\ Top(u).inv \in Invs /\ Top(u).inv # i
    BY <1>0, TopCall DEF CallInv, StopsAtRoot
  <2> QED
    BY <1>0, <1>1, <2>1 DEF CallInv, StopsAtRoot, InCall, Top, IsRoot
<1>5. Known'
  BY <1>1, InvokeKnown
<1>6. EndsClosed'
  BY <1>0, <1>1 DEF CallInv, EndsClosed, IsRoot, Over
<1> QED
  BY <1>2, <1>3, <1>4, <1>5, <1>6 DEF CallInv

(* The root is cancelled before its body begins. *)
LEMMA CancelledAtOnceStep ==
    ASSUME TypeOK, CallInv, NEW t \in Tasks, NEW i \in Invs,
           Invoked(t, i, i), RequestStop(t, i, stack[t])
    PROVE  CallInv'
<1> DEFINE n == Len(stack[t])
           f == CallFrame(i)
<1>0. /\ at[t] = "body" /\ i # None /\ phase[i] = "none" /\ stop[i] = "none"
      /\ owner'[i] = i /\ runner'[i] = t /\ ~closed[i]
      /\ \A j \in Invs : j # i => owner'[j] = owner[j] /\ runner'[j] = runner[j]
  BY DEF Invoked
<1>1. /\ f \in Frame /\ f.call /\ f.inv = i
  BY FrameTypes DEF CallFrame
<1>2. /\ phase'[i] = "started" /\ \A j \in Invs : j # i => phase'[j] = phase[j]
      /\ stop'[i] = "pending" /\ \A j \in Invs : j # i => stop'[j] = stop[j]
      /\ \A j \in Invs : j # i => cancelled'[j] = cancelled[j]
      /\ at'[t] = "stop" /\ \A u \in Tasks : u # t => at'[u] = at[u]
      /\ closed' = closed
  BY DEF TypeOK, RequestStop, Goto
<1>3. /\ DOMAIN stack'[t] = 1..(n + 1) /\ Len(stack'[t]) = n + 1 /\ stack'[t] # <<>>
      /\ \A k \in 1..n : stack'[t][k] = stack[t][k]
      /\ stack'[t][n + 1] = f
      /\ DOMAIN stack[t] = 1..n /\ n \in Nat
  <2>1. stack[t] \in Seq(Frame) /\ stack'[t] = Append(stack[t], f)
    BY DEF TypeOK, RequestStop
  <2> HIDE DEF f
  <2> QED
    BY <1>1, <2>1, PushShape, StackShape
<1>4. \A u \in Tasks : u # t => stack'[u] = stack[u]
  BY DEF TypeOK, RequestStop
<1> HIDE DEF f, n
<1>5. \A k \in DOMAIN stack'[t] : k \in DOMAIN stack[t] \/ k = n + 1
  BY <1>3
<1>6. /\ \A u \in Tasks : \A k \in DOMAIN stack[u] : FrameHeld(u, k)'
      /\ \A k \in DOMAIN stack[t] : stack[t][k].inv # i
  <2>1. \A k \in DOMAIN stack[t] : stack'[t][k] = stack[t][k]
    BY <1>3
  <2> QED
    BY <1>2, <1>4, <2>1, InvokeFrames
<1>7. FramesHeld'
  <2>1. ASSUME NEW k \in DOMAIN stack'[t], k = n + 1 PROVE FrameHeld(t, k)'
    BY <1>0, <1>1, <1>2, <1>3, <2>1 DEF FrameHeld
  <2> QED
    BY <1>4, <1>5, <1>6, <2>1 DEF FramesHeld
<1>8. CalledOnce'
  <2>1. ASSUME NEW k \in DOMAIN stack'[t], NEW l \in DOMAIN stack'[t],
               stack'[t][k].call, stack'[t][l].call, stack'[t][k].inv = stack'[t][l].inv
        PROVE  k = l
    <3>1. CASE k = n + 1 \/ l = n + 1
      BY <1>1, <1>3, <1>5, <1>6, <2>1, <3>1
    <3>2. CASE k \in DOMAIN stack[t] /\ l \in DOMAIN stack[t]
      BY <1>3, <2>1, <3>2 DEF CallInv, CalledOnce
    <3> QED
      BY <1>5, <3>1, <3>2
  <2> QED
    BY <1>4, <2>1 DEF CallInv, CalledOnce
<1>9. StopsAtRoot'
  <2>1. \A u \in Tasks : at[u] = "stop" => u # t /\ Top(u).inv \in Invs /\ Top(u).inv # i
    BY <1>0, TopCall DEF CallInv, StopsAtRoot
  <2>2. (InCall(t) /\ IsRoot(Top(t).inv) /\ stop[Top(t).inv] # "none")'
    <3>1. Top(t)' = f
      BY <1>3 DEF Top
    <3> QED
      BY <1>0, <1>1, <1>2, <1>3, <3>1 DEF InCall, IsRoot
  <2>3. ASSUME NEW u \in Tasks, at'[u] = "stop", u # t
        PROVE  (InCall(u) /\ IsRoot(Top(u).inv) /\ stop[Top(u).inv] # "none")'
    BY <1>0, <1>2, <1>4, <2>1, <2>3 DEF CallInv, StopsAtRoot, InCall, Top, IsRoot
  <2> QED
    BY <2>2, <2>3 DEF StopsAtRoot
<1>10. Known'
  BY <1>2, InvokeKnown
<1>11. EndsClosed'
  BY <1>0, <1>2 DEF CallInv, EndsClosed, IsRoot, Over
<1> QED
  BY <1>7, <1>8, <1>9, <1>10, <1>11 DEF CallInv

-----------------------------------------------------------------------------
(* Every step keeps the invariant. *)

(* check() inside async_call's try cancels the innermost call. *)
LEMMA CheckedOutStep ==
    ASSUME TypeOK, CallInv, NEW t \in Tasks, InCall(t), at[t] # "stop",
           CheckedOut(t, Top(t).inv, owner[Top(t).inv], Below(t)),
           UNCHANGED <<context, owner, runner, asked>>
    PROVE  CallInv'
<1> DEFINE i == Top(t).inv
<1>1. owner[i] \in Invs /\ phase[owner[i]] # "none"
  BY TopCall
<1>2. CASE i = owner[i]
  BY <1>2, StopStep DEF CheckedOut, IsRoot
<1>3. CASE i # owner[i]
  <2>1. /\ Leave(t, i, IsRoot(i), Below(t), "cancelled", "CancelledError")
        /\ cancelled' = [cancelled EXCEPT ![owner[i]] = TRUE]
    <3>1. IsRoot(i) = FALSE
      BY <1>3 DEF IsRoot
    <3> QED
      BY <1>3, <3>1 DEF CheckedOut
  <2>2. \A e \in Invs : phase[e] = "none" => cancelled'[e] = cancelled[e]
    BY <1>1, <2>1 DEF TypeOK
  <2>3. "cancelled" \in Over
    BY DEF Over
  <2> QED
    BY <2>1, <2>2, <2>3, LeaveStep
<1> QED
  BY <1>2, <1>3

(* One lemma for each group of actions. *)
LEMMA UnwindStep ==
    ASSUME TypeOK, CallInv, NEW t \in Tasks, Unwind(t)
    PROVE  CallInv'
<1>1. CASE LeaveCancelled(t)
  <2>1. /\ InCall(t) /\ at[t] # "stop" /\ UNCHANGED <<context, owner, runner, asked>>
    BY <1>1 DEF LeaveCancelled
  <2>2. CASE IsRoot(Top(t).inv)
    BY <1>1, <2>1, <2>2, StopStep DEF LeaveCancelled
  <2>3. CASE ~IsRoot(Top(t).inv)
    <3>1. /\ Leave(t, Top(t).inv, FALSE, Below(t), "cancelled", "CancelledError")
          /\ UNCHANGED cancelled /\ IsRoot(Top(t).inv) = FALSE
      BY <1>1, <2>3 DEF LeaveCancelled, IsRoot
    <3> QED
      BY <2>1, <3>1, LeaveStep DEF Over
  <2> QED
    BY <2>2, <2>3
<1>2. CASE LeaveFailed(t)
  <2>1. /\ InCall(t) /\ UNCHANGED <<context, owner, runner, asked, cancelled>>
        /\ Leave(t, Top(t).inv, IsRoot(Top(t).inv), Below(t), "failed", "Error")
    BY <1>2 DEF LeaveFailed
  <2> QED
    BY <2>1, LeaveStep DEF Over
<1>3. CASE LeaveTimeout(t)
  BY <1>3, LeaveTimeoutStep
<1>4. CASE Finish(t)
  BY <1>4, QuietStep DEF Finish, Goto, Running
<1> QED
  BY <1>1, <1>2, <1>3, <1>4 DEF Unwind

(* An invocation, whatever becomes of it. *)
LEMMA InvokeStep ==
    ASSUME TypeOK, CallInv, NEW t \in Tasks, NEW i \in Invs, NEW e \in Invs, NEW refused,
           Invoke(t, i, e, refused)
    PROVE  CallInv'
<1>1. Invoked(t, i, e)
  BY InvokeFacts
<1>2. CASE CheckCancels(t, e)
  <2>1. CheckedOut(t, i, e, stack[t])
    BY <1>2 DEF Invoke
  <2>2. CASE i = e
    BY <1>1, <2>1, <2>2, CancelledAtOnceStep DEF CheckedOut
  <2>3. CASE i # e
    <3>1. /\ Leave(t, i, FALSE, stack[t], "cancelled", "CancelledError")
          /\ cancelled' = [cancelled EXCEPT ![e] = TRUE]
          /\ (i = e) = FALSE
      BY <2>1, <2>3 DEF CheckedOut
    <3>2. \A j \in Invs : phase[j] = "none" => cancelled'[j] = cancelled[j]
      BY <1>1, <2>3, <3>1 DEF Invoked, TypeOK
    <3>3. "cancelled" \in Over
      BY DEF Over
    <3>4. Leave(t, i, i = e, stack[t], "cancelled", "CancelledError")
      BY <3>1
    <3> QED
      BY <1>1, <3>2, <3>3, <3>4, TurnedAwayStep
  <2> QED
    BY <2>2, <2>3
<1>3. CASE ~CheckCancels(t, e) /\ (closed[e] \/ refused)
  <2>1. Leave(t, i, i = e, stack[t], "failed", "Error") /\ UNCHANGED cancelled
    BY <1>3 DEF Invoke
  <2>2. "failed" \in Over
    BY DEF Over
  <2> QED
    BY <1>1, <2>1, <2>2, TurnedAwayStep
<1>4. CASE ~CheckCancels(t, e) /\ ~(closed[e] \/ refused)
  <2>1. /\ stack' = [stack EXCEPT ![t] = Append(@, CallFrame(i))]
        /\ phase' = [phase EXCEPT ![i] = "started"]
        /\ UNCHANGED <<at, cancelled, closed, stop>>
    BY <1>4 DEF Invoke
  <2> QED
    BY <1>1, <2>1, AcceptedStep
<1> QED
  BY <1>2, <1>3, <1>4

(* What a running body does. *)
LEMMA BodyStep ==
    ASSUME TypeOK, CallInv, NEW t \in Tasks, Body(t)
    PROVE  CallInv'
<1>1. CASE Return(t)
  <2>1. InCall(t) /\ at[t] # "stop" /\ UNCHANGED <<context, owner, runner, asked>>
    BY <1>1 DEF Return
  <2>2. CASE CheckCancels(t, owner[Top(t).inv])
    BY <1>1, <2>1, <2>2, CheckedOutStep DEF Return
  <2>3. CASE ~CheckCancels(t, owner[Top(t).inv])
    <3>1. /\ \E event \in {"failed", "completed"}, place \in {"Error", "body"} :
                Leave(t, Top(t).inv, IsRoot(Top(t).inv), Below(t), event, place)
          /\ UNCHANGED cancelled
      <4>1. IsRoot(Top(t).inv) = (Top(t).inv = owner[Top(t).inv])
        BY DEF IsRoot
      <4> QED
        BY <1>1, <2>3, <4>1 DEF Return
    <3> QED
      BY <2>1, <3>1, LeaveStep DEF Over
  <2> QED
    BY <2>2, <2>3
<1>2. CASE CallOp(t) \/ ReportProgress(t) \/ TouchClient(t)
  <2>1. /\ at[t] # "stop"
        /\ \E place \in {"sleep", "body", "CancelledError", "Error"} :
              at' = [at EXCEPT ![t] = place]
        /\ Active(t) # None
        /\ cancelled' = [cancelled EXCEPT ![Guard(t)] = CheckCancels(t, Guard(t))]
        /\ UNCHANGED <<stack, context, owner, runner, phase, closed, stop, asked>>
    BY <1>2 DEF CallOp, ReportProgress, TouchClient, Check, Goto
  <2>2. \A e \in Invs : phase[e] = "none" => cancelled'[e] = cancelled[e]
    BY <2>1, GuardKnown DEF TypeOK
  <2> QED
    BY <2>1, <2>2, QuietStep
<1>3. CASE Wait(t) \/ Raise(t) \/ HandleError(t) \/ Swallow(t)
  BY <1>3, QuietStep DEF Wait, Raise, HandleError, Swallow, Goto
<1> QED
  BY <1>1, <1>2, <1>3, InvokeStep, SpawnStep, EnterTimeoutStep DEF Body

(* What the loop does with a suspended task. *)
LEMMA LoopStep ==
    ASSUME TypeOK, GuardHeld, CallInv, NEW t \in Tasks, Loop(t)
    PROVE  CallInv'
<1>1. CASE Resume(t) \/ OpRaises(t)
  BY <1>1, QuietStep DEF Resume, OpRaises, Goto
<1>2. CASE BeginOp(t) \/ OpReturns(t)
  <2>1. /\ at[t] # "stop" /\ Active(t) # None
        /\ \E place \in {"op", "body", "CancelledError", "Error"} :
              at' = [at EXCEPT ![t] = place]
        /\ \/ UNCHANGED cancelled
           \/ cancelled' = [cancelled EXCEPT ![Guard(t)] = CheckCancels(t, Guard(t))]
        /\ UNCHANGED <<stack, context, owner, runner, phase, closed, stop, asked>>
    BY <1>2 DEF BeginOp, OpReturns, Check, Goto, GuardHeld
  <2>2. \A e \in Invs : phase[e] = "none" => cancelled'[e] = cancelled[e]
    BY <2>1, GuardKnown DEF TypeOK
  <2> QED
    BY <2>1, <2>2, QuietStep
<1>3. CASE KeepWaiting(t)
  BY <1>3, SameStep DEF KeepWaiting
<1>4. CASE StopAnswered(t)
  <2>1. InCall(t) /\ IsRoot(Top(t).inv) /\ Active(t) = Top(t).inv
    BY <1>4, TopCall DEF StopAnswered, CallInv, StopsAtRoot
  <2>2. /\ \E event \in Over :
              Leave(t, Top(t).inv, IsRoot(Top(t).inv), Below(t), event, "CancelledError")
        /\ UNCHANGED <<context, owner, runner, asked, cancelled>>
    <3>1. IsRoot(Top(t).inv) = TRUE
      BY <2>1 DEF IsRoot
    <3> QED
      BY <1>4, <2>1, <3>1 DEF StopAnswered, Over
  <2> QED
    BY <2>1, <2>2, LeaveStep
<1> QED
  BY <1>1, <1>2, <1>3, <1>4 DEF Loop

(* All of them together. *)
LEMMA CallInvStep ==
    ASSUME TypeOK, GuardHeld, CallInv, [Next]_vars
    PROVE  CallInv'
<1>1. CASE UNCHANGED vars
  BY <1>1, SameStep DEF vars
<1>2. CASE Next
  BY <1>2, UnwindStep, BodyStep, LoopStep, CancelStep, ExpireStep, ReplyStep DEF Next
<1> QED
  BY <1>1, <1>2

(* The invariant the theorems below start from. *)
SkillInv == LatchInv /\ CallInv

(* The latches and the open calls, in every reachable state. *)
LEMMA SkillInvariant == Spec => []SkillInv
<1>1. Init => CallInv
  <2> SUFFICES ASSUME Init PROVE CallInv
    OBVIOUS
  <2>1. \A t \in Tasks : stack[t] = <<>> /\ DOMAIN stack[t] = {} /\ at[t] # "stop"
    BY EmptySeq DEF Init
  <2> QED
    BY <2>1 DEF Init, CallInv, FramesHeld, CalledOnce, StopsAtRoot, Known, EndsClosed, Over
<1>2. LatchInv /\ CallInv /\ [Next]_vars => CallInv'
  BY CallInvStep DEF LatchInv
<1> QED
  BY <1>1, <1>2, LatchInvariant, PTL DEF Spec, SkillInv
-----------------------------------------------------------------------------
(* What a step may do to a phase, a stop request, an owner. *)

(* check() tells nothing of other invocations. *)
LEMMA CheckedOutPhase ==
    ASSUME TypeOK, NEW t, NEW i \in Invs, NEW e, NEW below, CheckedOut(t, i, e, below)
    PROVE  /\ \A j \in Invs : j # i => phase'[j] = phase[j] /\ stop'[j] = stop[j]
           /\ \/ i = e /\ phase'[i] = "started" /\ stop'[i] = "pending"
              \/ i # e /\ phase'[i] = "cancelled" /\ stop'[i] = stop[i]
BY DEF CheckedOut, RequestStop, Leave, TypeOK

(* Why an invocation's phase changes. *)
Succeeds(t, i) ==
    InCall(t) /\ Top(t).inv = i /\ ~CheckCancels(t, owner[i]) /\ asked' = asked
Answered(t, i) ==
    /\ at[t] = "stop" /\ Active(t) = i /\ stop[i] # "pending"
    /\ phase'[i] = IF stop[i] = "torn" THEN "torn" ELSE "cancelled"
    /\ stop' = stop

(* Every change of a phase is one of these. *)
LEMMA PhaseStep ==
    ASSUME TypeOK, CallInv, Next, NEW i \in Invs, phase'[i] # phase[i]
    PROVE  \/ phase'[i] = "started" /\ phase[i] = "none"
           \/ phase'[i] = "failed"
           \/ phase'[i] = "cancelled" /\ owner'[i] # i
           \/ phase'[i] = "completed" /\ \E t \in Tasks : Succeeds(t, i)
           \/ \E t \in Tasks : Answered(t, i)
<1>1. ASSUME NEW t \in Tasks, Unwind(t)
      PROVE  phase'[i] = "failed" \/ (phase'[i] = "cancelled" /\ owner'[i] # i)
  <2>1. CASE LeaveCancelled(t)
    <3>1. Top(t).inv \in Invs /\ phase[Top(t).inv] = "started"
      BY <2>1, TopCall DEF LeaveCancelled
    <3> QED
      BY <2>1, <3>1 DEF LeaveCancelled, RequestStop, Leave, IsRoot, TypeOK
  <2>2. CASE LeaveFailed(t)
    BY <2>2 DEF LeaveFailed, Leave, TypeOK
  <2>3. CASE LeaveTimeout(t) \/ Finish(t)
    BY <2>3 DEF LeaveTimeout, Finish
  <2> QED
    BY <1>1, <2>1, <2>2, <2>3 DEF Unwind
<1>2. ASSUME NEW t \in Tasks, Body(t)
      PROVE  \/ phase'[i] = "started" /\ phase[i] = "none"
             \/ phase'[i] = "failed"
             \/ phase'[i] = "cancelled" /\ owner'[i] # i
             \/ phase'[i] = "completed" /\ Succeeds(t, i)
  <2>1. ASSUME NEW j \in Invs, NEW e \in Invs, NEW refused, Invoke(t, j, e, refused)
        PROVE  \/ phase'[i] = "started" /\ phase[i] = "none"
               \/ phase'[i] = "failed"
               \/ phase'[i] = "cancelled" /\ owner'[i] # i
    <3>1. Invoked(t, j, e)
      BY <2>1, InvokeFacts
    <3>2. CASE CheckCancels(t, e)
      <4>1. CheckedOut(t, j, e, stack[t])
        BY <2>1, <3>2 DEF Invoke
      <4> QED
        BY <3>1, <4>1, CheckedOutPhase DEF Invoked
    <3>3. CASE ~CheckCancels(t, e)
      BY <2>1, <3>1, <3>3 DEF Invoke, Leave, Invoked, TypeOK
    <3> QED
      BY <3>2, <3>3
  <2>2. CASE Return(t)
    <3> DEFINE j == Top(t).inv
    <3>1. j \in Invs /\ phase[j] = "started" /\ owner' = owner /\ asked' = asked /\ InCall(t)
      BY <2>2, TopCall DEF Return
    <3>2. CASE CheckCancels(t, owner[j])
      <4>1. CheckedOut(t, j, owner[j], Below(t))
        BY <2>2, <3>2 DEF Return
      <4> HIDE DEF j
      <4> QED
        BY <3>1, <4>1, CheckedOutPhase
    <3>3. CASE ~CheckCancels(t, owner[j])
      <4>1. \E event \in {"failed", "completed"} : phase' = [phase EXCEPT ![j] = event]
        BY <2>2, <3>3 DEF Return, Leave
      <4>2. i = j
        BY <4>1 DEF TypeOK
      <4>3. Succeeds(t, i)
        BY <3>1, <3>3, <4>2 DEF Succeeds
      <4> QED
        BY <4>1, <4>3 DEF TypeOK
    <3> QED
      BY <3>2, <3>3
  <2>3. CASE ~Return(t) /\ ~ \E j, e \in Invs, refused \in BOOLEAN : Invoke(t, j, e, refused)
    BY <1>2, <2>3 DEF Body, Spawn, CallOp, ReportProgress, EnterTimeout, Wait, Raise,
                      HandleError, Swallow, TouchClient
  <2> QED
    BY <2>1, <2>2, <2>3
<1>3. ASSUME NEW t \in Tasks, Loop(t) PROVE Answered(t, i)
  <2>1. StopAnswered(t)
    BY <1>3 DEF Loop, Resume, BeginOp, OpReturns, OpRaises, KeepWaiting
  <2> QED
    BY <2>1 DEF StopAnswered, Leave, Answered, TypeOK
<1>4. ASSUME \/ \E t \in Tasks : Cancel(t) \/ Expire(t)
             \/ \E e \in Invs : StopReply(e)
      PROVE  FALSE
  BY <1>4 DEF Cancel, Expire, StopReply
<1> QED
  BY <1>1, <1>2, <1>3, <1>4 DEF Next

(* A stop request is made by a root that stays open, and answered once. *)
LEMMA StopFieldStep ==
    ASSUME TypeOK, CallInv, Next, NEW e \in Invs, stop'[e] # stop[e]
    PROVE  \/ stop'[e] = "pending" /\ phase'[e] = "started"
           \/ stop[e] = "pending" /\ stop'[e] \in StopOutcomes /\ phase' = phase
<1>1. ASSUME NEW t \in Tasks, Unwind(t) PROVE stop'[e] = "pending" /\ phase'[e] = "started"
  BY <1>1 DEF Unwind, LeaveCancelled, LeaveFailed, LeaveTimeout, Finish, RequestStop,
              Leave, TypeOK
<1>2. ASSUME NEW t \in Tasks, Body(t) PROVE stop'[e] = "pending" /\ phase'[e] = "started"
  <2>1. ASSUME NEW j \in Invs, NEW r \in Invs, NEW refused, Invoke(t, j, r, refused)
        PROVE  stop'[e] = "pending" /\ phase'[e] = "started"
    <3>1. CASE CheckCancels(t, r)
      <4>1. CheckedOut(t, j, r, stack[t])
        BY <2>1, <3>1 DEF Invoke
      <4> QED
        BY <4>1, CheckedOutPhase
    <3>2. CASE ~CheckCancels(t, r)
      BY <2>1, <3>2 DEF Invoke, Leave
    <3> QED
      BY <3>1, <3>2
  <2>2. CASE Return(t)
    <3>1. CASE CheckCancels(t, owner[Top(t).inv])
      <4>1. Top(t).inv \in Invs
        BY <2>2, TopCall DEF Return
      <4>2. CheckedOut(t, Top(t).inv, owner[Top(t).inv], Below(t))
        BY <2>2, <3>1 DEF Return
      <4> QED
        BY <4>1, <4>2, CheckedOutPhase
    <3>2. CASE ~CheckCancels(t, owner[Top(t).inv])
      BY <2>2, <3>2 DEF Return, Leave
    <3> QED
      BY <3>1, <3>2
  <2>3. CASE ~Return(t) /\ ~ \E j, r \in Invs, refused \in BOOLEAN : Invoke(t, j, r, refused)
    BY <1>2, <2>3 DEF Body, Spawn, CallOp, ReportProgress, EnterTimeout, Wait, Raise,
                      HandleError, Swallow, TouchClient
  <2> QED
    BY <2>1, <2>2, <2>3
<1>3. ASSUME NEW t \in Tasks, Loop(t) \/ Cancel(t) \/ Expire(t) PROVE FALSE
  BY <1>3 DEF Loop, Resume, BeginOp, OpReturns, OpRaises, KeepWaiting, StopAnswered,
              Leave, Cancel, Expire
<1>4. ASSUME NEW f \in Invs, StopReply(f)
      PROVE  stop[e] = "pending" /\ stop'[e] \in StopOutcomes /\ phase' = phase
  BY <1>4 DEF StopReply, TypeOK
<1> QED
  BY <1>1, <1>2, <1>3, <1>4 DEF Next

(* Only a new invocation gets an owner, and a new root owns itself. *)
LEMMA OwnerStep ==
    ASSUME TypeOK, CallInv, Next, NEW i \in Invs
    PROVE  /\ owner'[i] # owner[i] => owner'[i] # i
           /\ owner'[i] # owner[i] \/ runner'[i] # runner[i] => phase[i] = "none"
<1>1. ASSUME NEW t \in Tasks, NEW j \in Invs, NEW e \in Invs, NEW refused,
             Invoke(t, j, e, refused)
      PROVE  /\ owner'[i] # owner[i] => owner'[i] # i
             /\ owner'[i] # owner[i] \/ runner'[i] # runner[i] => phase[i] = "none"
  <2>1. Invoked(t, j, e)
    BY <1>1, InvokeFacts
  <2>2. phase[i] = "none" => owner[i] = i
    BY DEF CallInv, Known
  <2> QED
    BY <2>1, <2>2 DEF Invoked
<1>2. CASE ~ \E t \in Tasks, j, e \in Invs, refused \in BOOLEAN : Invoke(t, j, e, refused)
  BY <1>2 DEF Next, Unwind, LeaveCancelled, LeaveFailed, LeaveTimeout, Finish,
              Body, Spawn, Return, CallOp, ReportProgress, EnterTimeout, Wait, Raise,
              HandleError, Swallow, TouchClient, Loop, Resume, BeginOp, OpReturns,
              OpRaises, KeepWaiting, StopAnswered, Cancel, Expire, StopReply
<1> QED
  BY <1>1, <1>2

-----------------------------------------------------------------------------
(* Cancellation is sticky, for any tasks, invocations and habits: check()  *)
(* in async_call reads the latch before "completed" is emitted.            *)
THEOREM CancellationIsSticky == Spec => StickyCancellation
<1>1. ASSUME SkillInv, [Next]_vars, NEW i \in Invs,
             phase[i] # "completed", phase'[i] = "completed"
      PROVE  ~cancelled[owner[i]]
  <2>1. Next /\ TypeOK /\ CallInv
    BY <1>1 DEF vars, SkillInv, LatchInv
  <2>2. \E t \in Tasks : Succeeds(t, i)
    BY <1>1, <2>1, PhaseStep DEF Answered
  <2> QED
    BY <2>2 DEF Succeeds, CheckCancels
<1>2. SkillInv /\ [Next]_vars =>
        [\A i \in Invs : phase[i] # "completed" /\ phase'[i] = "completed"
            => ~cancelled[owner[i]]]_vars
  BY <1>1
<1> QED
  BY <1>2, SkillInvariant, PTL DEF Spec, StickyCancellation

(* Whatever cancellations reach a root while it waits in stop(), it tells  *)
(* "cancelled" only with the answer to its stop request.                   *)
THEOREM CancelledReports == Spec => []CancelledReportsStop
<1>1. Init => CancelledReportsStop
  BY DEF Init, CancelledReportsStop
<1>2. ASSUME SkillInv, CancelledReportsStop, [Next]_vars PROVE CancelledReportsStop'
  <2>1. CASE UNCHANGED vars
    BY <1>2, <2>1 DEF vars, CancelledReportsStop, IsRoot
  <2>2. ASSUME Next, NEW e \in Invs, IsRoot(e)', phase'[e] = "cancelled"
        PROVE  stop'[e] \in {"confirmed", "unconfirmed"}
    <3>1. TypeOK /\ CallInv
      BY <1>2 DEF SkillInv, LatchInv
    <3>2. IsRoot(e)
      BY <2>2, <3>1, OwnerStep DEF IsRoot
    <3>3. CASE phase[e] = "cancelled"
      BY <1>2, <2>2, <3>1, <3>2, <3>3, StopFieldStep DEF CancelledReportsStop
    <3>4. CASE phase[e] # "cancelled"
      <4>1. PICK t \in Tasks : Answered(t, e)
        BY <2>2, <3>1, <3>4, PhaseStep DEF IsRoot
      <4>2. stop[e] # "none"
        BY <3>1, <4>1, TopCall DEF Answered, CallInv, StopsAtRoot
      <4> QED
        BY <2>2, <3>1, <4>1, <4>2 DEF Answered, TypeOK, Outcomes
    <3> QED
      BY <3>3, <3>4
  <2> QED
    BY <1>2, <2>1, <2>2 DEF CancelledReportsStop
<1> QED
  BY <1>1, <1>2, SkillInvariant, PTL DEF Spec

(* Unless the task that asks for the stop is itself cancelled, a closed    *)
(* guard means that the end was told.                                      *)
THEOREM EndsAreReported ==
    ASSUME "torn" \notin StopOutcomes
    PROVE  Spec => []EndIsReported
<1> DEFINE NoneTorn == \A e \in Invs : stop[e] # "torn" /\ phase[e] # "torn"
<1>1. Init => NoneTorn
  BY DEF Init
<1>2. ASSUME SkillInv, NoneTorn, [Next]_vars PROVE NoneTorn'
  <2>1. CASE UNCHANGED vars
    BY <1>2, <2>1 DEF vars
  <2>2. CASE Next
    <3>1. TypeOK /\ CallInv
      BY <1>2 DEF SkillInv, LatchInv
    <3>2. \A e \in Invs : stop'[e] # "torn"
      BY <1>2, <2>2, <3>1, StopFieldStep
    <3>3. \A e \in Invs : phase'[e] # "torn"
      BY <1>2, <2>2, <3>1, PhaseStep DEF Answered
    <3> QED
      BY <3>2, <3>3
  <2> QED
    BY <1>2, <2>1, <2>2
<1>3. SkillInv /\ NoneTorn => EndIsReported
  BY DEF SkillInv, CallInv, EndsClosed, EndIsReported, Over
<1> HIDE DEF NoneTorn
<1> QED
  BY <1>1, <1>2, <1>3, SkillInvariant, PTL DEF Spec

-----------------------------------------------------------------------------
(* A cancellation from outside stays visible: to a root that was asked to  *)
(* end, task.cancelling() of its task is positive until its call is left,  *)
(* because the request is never taken back and a timeout that fired is     *)
(* still open below the call.                                              *)

AskedFrame(t, k) ==
    LET f == stack[t][k]
    IN  f.call /\ IsRoot(f.inv) /\ t \in asked[f.inv]
          => \/ requests[t] > 0
             \/ \E l \in DOMAIN stack[t] : l < k /\ stack[t][l].expired

AskedCancels == \A t \in Tasks : \A k \in DOMAIN stack[t] : AskedFrame(t, k)

(* Open calls keep what is below them, and the frames a step adds are not  *)
(* calls.                                                                  *)
CallsKept ==
    \A u \in Tasks : \A k \in DOMAIN stack'[u] : stack'[u][k].call =>
        /\ k \in DOMAIN stack[u]
        /\ stack[u][k].call /\ stack[u][k].inv = stack'[u][k].inv
        /\ \A l \in DOMAIN stack[u] : l < k /\ stack[u][l].expired
              => l \in DOMAIN stack'[u] /\ stack'[u][l].expired

(* A step that keeps a call and what was asked keeps its frame's facts. *)
LEMMA AskedKept ==
    ASSUME TypeOK, CallInv, AskedCancels, CallsKept, requests' = requests,
           \A e \in Invs : phase[e] # "none" => asked'[e] = asked[e] /\ owner'[e] = owner[e]
    PROVE  AskedCancels'
<1> SUFFICES ASSUME NEW u \in Tasks, NEW k \in DOMAIN stack'[u], stack'[u][k].call
             PROVE  AskedFrame(u, k)'
  BY DEF AskedCancels, AskedFrame
<1>1. /\ k \in DOMAIN stack[u] /\ stack[u][k].call
      /\ stack[u][k].inv = stack'[u][k].inv
      /\ \A l \in DOMAIN stack[u] : l < k /\ stack[u][l].expired
            => l \in DOMAIN stack'[u] /\ stack'[u][l].expired
  BY DEF CallsKept
<1>2. FrameHeld(u, k) /\ stack[u][k] \in Frame /\ AskedFrame(u, k)
  BY <1>1, StackShape DEF CallInv, FramesHeld, AskedCancels
<1>3. stack[u][k].inv \in Invs /\ phase[stack[u][k].inv] # "none"
  BY <1>1, <1>2 DEF FrameHeld, Frame
<1> QED
  BY <1>1, <1>2, <1>3 DEF AskedFrame, IsRoot

(* What is left of a stack after its last frame is taken off. *)
LEMMA PoppedKept ==
    ASSUME TypeOK, NEW t \in Tasks, stack[t] # <<>>,
           stack' = [stack EXCEPT ![t] = Below(t)]
    PROVE  CallsKept
<1>1. /\ DOMAIN stack'[t] = 1..(Len(stack[t]) - 1)
      /\ \A k \in 1..(Len(stack[t]) - 1) : stack'[t][k] = stack[t][k]
      /\ DOMAIN stack[t] = 1..Len(stack[t]) /\ Len(stack[t]) \in Nat
      /\ \A u \in Tasks : u # t => stack'[u] = stack[u]
  BY BelowShape, StackShape DEF TypeOK
<1> QED
  BY <1>1 DEF CallsKept

(* Nothing changes on the stacks. *)
LEMMA SameKept == ASSUME TypeOK, stack' = stack PROVE CallsKept
BY DEF CallsKept

(* The frame of a root that waits in stop() is the one of its call. *)
LEMMA StoppingKept ==
    ASSUME TypeOK, NEW t \in Tasks, InCall(t),
           stack' = [stack EXCEPT ![t] = Append(Below(t), CallFrame(Top(t).inv))]
    PROVE  CallsKept
<1> DEFINE n == Len(stack[t])
           i == Top(t).inv
<1>1. /\ Below(t) \in Seq(Frame) /\ Len(Below(t)) = n - 1
      /\ \A k \in 1..(n - 1) : Below(t)[k] = stack[t][k]
      /\ DOMAIN stack[t] = 1..n /\ n \in Nat /\ n > 0
  BY BelowShape, StackShape DEF InCall
<1>2. /\ i \in Invs \cup {None} /\ stack[t][n].call /\ stack[t][n].inv = i
  BY StackTypes DEF InCall, Top, Frame
<1>3. /\ stack'[t] = Append(Below(t), CallFrame(i))
      /\ \A u \in Tasks : u # t => stack'[u] = stack[u]
  BY DEF TypeOK
<1> HIDE DEF n, i
<1>4. CallFrame(i) \in Frame /\ CallFrame(i).inv = i
  BY <1>2, FrameTypes DEF CallFrame
<1>5. /\ DOMAIN stack'[t] = 1..n
      /\ \A k \in 1..(n - 1) : stack'[t][k] = stack[t][k]
      /\ stack'[t][n].inv = i
  BY <1>1, <1>3, <1>4, PushShape
<1>6. ASSUME NEW k \in 1..n
      PROVE  /\ stack'[t][k].call => stack[t][k].call /\ stack[t][k].inv = stack'[t][k].inv
             /\ \A l \in 1..n : l < k => stack'[t][l] = stack[t][l]
  BY <1>1, <1>2, <1>5
<1> QED
  BY <1>1, <1>3, <1>5, <1>6 DEF CallsKept

(* A timeout is opened above. *)
LEMMA TimeoutKept ==
    ASSUME TypeOK, NEW t \in Tasks, EnterTimeout(t)
    PROVE  CallsKept
<1> DEFINE n == Len(stack[t])
           f == TimeoutFrame(Active(t), Cancelling(t))
<1>1. f \in Frame /\ ~f.call
  BY StackTypes, CancellingCounts, FrameTypes DEF TimeoutFrame
<1>2. /\ stack[t] \in Seq(Frame) /\ DOMAIN stack[t] = 1..n /\ n \in Nat
      /\ stack'[t] = Append(stack[t], f)
      /\ \A u \in Tasks : u # t => stack'[u] = stack[u]
  BY StackShape DEF EnterTimeout, TypeOK
<1> HIDE DEF f, n
<1>3. /\ DOMAIN stack'[t] = 1..(n + 1)
      /\ \A k \in 1..n : stack'[t][k] = stack[t][k]
      /\ stack'[t][n + 1] = f
  BY <1>1, <1>2, PushShape, LenProperties
<1> QED
  BY <1>1, <1>2, <1>3 DEF CallsKept

(* task.cancelling() is positive only for a reason. *)
LEMMA CancellingReason ==
    ASSUME TypeOK, NEW t \in Tasks, Cancelling(t) > 0
    PROVE  requests[t] > 0 \/ \E k \in DOMAIN stack[t] : stack[t][k].expired
<1>1. requests[t] \in Nat
  BY DEF TypeOK
<1>2. SUFFICES ASSUME ~ \E k \in DOMAIN stack[t] : stack[t][k].expired PROVE requests[t] > 0
  OBVIOUS
<1>3. {k \in DOMAIN stack[t] : stack[t][k].expired} = {}
  BY <1>2
<1>4. Cancelling(t) = requests[t] + 0
  BY <1>3, FS_EmptySet DEF Cancelling
<1> QED
  BY <1>1, <1>4

(* A new call. *)
LEMMA AskedPushed ==
    ASSUME TypeOK, CallInv, AskedCancels, NEW t \in Tasks, NEW i \in Invs, NEW e \in Invs,
           Invoked(t, i, e),
           stack' = [stack EXCEPT ![t] = Append(stack[t], CallFrame(i))]
    PROVE  AskedCancels'
<1> DEFINE n == Len(stack[t])
           f == CallFrame(i)
<1>0. /\ phase[i] = "none" /\ requests' = requests
      /\ asked'[i] = IF Cancelling(t) > 0 THEN {t} ELSE {}
      /\ \A j \in Invs : j # i => owner'[j] = owner[j] /\ asked'[j] = asked[j]
  BY DEF Invoked
<1>1. f \in Frame /\ f.inv = i
  BY FrameTypes DEF CallFrame
<1>2. /\ stack[t] \in Seq(Frame) /\ DOMAIN stack[t] = 1..n /\ n \in Nat
      /\ stack'[t] = Append(stack[t], f)
      /\ \A u \in Tasks : u # t => stack'[u] = stack[u]
  BY StackShape DEF TypeOK
<1> HIDE DEF f, n
<1>3. /\ DOMAIN stack'[t] = 1..(n + 1)
      /\ \A k \in 1..n : stack'[t][k] = stack[t][k]
      /\ stack'[t][n + 1] = f
  BY <1>1, <1>2, PushShape, LenProperties
<1>4. ASSUME NEW u \in Tasks, NEW k \in DOMAIN stack[u] PROVE AskedFrame(u, k)'
  <2>1. /\ FrameHeld(u, k) /\ stack[u][k] \in Frame /\ AskedFrame(u, k)
    BY StackShape DEF CallInv, FramesHeld, AskedCancels
  <2>2. stack[u][k].call => stack[u][k].inv \in Invs /\ stack[u][k].inv # i
    BY <1>0, <2>1 DEF FrameHeld, Frame
  <2>3. \A l \in DOMAIN stack[u] : l \in DOMAIN stack'[u] /\ stack'[u][l] = stack[u][l]
    BY <1>2, <1>3
  <2> QED
    BY <1>0, <2>1, <2>2, <2>3 DEF AskedFrame, IsRoot
<1>5. ASSUME NEW k \in DOMAIN stack'[t], k = n + 1 PROVE AskedFrame(t, k)'
  <2>1. SUFFICES ASSUME t \in asked'[i]
                 PROVE  \/ requests[t] > 0
                        \/ \E l \in DOMAIN stack'[t] : l < k /\ stack'[t][l].expired
    BY <1>0, <1>1, <1>3, <1>5 DEF AskedFrame
  <2>2. requests[t] > 0 \/ \E l \in DOMAIN stack[t] : stack[t][l].expired
    BY <1>0, <2>1, CancellingReason
  <2> QED
    BY <1>2, <1>3, <1>5, <2>2
<1>6. \A k \in DOMAIN stack'[t] : k \in DOMAIN stack[t] \/ k = n + 1
  BY <1>2, <1>3
<1> QED
  BY <1>2, <1>4, <1>5, <1>6 DEF AskedCancels

(* Every step keeps AskedCancels. *)
LEMMA AskedStep ==
    ASSUME TypeOK, CallInv, AskedCancels, [Next]_vars
    PROVE  AskedCancels'
<1>1. ASSUME CallsKept, UNCHANGED <<requests, asked, owner>> PROVE AskedCancels'
  BY <1>1, AskedKept
<1>2. ASSUME NEW t \in Tasks, Unwind(t) PROVE AskedCancels'
  <2>1. UNCHANGED <<requests, asked, owner>>
    BY <1>2 DEF Unwind, LeaveCancelled, LeaveFailed, LeaveTimeout, Finish
  <2>2. CallsKept
    <3>1. \/ stack' = stack
          \/ stack[t] # <<>> /\ stack' = [stack EXCEPT ![t] = Below(t)]
          \/ /\ InCall(t)
             /\ stack' = [stack EXCEPT ![t] = Append(Below(t), CallFrame(Top(t).inv))]
      BY <1>2 DEF Unwind, LeaveCancelled, LeaveFailed, LeaveTimeout, Finish, RequestStop,
                  Leave, InCall, InTimeout
    <3> QED
      BY <3>1, SameKept, PoppedKept, StoppingKept
  <2> QED
    BY <1>1, <2>1, <2>2
<1>3. ASSUME NEW t \in Tasks, NEW i \in Invs, NEW e \in Invs, NEW refused,
             Invoke(t, i, e, refused)
      PROVE  AskedCancels'
  <2>1. Invoked(t, i, e)
    BY <1>3, InvokeFacts
  <2>2. /\ requests' = requests
        /\ \A j \in Invs : phase[j] # "none" => asked'[j] = asked[j] /\ owner'[j] = owner[j]
    BY <2>1 DEF Invoked
  <2>3. \/ stack' = stack
        \/ stack' = [stack EXCEPT ![t] = Append(stack[t], CallFrame(i))]
    BY <1>3 DEF Invoke, CheckedOut, RequestStop, Leave, TypeOK
  <2> QED
    BY <2>1, <2>2, <2>3, SameKept, AskedKept, AskedPushed
<1>4. ASSUME NEW t \in Tasks, Return(t) PROVE AskedCancels'
  <2>1. InCall(t) /\ UNCHANGED <<requests, asked, owner>>
    BY <1>4 DEF Return
  <2>2. \/ stack[t] # <<>> /\ stack' = [stack EXCEPT ![t] = Below(t)]
        \/ stack' = [stack EXCEPT ![t] = Append(Below(t), CallFrame(Top(t).inv))]
    BY <1>4 DEF Return, CheckedOut, RequestStop, Leave, InCall
  <2> QED
    BY <1>1, <2>1, <2>2, PoppedKept, StoppingKept
<1>5. ASSUME NEW t \in Tasks, Body(t) PROVE AskedCancels'
  <2>1. CASE EnterTimeout(t)
    BY <1>1, <2>1, TimeoutKept DEF EnterTimeout
  <2>2. CASE \E i, e \in Invs, refused \in BOOLEAN : Invoke(t, i, e, refused)
    BY <1>3, <2>2
  <2>3. CASE \/ \E h \in Tasks : Spawn(t, h)
             \/ CallOp(t) \/ ReportProgress(t) \/ Wait(t) \/ Raise(t)
             \/ HandleError(t) \/ Swallow(t) \/ TouchClient(t)
    BY <1>1, <2>3, SameKept DEF Spawn, CallOp, ReportProgress, Wait, Raise, HandleError,
                                Swallow, TouchClient
  <2> QED
    BY <1>4, <1>5, <2>1, <2>2, <2>3 DEF Body
<1>6. ASSUME NEW t \in Tasks, Loop(t) PROVE AskedCancels'
  <2>1. CASE StopAnswered(t)
    <3>1. stack[t] # <<>> /\ stack' = [stack EXCEPT ![t] = Below(t)]
      BY <2>1 DEF StopAnswered, Leave, CallInv, StopsAtRoot, InCall
    <3> QED
      BY <1>1, <2>1, <3>1, PoppedKept DEF StopAnswered
  <2>2. CASE ~StopAnswered(t)
    BY <1>1, <1>6, <2>2, SameKept DEF Loop, Resume, BeginOp, OpReturns, OpRaises, KeepWaiting
  <2> QED
    BY <2>1, <2>2
<1>7. ASSUME NEW t \in Tasks, Cancel(t) PROVE AskedCancels'
  <2>1. /\ requests'[t] > 0
        /\ \A u \in Tasks : u # t => requests'[u] = requests[u]
        /\ \A u \in Tasks, e \in Invs : u # t => (u \in asked'[e] <=> u \in asked[e])
        /\ UNCHANGED <<stack, owner>>
    BY <1>7 DEF Cancel, TypeOK
  <2>2. ASSUME NEW u \in Tasks, NEW k \in DOMAIN stack[u], u # t PROVE AskedFrame(u, k)'
    <3>1. FrameHeld(u, k) /\ stack[u][k] \in Frame /\ AskedFrame(u, k)
      BY StackShape DEF CallInv, FramesHeld, AskedCancels
    <3> QED
      BY <2>1, <2>2, <3>1 DEF AskedFrame, FrameHeld, Frame, IsRoot
  <2>3. ASSUME NEW k \in DOMAIN stack[t] PROVE AskedFrame(t, k)'
    BY <2>1 DEF AskedFrame
  <2> QED
    BY <2>1, <2>2, <2>3 DEF AskedCancels
<1>8. ASSUME NEW t \in Tasks, Expire(t) PROVE AskedCancels'
  <2>1. PICK k \in DOMAIN stack[t] :
             /\ stack' = [stack EXCEPT ![t] = [@ EXCEPT ![k].expired = TRUE]]
             /\ asked' = [e \in Invs |-> IF e \in RootsAbove(t, k)
                                         THEN asked[e] \cup {t} ELSE asked[e]]
    BY <1>8 DEF Expire
  <2>2. UNCHANGED <<requests, owner>>
    BY <1>8 DEF Expire
  <2>3. /\ stack[t] \in Seq(Frame) /\ DOMAIN stack[t] = 1..Len(stack[t])
        /\ Len(stack[t]) \in Nat
    BY StackShape
  <2> DEFINE p == [stack[t] EXCEPT ![k].expired = TRUE]
  <2>4. /\ \A l \in DOMAIN stack[t] : /\ p[l].inv = stack[t][l].inv
                                      /\ p[l].call = stack[t][l].call
                                      /\ stack[t][l].expired => p[l].expired
        /\ p[k].expired
        /\ DOMAIN p = DOMAIN stack[t]
    BY <2>3, ExpireStack
  <2>5. stack'[t] = p /\ \A u \in Tasks : u # t => stack'[u] = stack[u]
    BY <2>1 DEF TypeOK
  <2> HIDE DEF p
  <2>6. ASSUME NEW u \in Tasks, NEW l \in DOMAIN stack[u] PROVE AskedFrame(u, l)'
    <3>1. FrameHeld(u, l) /\ stack[u][l] \in Frame /\ AskedFrame(u, l)
      BY StackShape DEF CallInv, FramesHeld, AskedCancels
    <3>2. stack[u][l].call => stack[u][l].inv \in Invs
      BY <3>1 DEF FrameHeld, Frame
    <3>3. CASE u # t
      BY <2>1, <2>2, <2>5, <3>1, <3>2, <3>3 DEF AskedFrame, IsRoot
    <3>4. CASE u = t
      <4>1. SUFFICES ASSUME stack[t][l].call, IsRoot(stack[t][l].inv),
                            t \in asked'[stack[t][l].inv]
                     PROVE  \/ requests[t] > 0
                            \/ \E m \in DOMAIN stack[t] : m < l /\ stack'[t][m].expired
        BY <2>2, <2>4, <2>5, <3>4 DEF AskedFrame, IsRoot
      <4>2. CASE stack[t][l].inv \in RootsAbove(t, k)
        <5>1. PICK m \in DOMAIN stack[t] :
                   m > k /\ stack[t][m].call /\ stack[t][m].inv = stack[t][l].inv
          BY <4>2 DEF RootsAbove
        <5>2. m = l
          BY <3>4, <4>1, <5>1 DEF CallInv, CalledOnce
        <5> QED
          BY <2>3, <2>4, <2>5, <5>1, <5>2
      <4>3. CASE stack[t][l].inv \notin RootsAbove(t, k)
        <5>1. t \in asked[stack[t][l].inv]
          BY <2>1, <3>2, <3>4, <4>1, <4>3
        <5>2. requests[t] > 0 \/ \E m \in DOMAIN stack[t] : m < l /\ stack[t][m].expired
          BY <3>1, <3>4, <4>1, <5>1 DEF AskedFrame
        <5> QED
          BY <2>4, <2>5, <5>2
      <4> QED
        BY <4>2, <4>3
    <3> QED
      BY <3>3, <3>4
  <2> QED
    BY <2>4, <2>5, <2>6 DEF AskedCancels
<1>9. CASE UNCHANGED vars \/ \E e \in Invs : StopReply(e)
  BY <1>1, <1>9, SameKept DEF vars, StopReply
<1> QED
  BY <1>2, <1>5, <1>6, <1>7, <1>8, <1>9 DEF Next

(* Who asked for an execution to end is settled once it has ended. *)
LEMMA AskedSettled ==
    ASSUME TypeOK, CallInv, Next, NEW e \in Invs, IsRoot(e), phase[e] \in Over
    PROVE  asked'[e] = asked[e]
<1>1. closed[e] /\ phase[e] # "started" /\ phase[e] # "none"
  BY DEF CallInv, EndsClosed, Over
<1>2. ASSUME NEW t \in Tasks, Cancel(t) PROVE asked'[e] = asked[e]
  BY <1>1, <1>2 DEF Cancel, WorksFor
<1>3. ASSUME NEW t \in Tasks, Expire(t) PROVE asked'[e] = asked[e]
  <2>1. \A k \in DOMAIN stack[t] : e \notin RootsAbove(t, k)
    BY <1>1, OpenStarted, StackShape
  <2> QED
    BY <1>3, <2>1 DEF Expire
<1>4. ASSUME NEW t \in Tasks, NEW i \in Invs, NEW r \in Invs, NEW refused,
             Invoke(t, i, r, refused)
      PROVE  asked'[e] = asked[e]
  BY <1>1, <1>4, InvokeFacts DEF Invoked
<1> QED
  BY <1>2, <1>3, <1>4 DEF Next, Unwind, LeaveCancelled, LeaveFailed, LeaveTimeout, Finish,
              Body, Spawn, Return, CallOp, ReportProgress, EnterTimeout, Wait, Raise,
              HandleError, Swallow, TouchClient, Loop, Resume, BeginOp, OpReturns,
              OpRaises, KeepWaiting, StopAnswered, StopReply

(* A task that was cancelled from outside while its root call was open is  *)
(* never told "completed": check() reads task.cancelling() last.           *)
THEOREM CancelledNeverSucceeds == Spec => []CancelNeverSuccess
<1>1. Init => CancelNeverSuccess /\ AskedCancels
  <2> SUFFICES ASSUME Init PROVE CancelNeverSuccess /\ AskedCancels
    OBVIOUS
  <2>1. \A t \in Tasks : DOMAIN stack[t] = {}
    BY EmptySeq DEF Init
  <2> QED
    BY <2>1 DEF Init, CancelNeverSuccess, AskedCancels
<1>2. ASSUME SkillInv, AskedCancels, CancelNeverSuccess, [Next]_vars
      PROVE  CancelNeverSuccess'
  <2>1. CASE UNCHANGED vars
    BY <1>2, <2>1 DEF vars, CancelNeverSuccess, IsRoot
  <2>2. ASSUME Next, NEW e \in Invs, IsRoot(e)', phase'[e] = "completed",
               runner'[e] \in asked'[e]
        PROVE  FALSE
    <3>1. TypeOK /\ CallInv
      BY <1>2 DEF SkillInv, LatchInv
    <3>2. IsRoot(e) /\ (phase[e] # "none" => runner'[e] = runner[e])
      BY <2>2, <3>1, OwnerStep DEF IsRoot
    <3>3. CASE phase[e] = "completed"
      BY <1>2, <2>2, <3>1, <3>2, <3>3, AskedSettled DEF CancelNeverSuccess, Over
    <3>4. CASE phase[e] # "completed"
      <4>1. PICK t \in Tasks : Succeeds(t, e)
        BY <2>2, <3>1, <3>4, PhaseStep DEF Answered
      <4>2. /\ InCall(t) /\ Top(t).inv = e /\ asked' = asked /\ ~(Cancelling(t) > 0)
            /\ phase[e] = "started" /\ runner[e] = t
        BY <3>1, <4>1, TopCall DEF Succeeds, CheckCancels
      <4>3. Len(stack[t]) \in DOMAIN stack[t]
        BY <3>1, <4>2, StackShape DEF InCall
      <4>4. AskedFrame(t, Len(stack[t]))
        BY <1>2, <4>3 DEF AskedCancels
      <4>5. requests[t] > 0 \/ \E l \in DOMAIN stack[t] : stack[t][l].expired
        BY <2>2, <3>2, <4>2, <4>4 DEF AskedFrame, InCall, Top
      <4> QED
        BY <3>1, <4>2, <4>5, CancellingCounts
    <3> QED
      BY <3>3, <3>4
  <2> QED
    BY <1>2, <2>1, <2>2 DEF CancelNeverSuccess
<1>3. SkillInv /\ AskedCancels /\ [Next]_vars => AskedCancels'
  BY AskedStep DEF SkillInv, LatchInv
<1> QED
  BY <1>1, <1>2, <1>3, SkillInvariant, PTL DEF Spec

-----------------------------------------------------------------------------
(* SkillExecution implements SkillLifecycle, for any tasks, invocations,   *)
(* bounds, habits and stop outcomes: whatever the tasks of the loop do,    *)
(* each execution by itself goes through the lifecycle.                    *)

(* The lifecycle's status and using, as SkillExecution's state has them. *)
AbsStatus == [e \in Invs |-> Status(e)]
AbsUsing == [e \in Invs |-> Using(e)]

(* What a step that is no step of the lifecycle leaves alone. *)
Quiet == UNCHANGED <<AbsStatus, cancelled, stop, AbsUsing>>

(* What is true in every state a step starts from. *)
Before == TypeOK /\ CallInv /\ GuardHeld /\ StopLatched

-----------------------------------------------------------------------------
(* Who uses the client changes only with the place of a task: a suspended  *)
(* operation keeps its guard, because its invocation keeps its owner.      *)
LEMMA SameUsers ==
    ASSUME Before,
           \A u \in Tasks : /\ at'[u] = "op" <=> at[u] = "op"
                            /\ at[u] = "op" => Active(u)' = Active(u),
           \A i \in Invs : phase[i] # "none" => owner'[i] = owner[i]
    PROVE  AbsUsing' = AbsUsing
<1>1. ASSUME NEW u \in Tasks, at[u] = "op" PROVE Guard(u)' = Guard(u)
  <2>1. Active(u) \in Invs /\ phase[Active(u)] # "none"
    BY <1>1, GuardKnown DEF Before, GuardHeld
  <2>2. Active(u)' = Active(u)
    BY <1>1
  <2> QED
    BY <2>1, <2>2 DEF Guard
<1>2. \A e \in Invs : Using(e)' = Using(e)
  BY <1>1 DEF Using
<1> QED
  BY <1>2 DEF AbsUsing

(* The same for a step of one task that neither begins nor ends one. *)
LEMMA SameUsersOf ==
    ASSUME Before, NEW t \in Tasks, NEW place, NEW frames,
           at' = [at EXCEPT ![t] = place], place # "op", at[t] # "op",
           stack' = [stack EXCEPT ![t] = frames] \/ stack' = stack,
           context' = context,
           \A i \in Invs : phase[i] # "none" => owner'[i] = owner[i]
    PROVE  AbsUsing' = AbsUsing
<1>1. \A u \in Tasks : /\ at'[u] = "op" <=> at[u] = "op"
                       /\ at[u] = "op" => Active(u)' = Active(u)
  BY DEF Before, TypeOK, Active, Top
<1> QED
  BY <1>1, SameUsers

(* A status is read off three fields, *)
LEMMA SameStatus ==
    ASSUME NEW e \in Invs, owner'[e] = owner[e], phase'[e] = phase[e],
           stop'[e] = "none" <=> stop[e] = "none"
    PROVE  Status(e)' = Status(e)
BY DEF Status, IsRoot

(* and stays while no execution's fields change. *)
LEMMA SameStatuses ==
    ASSUME UNCHANGED <<owner, phase, stop>>
    PROVE  AbsStatus' = AbsStatus
BY SameStatus DEF AbsStatus

(* A root whose call is open runs, or waits for the answer to its stop. *)
LEMMA OpenStatus ==
    ASSUME Before, NEW t \in Tasks, InCall(t), IsRoot(Top(t).inv)
    PROVE  Status(Top(t).inv) = IF at[t] = "stop" THEN "stopping" ELSE "running"
<1>1. phase[Top(t).inv] = "started" /\ Top(t).inv \in Invs
  BY TopCall DEF Before
<1>2. at[t] # "stop" => stop[Top(t).inv] = "none"
  BY TopCall DEF Before
<1>3. at[t] = "stop" => stop[Top(t).inv] # "none"
  BY DEF Before, CallInv, StopsAtRoot
<1> QED
  BY <1>1, <1>2, <1>3 DEF Status

-----------------------------------------------------------------------------
(* How a call that ends looks from the lifecycle. *)

(* A call is left: an execution ends, or nothing happens. *)
LEMMA LeaveMaps ==
    ASSUME Before, NEW t \in Tasks, InCall(t), at[t] # "op", NEW event \in Over,
           NEW i \in Invs, i = Top(t).inv, NEW root, NEW place, place # "op",
           Leave(t, i, root, Below(t), event, place),
           UNCHANGED <<context, owner>>
    PROVE  /\ AbsStatus' = IF IsRoot(i) THEN [AbsStatus EXCEPT ![i] = event] ELSE AbsStatus
           /\ AbsUsing' = AbsUsing
           /\ stop' = stop
<1>1. phase[i] = "started"
  BY TopCall DEF Before
<1>2. AbsUsing' = AbsUsing /\ stop' = stop
  BY SameUsersOf DEF Leave, Goto
<1>3. phase'[i] = event /\ \A j \in Invs : j # i => phase'[j] = phase[j]
  BY <1>1 DEF Leave, Before, TypeOK
<1>4. \A j \in Invs : j # i => Status(j)' = Status(j)
  BY <1>2, <1>3, SameStatus
<1>5. Status(i)' = IF IsRoot(i) THEN event ELSE Status(i)
  BY <1>1, <1>3 DEF Status, IsRoot, Over
<1> QED
  BY <1>2, <1>4, <1>5 DEF AbsStatus

(* A root asks for the stop: the execution begins to stop. *)
LEMMA StopMaps ==
    ASSUME Before, NEW t \in Tasks, InCall(t), at[t] # "op", at[t] # "stop",
           NEW i \in Invs, i = Top(t).inv, IsRoot(i), RequestStop(t, i, Below(t)),
           UNCHANGED <<context, owner>>
    PROVE  Lifecycle!RequestStop(i)
<1>1. phase[i] = "started" /\ Status(i) = "running"
  BY TopCall, OpenStatus DEF Before
<1>2. AbsUsing' = AbsUsing
  BY SameUsersOf DEF RequestStop, Goto
<1>3. /\ \A j \in Invs : phase'[j] = phase[j]
      /\ stop' = [stop EXCEPT ![i] = "pending"]
      /\ stop'[i] = "pending" /\ \A j \in Invs : j # i => stop'[j] = stop[j]
      /\ cancelled' = [cancelled EXCEPT ![i] = TRUE]
  BY <1>1 DEF RequestStop, Before, TypeOK
<1>4. \A j \in Invs : j # i => Status(j)' = Status(j)
  BY <1>3, SameStatus
<1>5. Status(i)' = "stopping"
  BY <1>1, <1>3 DEF Status, IsRoot
<1>6. AbsStatus' = [AbsStatus EXCEPT ![i] = "stopping"] /\ AbsStatus[i] = "running"
  BY <1>1, <1>4, <1>5 DEF AbsStatus
<1> QED
  BY <1>2, <1>3, <1>6 DEF Lifecycle!RequestStop, AbsStatus, AbsUsing

(* A check that cancels seals an execution that has begun. *)
LEMMA SealMaps ==
    ASSUME Before, NEW e \in Invs, IsRoot(e), phase[e] # "none",
           cancelled' = [cancelled EXCEPT ![e] = TRUE],
           UNCHANGED <<AbsStatus, stop, AbsUsing>>
    PROVE  Lifecycle!Seal(e)
<1>1. AbsStatus[e] # "idle"
  BY DEF AbsStatus, Status, Before, TypeOK, Phases
<1> QED
  BY <1>1 DEF Lifecycle!Seal, AbsStatus, AbsUsing

-----------------------------------------------------------------------------
(* Every step is a lifecycle step of one execution, or none. *)

Mapped == Lifecycle!Next \/ Quiet

(* _Execution.check in a task that holds a guard. *)
LEMMA CheckMaps ==
    ASSUME Before, NEW t \in Tasks, at[t] # "op", Active(t) # None,
           NEW place, place # "op", Check(t, Guard(t), place),
           UNCHANGED <<stack, context, owner, phase, stop>>
    PROVE  Mapped
<1> DEFINE g == Guard(t)
<1>1. g \in Invs /\ IsRoot(g) /\ phase[g] # "none"
  BY GuardKnown DEF Before
<1>2. AbsUsing' = AbsUsing
  BY SameUsersOf DEF Check, Goto
<1>3. AbsStatus' = AbsStatus
  BY SameStatuses
<1>4. cancelled' = [cancelled EXCEPT ![g] = CheckCancels(t, g)]
  BY DEF Check
<1>5. CheckCancels(t, g) = TRUE \/ (CheckCancels(t, g) = FALSE /\ cancelled[g] = FALSE)
  BY <1>1 DEF CheckCancels, Before, TypeOK
<1> HIDE DEF g
<1>6. CASE CheckCancels(t, g) = TRUE
  BY <1>1, <1>2, <1>3, <1>4, <1>6, SealMaps DEF Mapped, Lifecycle!Next
<1>7. CASE CheckCancels(t, g) = FALSE /\ cancelled[g] = FALSE
  <2>1. cancelled' = cancelled
    BY <1>1, <1>4, <1>7 DEF Before, TypeOK
  <2> QED
    BY <1>2, <1>3, <2>1 DEF Mapped, Quiet
<1> QED
  BY <1>5, <1>6, <1>7

(* An exception unwinds. *)
LEMMA UnwindMaps ==
    ASSUME Before, NEW t \in Tasks, Unwind(t)
    PROVE  Mapped
<1>1. CASE LeaveCancelled(t)
  <2>1. PICK i \in Invs : i = Top(t).inv
    BY <1>1, TopCall DEF LeaveCancelled, Before
  <2>2. CASE IsRoot(i)
    BY <1>1, <2>1, <2>2, StopMaps DEF LeaveCancelled, Mapped, Lifecycle!Next
  <2>3. CASE ~IsRoot(i)
    <3>1. /\ Leave(t, i, FALSE, Below(t), "cancelled", "CancelledError")
          /\ UNCHANGED cancelled
      BY <1>1, <2>1, <2>3 DEF LeaveCancelled
    <3>2. UNCHANGED <<AbsStatus, AbsUsing, stop>>
      BY <1>1, <2>1, <2>3, <3>1, LeaveMaps DEF LeaveCancelled, Over
    <3> QED
      BY <3>1, <3>2 DEF Mapped, Quiet
  <2> QED
    BY <2>2, <2>3
<1>2. CASE LeaveFailed(t)
  <2>1. PICK i \in Invs : i = Top(t).inv
    BY <1>2, TopCall DEF LeaveFailed, Before
  <2>2. /\ InCall(t) /\ at[t] = "Error"
        /\ Leave(t, i, IsRoot(i), Below(t), "failed", "Error")
        /\ UNCHANGED <<context, owner, cancelled>>
    BY <1>2, <2>1 DEF LeaveFailed
  <2>3. /\ AbsStatus' = IF IsRoot(i) THEN [AbsStatus EXCEPT ![i] = "failed"] ELSE AbsStatus
        /\ AbsUsing' = AbsUsing
        /\ stop' = stop
    BY <2>1, <2>2, LeaveMaps DEF Over
  <2>4. IsRoot(i) => AbsStatus[i] = "running"
    BY <2>1, <2>2, OpenStatus DEF AbsStatus
  <2>5. CASE IsRoot(i)
    <3>1. Lifecycle!End(i)
      BY <2>2, <2>3, <2>4, <2>5 DEF Lifecycle!End, AbsStatus, AbsUsing
    <3> QED
      BY <3>1 DEF Mapped, Lifecycle!Next
  <2>6. CASE ~IsRoot(i)
    BY <2>2, <2>3, <2>6 DEF Mapped, Quiet
  <2> QED
    BY <2>5, <2>6
<1>3. CASE LeaveTimeout(t) \/ Finish(t)
  <2>1. /\ UNCHANGED <<context, owner, phase, stop, cancelled>> /\ at[t] # "op"
        /\ \E place \in Places : place # "op" /\ at' = [at EXCEPT ![t] = place]
        /\ stack' = [stack EXCEPT ![t] = Below(t)] \/ stack' = stack
    BY <1>3 DEF LeaveTimeout, Finish, Goto, Running, Places
  <2>2. AbsUsing' = AbsUsing
    BY <2>1, SameUsersOf
  <2> QED
    BY <2>1, <2>2, SameStatuses DEF Mapped, Quiet
<1> QED
  BY <1>1, <1>2, <1>3 DEF Unwind

(* A new root begins an execution, a nested call none. *)
LEMMA InvokeMaps ==
    ASSUME Before, NEW t \in Tasks, NEW i \in Invs, NEW e \in Invs, NEW refused,
           Invoke(t, i, e, refused)
    PROVE  Mapped
<1>1. Invoked(t, i, e)
  BY InvokeFacts DEF Before
<1>2. /\ at[t] = "body" /\ phase[i] = "none" /\ owner'[i] = e /\ stop[i] = "none"
      /\ ~cancelled[i] /\ context' = context
      /\ \A j \in Invs : j # i => owner'[j] = owner[j]
      /\ e # i => phase[e] # "none" /\ owner[e] = e
  BY <1>1 DEF Invoked
<1>3. AbsUsing' = AbsUsing
  <2>1. \E place \in Places : \E frames :
            /\ place # "op"
            /\ at' = [at EXCEPT ![t] = place]
            /\ \/ stack' = [stack EXCEPT ![t] = frames]
               \/ stack' = stack
    <3>1. at = [at EXCEPT ![t] = "body"]
      BY <1>2 DEF Before, TypeOK
    <3> QED
      BY <3>1 DEF Invoke, CheckedOut, RequestStop, Leave, Goto, Places, Running
  <2> QED
    BY <1>2, <2>1, SameUsersOf
<1>4. \A j \in Invs : j # i => phase'[j] = phase[j] /\ stop'[j] = stop[j]
  BY DEF Invoke, CheckedOut, RequestStop, Leave, Before, TypeOK
<1>5. \A j \in Invs : j # i => Status(j)' = Status(j)
  BY <1>2, <1>4, SameStatus
<1>6. AbsStatus[i] = "idle"
  BY <1>2 DEF AbsStatus, Status
<1>7. CASE e = i /\ CheckCancels(t, e)
  <2>1. RequestStop(t, i, stack[t])
    BY <1>7 DEF Invoke, CheckedOut
  <2>2. /\ phase'[i] = "started"
        /\ stop' = [stop EXCEPT ![i] = "pending"] /\ stop'[i] = "pending"
        /\ cancelled' = [cancelled EXCEPT ![i] = TRUE]
    BY <2>1 DEF RequestStop, Before, TypeOK
  <2>3. AbsStatus' = [AbsStatus EXCEPT ![i] = "stopping"]
    <3>1. Status(i)' = "stopping"
      BY <1>2, <1>7, <2>2 DEF Status, IsRoot
    <3> QED
      BY <1>5, <3>1 DEF AbsStatus
  <2>4. Lifecycle!Start(i)
    BY <1>3, <1>6, <2>2, <2>3 DEF Lifecycle!Start, AbsStatus, AbsUsing
  <2> QED
    BY <2>4 DEF Mapped, Lifecycle!Next
<1>8. CASE e = i /\ ~CheckCancels(t, e)
  <2>1. /\ \E s \in {"started", "failed"} : phase'[i] = s
        /\ UNCHANGED <<stop, cancelled>>
    BY <1>8 DEF Invoke, Leave, Before, TypeOK
  <2>2. \E s \in {"running", "failed"} : AbsStatus' = [AbsStatus EXCEPT ![i] = s]
    <3>1. Status(i)' \in {"running", "failed"}
      BY <1>2, <1>8, <2>1 DEF Status, IsRoot
    <3>2. AbsStatus' = [AbsStatus EXCEPT ![i] = Status(i)']
      BY <1>5 DEF AbsStatus
    <3> QED
      BY <3>1, <3>2
  <2>3. Lifecycle!Start(i)
    BY <1>3, <1>6, <2>1, <2>2 DEF Lifecycle!Start, AbsStatus, AbsUsing
  <2> QED
    BY <2>3 DEF Mapped, Lifecycle!Next
<1>9. CASE e # i
  <2>1. AbsStatus' = AbsStatus
    BY <1>2, <1>5, <1>6, <1>9 DEF AbsStatus, Status, IsRoot
  <2>2. /\ stop' = stop
        /\ cancelled' = [cancelled EXCEPT ![e] = TRUE] \/ cancelled' = cancelled
    BY <1>9 DEF Invoke, CheckedOut, Leave
  <2>3. IsRoot(e) /\ phase[e] # "none"
    BY <1>2, <1>9 DEF IsRoot
  <2> QED
    BY <1>3, <2>1, <2>2, <2>3, SealMaps DEF Mapped, Quiet, Lifecycle!Next
<1> QED
  BY <1>7, <1>8, <1>9

(* A function returns. *)
LEMMA ReturnMaps ==
    ASSUME Before, NEW t \in Tasks, Return(t)
    PROVE  Mapped
<1>1. PICK i \in Invs : i = Top(t).inv
  BY TopCall DEF Return, Before
<1>2. /\ InCall(t) /\ at[t] = "body" /\ UNCHANGED <<context, owner>>
      /\ owner[i] \in Invs /\ IsRoot(owner[i]) /\ phase[owner[i]] # "none"
  BY <1>1, TopCall DEF Return, Before
<1>3. CASE CheckCancels(t, owner[i])
  <2>1. CheckedOut(t, i, owner[i], Below(t))
    BY <1>1, <1>3 DEF Return
  <2>2. CASE IsRoot(i)
    BY <1>1, <1>2, <2>1, <2>2, StopMaps DEF CheckedOut, IsRoot, Mapped, Lifecycle!Next
  <2>3. CASE ~IsRoot(i)
    <3>1. /\ Leave(t, i, FALSE, Below(t), "cancelled", "CancelledError")
          /\ cancelled' = [cancelled EXCEPT ![owner[i]] = TRUE]
      BY <2>1, <2>3 DEF CheckedOut, IsRoot
    <3>2. UNCHANGED <<AbsStatus, AbsUsing, stop>>
      BY <1>1, <1>2, <2>3, <3>1, LeaveMaps DEF Over
    <3> QED
      BY <1>2, <3>1, <3>2, SealMaps DEF Mapped, Lifecycle!Next
  <2> QED
    BY <2>2, <2>3
<1>4. CASE ~CheckCancels(t, owner[i])
  <2>1. PICK event \in {"failed", "completed"}, place \in {"Error", "body"},
             root \in BOOLEAN :
             Leave(t, i, root, Below(t), event, place) /\ UNCHANGED cancelled
    BY <1>1, <1>4 DEF Return
  <2>2. /\ AbsStatus' = IF IsRoot(i) THEN [AbsStatus EXCEPT ![i] = event] ELSE AbsStatus
        /\ AbsUsing' = AbsUsing
        /\ stop' = stop
    <3>1. event \in Over /\ place # "op" /\ at[t] # "op"
      BY <1>2 DEF Over
    <3>2. Leave(t, i, root, Below(t), event, place)
      BY <2>1
    <3> QED
      BY <1>1, <1>2, <3>1, <3>2, LeaveMaps
  <2>3. CASE IsRoot(i)
    <3>1. AbsStatus[i] = "running" /\ ~cancelled[i]
      BY <1>1, <1>2, <1>4, <2>3, OpenStatus DEF AbsStatus, IsRoot, CheckCancels
    <3>2. Lifecycle!End(i)
      BY <2>1, <2>2, <2>3, <3>1 DEF Lifecycle!End, AbsStatus, AbsUsing
    <3> QED
      BY <3>2 DEF Mapped, Lifecycle!Next
  <2>4. CASE ~IsRoot(i)
    BY <2>1, <2>2, <2>4 DEF Mapped, Quiet
  <2> QED
    BY <2>3, <2>4
<1> QED
  BY <1>3, <1>4

(* What a running body does. *)
LEMMA BodyMaps ==
    ASSUME Before, NEW t \in Tasks, Body(t)
    PROVE  Mapped
<1>1. CASE CallOp(t) \/ ReportProgress(t) \/ TouchClient(t)
  <2>1. \E place \in {"sleep", "body", "CancelledError"} :
           /\ Active(t) # None /\ at[t] # "op" /\ Check(t, Guard(t), place)
           /\ UNCHANGED <<stack, context, owner, phase, stop>>
    BY <1>1 DEF CallOp, ReportProgress, TouchClient
  <2> QED
    BY <2>1, CheckMaps
<1>2. CASE EnterTimeout(t)
  <2>1. /\ at' = [at EXCEPT ![t] = "body"] /\ at[t] # "op"
        /\ \E frames : stack' = [stack EXCEPT ![t] = frames]
        /\ UNCHANGED <<context, owner, phase, stop, cancelled>>
    BY <1>2 DEF EnterTimeout, Before, TypeOK
  <2>2. AbsUsing' = AbsUsing
    BY <2>1, SameUsersOf
  <2> QED
    BY <2>1, <2>2, SameStatuses DEF Mapped, Quiet
<1>3. CASE Wait(t) \/ Raise(t) \/ HandleError(t) \/ Swallow(t)
  <2>1. /\ \E place \in Places : place # "op" /\ at' = [at EXCEPT ![t] = place]
        /\ at[t] # "op"
        /\ UNCHANGED <<stack, context, owner, phase, stop, cancelled>>
    BY <1>3 DEF Wait, Raise, HandleError, Swallow, Goto, Places, Running
  <2>2. AbsUsing' = AbsUsing
    BY <2>1, SameUsersOf
  <2> QED
    BY <2>1, <2>2, SameStatuses DEF Mapped, Quiet
<1>4. ASSUME NEW h \in Tasks, Spawn(t, h) PROVE Mapped
  <2>1. /\ at[h] = "unborn" /\ at' = [at EXCEPT ![h] = "ready"]
        /\ \A u \in Tasks : u # h => context'[u] = context[u]
        /\ UNCHANGED <<stack, owner, phase, stop, cancelled>>
    BY <1>4 DEF Spawn, Before, TypeOK
  <2>2. \A u \in Tasks : /\ at'[u] = "op" <=> at[u] = "op"
                         /\ at[u] = "op" => Active(u)' = Active(u)
    BY <2>1 DEF Before, TypeOK, Active, Top
  <2>3. AbsUsing' = AbsUsing
    BY <2>1, <2>2, SameUsers
  <2> QED
    BY <2>1, <2>3, SameStatuses DEF Mapped, Quiet
<1> QED
  BY <1>1, <1>2, <1>3, <1>4, InvokeMaps, ReturnMaps DEF Body

(* An operation ends: in its task, and for the lifecycle. *)
LEMMA EndUseMaps ==
    ASSUME Before, NEW t \in Tasks, at[t] = "op",
           NEW place, place # "op", at' = [at EXCEPT ![t] = place],
           \/ cancelled' = cancelled
           \/ cancelled' = [cancelled EXCEPT ![Guard(t)] = TRUE],
           UNCHANGED <<stack, context, owner, phase, stop>>
    PROVE  Mapped
<1>1. PICK g \in Invs : g = Guard(t)
  BY GuardKnown DEF Before, GuardHeld
<1>2. AbsStatus' = AbsStatus
  BY SameStatuses
<1>3. \A u \in Tasks : Guard(u)' = Guard(u)
  BY DEF Guard, Active, Top
<1>4. /\ at'[t] # "op"
      /\ \A u \in Tasks : u # t => at'[u] = at[u]
  BY DEF Before, TypeOK
<1>5. /\ t \in Using(g) /\ Using(g)' = Using(g) \ {t}
      /\ \A e \in Invs : e # g => Using(e)' = Using(e)
  BY <1>1, <1>3, <1>4 DEF Using
<1>6. AbsUsing' = [AbsUsing EXCEPT ![g] = @ \ {t}] /\ t \in AbsUsing[g]
  BY <1>5 DEF AbsUsing
<1>7. Lifecycle!EndUse(g, t)
  BY <1>1, <1>2, <1>6 DEF Lifecycle!EndUse, AbsStatus, AbsUsing
<1> QED
  BY <1>7 DEF Mapped, Lifecycle!Next

(* An operation begins: the check behind the sleep saw an open guard and   *)
(* no cancellation, so the execution still runs.                           *)
LEMMA BeginUseMaps ==
    ASSUME Before, NEW t \in Tasks, at[t] = "sleep", at' = [at EXCEPT ![t] = "op"],
           ~CheckCancels(t, Guard(t)), ~closed[Guard(t)],
           UNCHANGED <<stack, context, owner, phase, stop, cancelled>>
    PROVE  Mapped
<1>1. PICK g \in Invs : g = Guard(t) /\ IsRoot(g) /\ phase[g] # "none"
  BY GuardKnown DEF Before, GuardHeld
<1>2. AbsStatus' = AbsStatus
  BY SameStatuses
<1>3. \A u \in Tasks : Guard(u)' = Guard(u)
  BY DEF Guard, Active, Top
<1>4. /\ at'[t] = "op"
      /\ \A u \in Tasks : u # t => at'[u] = at[u]
  BY DEF Before, TypeOK
<1>5. /\ Using(g)' = Using(g) \cup {t}
      /\ \A e \in Invs : e # g => Using(e)' = Using(e)
  BY <1>1, <1>3, <1>4 DEF Using
<1>6. AbsUsing' = [AbsUsing EXCEPT ![g] = @ \cup {t}]
  BY <1>5 DEF AbsUsing
<1>7. /\ ~cancelled[g] /\ stop[g] = "none"
      /\ phase[g] = "started"
  <2>1. ~cancelled[g] /\ stop[g] = "none"
    BY <1>1 DEF CheckCancels, Before, StopLatched
  <2>2. phase[g] \in Phases /\ phase[g] \notin Over
    BY <1>1 DEF Before, TypeOK, CallInv, EndsClosed
  <2> QED
    BY <1>1, <2>1, <2>2 DEF Phases, Over
<1>8. AbsStatus[g] = "running"
  BY <1>1, <1>7 DEF AbsStatus, Status
<1>9. Lifecycle!BeginUse(g, t)
  BY <1>2, <1>6, <1>7, <1>8 DEF Lifecycle!BeginUse, AbsStatus, AbsUsing
<1> QED
  BY <1>9 DEF Mapped, Lifecycle!Next

(* What the loop does with a suspended task. *)
LEMMA LoopMaps ==
    ASSUME Before, NEW t \in Tasks, Loop(t)
    PROVE  Mapped
<1>1. CASE Resume(t)
  <2>1. /\ \E place \in Places : place # "op" /\ at' = [at EXCEPT ![t] = place]
        /\ at[t] # "op"
        /\ UNCHANGED <<stack, context, owner, phase, stop, cancelled>>
    BY <1>1 DEF Resume, Goto, Places, Running
  <2>2. AbsUsing' = AbsUsing
    BY <2>1, SameUsersOf
  <2> QED
    BY <2>1, <2>2, SameStatuses DEF Mapped, Quiet
<1>2. CASE BeginOp(t)
  <2>1. /\ at[t] = "sleep" /\ Active(t) # None
        /\ UNCHANGED <<stack, context, owner, phase, stop, closed>>
    BY <1>2 DEF BeginOp, Before, GuardHeld
  <2>2. CASE thrown[t]
    <3>1. at' = [at EXCEPT ![t] = "CancelledError"] /\ UNCHANGED cancelled
      BY <1>2, <2>2 DEF BeginOp, Goto
    <3>2. AbsUsing' = AbsUsing
      BY <2>1, <3>1, SameUsersOf
    <3> QED
      BY <2>1, <3>1, <3>2, SameStatuses DEF Mapped, Quiet
  <2>3. CASE ~thrown[t] /\ ~CheckCancels(t, Guard(t)) /\ ~closed[Guard(t)]
    <3>1. /\ at' = [at EXCEPT ![t] = "op"]
          /\ cancelled' = [cancelled EXCEPT ![Guard(t)] = CheckCancels(t, Guard(t))]
      BY <1>2, <2>3 DEF BeginOp, Check, Goto
    <3>2. CheckCancels(t, Guard(t)) = cancelled[Guard(t)] /\ Guard(t) \in Invs
      BY <2>1, <2>3, GuardKnown DEF CheckCancels, Before, TypeOK
    <3>3. cancelled' = cancelled
      BY <3>1, <3>2 DEF Before, TypeOK
    <3> QED
      BY <2>1, <2>3, <3>1, <3>3, BeginUseMaps
  <2>4. CASE ~thrown[t] /\ (CheckCancels(t, Guard(t)) \/ closed[Guard(t)])
    <3>1. Check(t, Guard(t), "body") \/ Check(t, Guard(t), "Error")
      BY <1>2, <2>4 DEF BeginOp, Check, Goto
    <3> QED
      BY <2>1, <3>1, CheckMaps
  <2> QED
    BY <2>2, <2>3, <2>4
<1>3. CASE OpReturns(t)
  <2>1. /\ at[t] = "op" /\ Active(t) # None /\ Guard(t) \in Invs
        /\ cancelled' = [cancelled EXCEPT ![Guard(t)] = CheckCancels(t, Guard(t))]
        /\ UNCHANGED <<stack, context, owner, phase, stop>>
    BY <1>3, GuardKnown DEF OpReturns, Check, Before, GuardHeld
  <2>2. \E place \in Places : place # "op" /\ at' = [at EXCEPT ![t] = place]
    BY <1>3 DEF OpReturns, Check, Goto, Places, Running
  <2>3. \/ CheckCancels(t, Guard(t)) = TRUE
        \/ CheckCancels(t, Guard(t)) = cancelled[Guard(t)]
    BY <2>1 DEF CheckCancels, Before, TypeOK
  <2>4. \/ cancelled' = cancelled
        \/ cancelled' = [cancelled EXCEPT ![Guard(t)] = TRUE]
    BY <2>1, <2>3 DEF Before, TypeOK
  <2> QED
    BY <2>1, <2>2, <2>4, EndUseMaps
<1>4. CASE OpRaises(t)
  <2>1. /\ \E place \in Places : place # "op" /\ at' = [at EXCEPT ![t] = place]
        /\ at[t] = "op"
        /\ UNCHANGED <<stack, context, owner, phase, stop, cancelled>>
    BY <1>4 DEF OpRaises, Goto, Places, Running
  <2> QED
    BY <2>1, EndUseMaps
<1>5. CASE KeepWaiting(t)
  <2>1. UNCHANGED <<at, stack, context, owner, phase, stop, cancelled>>
    BY <1>5 DEF KeepWaiting
  <2>2. AbsUsing' = AbsUsing
    BY <2>1, SameUsers DEF Active, Top
  <2> QED
    BY <2>1, <2>2, SameStatuses DEF Mapped, Quiet
<1>6. CASE StopAnswered(t)
  <2>1. at[t] = "stop" /\ InCall(t) /\ UNCHANGED <<context, owner, cancelled>>
    BY <1>6 DEF StopAnswered, Before, CallInv, StopsAtRoot
  <2>2. PICK i \in Invs : /\ i = Top(t).inv /\ IsRoot(i) /\ Active(t) = i
                          /\ stop[i] # "none" /\ stop[i] # "pending"
    BY <1>6, <2>1, TopCall DEF StopAnswered, Before, CallInv, StopsAtRoot
  <2>3. PICK event \in {"torn", "cancelled"} :
             /\ event = IF stop[i] = "torn" THEN "torn" ELSE "cancelled"
             /\ Leave(t, i, TRUE, Below(t), event, "CancelledError")
    BY <1>6, <2>2 DEF StopAnswered
  <2>4. /\ AbsStatus' = [AbsStatus EXCEPT ![i] = event]
        /\ AbsUsing' = AbsUsing
        /\ stop' = stop
    <3>1. event \in Over
      BY DEF Over
    <3> QED
      BY <2>1, <2>2, <2>3, <3>1, LeaveMaps
  <2>5. AbsStatus[i] = "stopping" /\ stop[i] \in Lifecycle!Answers
    BY <2>1, <2>2, OpenStatus DEF AbsStatus, Lifecycle!Answers, Before, TypeOK, Outcomes
  <2>6. Lifecycle!Report(i)
    BY <2>1, <2>3, <2>4, <2>5 DEF Lifecycle!Report, AbsStatus, AbsUsing
  <2> QED
    BY <2>6 DEF Mapped, Lifecycle!Next
<1> QED
  BY <1>1, <1>2, <1>3, <1>4, <1>5, <1>6 DEF Loop

(* What comes from outside the tasks. *)
LEMMA WorldMaps ==
    ASSUME Before
    PROVE  /\ \A t \in Tasks : Cancel(t) \/ Expire(t) => Mapped
           /\ \A e \in Invs : StopReply(e) => Mapped
<1>1. ASSUME NEW t \in Tasks, Cancel(t) PROVE Mapped
  <2>1. UNCHANGED <<at, stack, context, owner, phase, stop, cancelled>>
    BY <1>1 DEF Cancel
  <2>2. AbsUsing' = AbsUsing
    BY <2>1, SameUsers DEF Active, Top
  <2> QED
    BY <2>1, <2>2, SameStatuses DEF Mapped, Quiet
<1>2. ASSUME NEW t \in Tasks, Expire(t) PROVE Mapped
  <2>1. UNCHANGED <<at, context, owner, phase, stop, cancelled>>
    BY <1>2 DEF Expire
  <2>2. PICK k \in DOMAIN stack[t] :
             stack' = [stack EXCEPT ![t] = [@ EXCEPT ![k].expired = TRUE]]
    BY <1>2 DEF Expire
  <2>3. /\ Len(stack[t]) \in DOMAIN stack[t] /\ stack[t] \in Seq(Frame) /\ stack[t] # <<>>
        /\ DOMAIN stack[t] = 1..Len(stack[t])
    BY StackShape DEF Before
  <2> DEFINE p == [stack[t] EXCEPT ![k].expired = TRUE]
  <2>4. /\ p \in Seq(Frame) /\ Len(p) = Len(stack[t])
        /\ \A l \in 1..Len(stack[t]) : p[l].inv = stack[t][l].inv
    BY <2>3, ExpireStack
  <2>5. stack'[t] = p /\ \A u \in Tasks : u # t => stack'[u] = stack[u]
    BY <2>2 DEF Before, TypeOK
  <2> HIDE DEF p
  <2>6. p # <<>>
    BY <2>3, <2>4, EmptySeq
  <2>7. \A u \in Tasks : Active(u)' = Active(u)
    BY <2>1, <2>3, <2>4, <2>5, <2>6 DEF Active, Top
  <2>8. AbsUsing' = AbsUsing
    BY <2>1, <2>7, SameUsers
  <2> QED
    BY <2>1, <2>8, SameStatuses DEF Mapped, Quiet
<1>3. ASSUME NEW e \in Invs, StopReply(e) PROVE Mapped
  <2>1. PICK outcome \in StopOutcomes : stop' = [stop EXCEPT ![e] = outcome]
    BY <1>3 DEF StopReply
  <2>2. /\ outcome \in Lifecycle!Answers /\ stop[e] = "pending"
        /\ UNCHANGED <<at, stack, context, owner, phase, cancelled>>
    BY <1>3, <2>1, SkillAssumption DEF StopReply, Outcomes, Lifecycle!Answers
  <2>3. \A j \in Invs : stop'[j] = "none" <=> stop[j] = "none"
    BY <2>1, <2>2 DEF Before, TypeOK, Lifecycle!Answers
  <2>4. AbsStatus' = AbsStatus
    BY <2>2, <2>3, SameStatus DEF AbsStatus
  <2>5. AbsUsing' = AbsUsing
    BY <2>2, SameUsers DEF Active, Top
  <2>6. Lifecycle!Answer(e)
    BY <2>1, <2>2, <2>4, <2>5 DEF Lifecycle!Answer, AbsStatus, AbsUsing
  <2> QED
    BY <2>6 DEF Mapped, Lifecycle!Next
<1> QED
  BY <1>1, <1>2, <1>3

-----------------------------------------------------------------------------
(* Every behaviour of the tasks is, seen from the executions, one of the   *)
(* lifecycle: operations begin only while the execution runs and no        *)
(* cancellation was seen, it succeeds only unsealed, and its stop is asked *)
(* for once and reported with its answer.                                  *)
THEOREM LifecycleImplemented == Spec => ImplementsLifecycle
<1>1. Init => Lifecycle!Init
  BY DEF Init, Lifecycle!Init, Status, Using
<1>2. ASSUME SkillInv, [Next]_vars PROVE [Lifecycle!Next]_(Lifecycle!lifecycleVars)
  <2>1. Before
    BY <1>2 DEF Before, SkillInv, LatchInv
  <2>2. Mapped
    <3>1. CASE UNCHANGED vars
      <4>1. UNCHANGED <<at, stack, context, owner, phase, stop, cancelled>>
        BY <3>1 DEF vars
      <4>2. AbsUsing' = AbsUsing
        BY <2>1, <4>1, SameUsers DEF Active, Top
      <4> QED
        BY <4>1, <4>2, SameStatuses DEF Mapped, Quiet
    <3>2. CASE Next
      BY <2>1, <3>2, UnwindMaps, BodyMaps, LoopMaps, WorldMaps DEF Next
    <3> QED
      BY <1>2, <3>1, <3>2
  <2> QED
    BY <2>2 DEF Mapped, Quiet, Lifecycle!lifecycleVars, AbsStatus, AbsUsing
<1> QED
  BY <1>1, <1>2, SkillInvariant, PTL DEF Spec, ImplementsLifecycle, Lifecycle!Spec

-----------------------------------------------------------------------------
(* StopOnlyWhenAsked: the arm is not asked to stop on a whim, for any      *)
(* number of tasks, calls, timeouts and cancellations.                     *)
(*                                                                         *)
(* Bodies must let a CancelledError unwind (no "swallow", "touch" or       *)
(* "absorb"), and a body that cancels its own task ("self") must be the    *)
(* only task: otherwise a helper of a nested execution can latch that      *)
(* execution's cancellation, and the CancelledError that leaves the nested *)
(* execution stops the one around it, for which the helper does not work.  *)

Careful ==
    /\ BodyHabits \subseteq {"self"}
    /\ "self" \in BodyHabits => Tasks = {Main}

Unwinding == {"CancelledError", "stop"}

RootAt(t, k) == stack[t][k].call /\ IsRoot(stack[t][k].inv)
Told(t, k) == asked[stack[t][k].inv] # {}

(* The guard a frame holds is of a root call open in the task at or below  *)
(* it, or inherited, and then no root call is open there at all.           *)
GuardOpen(t, k) ==
    LET f == stack[t][k]
    IN  \/ /\ f.inv # None
           /\ \E l \in DOMAIN stack[t] : /\ l <= k /\ stack[t][l].call
                                         /\ stack[t][l].inv = owner[f.inv]
        \/ \A l \in DOMAIN stack[t] : l <= k => ~RootAt(t, l)

(* A root was told (asked) once its task was cancelled from outside or a   *)
(* timeout below it fired; a timeout counts from the requests at its start.*)
FrameFacts(t, k) ==
    LET f == stack[t][k]
    IN  /\ f.call => ~f.expired
        /\ ~f.call => /\ f.base <= requests[t]
                      /\ "self" \notin BodyHabits => f.base = 0
        /\ RootAt(t, k) /\ requests[t] > 0 => Told(t, k)
        /\ RootAt(t, k) => \A l \in DOMAIN stack[t] :
                              l < k /\ stack[t][l].expired => Told(t, k)
        /\ GuardOpen(t, k)

StackFacts(t) == \A k \in DOMAIN stack[t] : FrameFacts(t, k)

(* While a CancelledError unwinds or is due, each open root was told or    *)
(* will not see it: a timeout above it that fired takes it away.           *)
Excused(t, k) == \E l \in DOMAIN stack[t] : l > k /\ stack[t][l].expired
AllTold(t) == \A k \in DOMAIN stack[t] : RootAt(t, k) => Told(t, k) \/ Excused(t, k)

Expired(t) == \E k \in DOMAIN stack[t] : stack[t][k].expired

PlaceFacts(t) ==
    /\ Expired(t) => at[t] \in Unwinding \/ (at[t] \notin Running /\ thrown[t])
    /\ at[t] \in Unwinding \/ thrown[t] => AllTold(t)
    /\ at[t] \in Running /\ thrown[t] => requests[t] > 0
    /\ "self" \notin BodyHabits /\ requests[t] > 0 =>
          \/ at[t] \in Unwinding \cup {"done"}
          \/ at[t] \notin Running /\ thrown[t]

(* A latched execution whose root call is open in a task was latched       *)
(* because that task was cancelled, or by the stop it waits for.           *)
LatchFacts(t) ==
    \A e \in RootsAbove(t, 0) : cancelled[e] =>
        requests[t] > 0 \/ (at[t] = "stop" /\ Active(t) = e)

TaskFacts == \A t \in Tasks : StackFacts(t) /\ PlaceFacts(t) /\ LatchFacts(t)

Base == TypeOK /\ CallInv /\ GuardHeld /\ Careful /\ TaskFacts

-----------------------------------------------------------------------------
(* What holds of every step: histories grow, owners stay. *)

Grows == \A e \in Invs : phase[e] # "none" =>
            /\ owner'[e] = owner[e]
            /\ asked[e] # {} => asked'[e] # {}

(* Every step is one. *)
LEMMA GrowsStep ==
    ASSUME TypeOK, CallInv, [Next]_vars
    PROVE  Grows
<1>1. CASE UNCHANGED vars
  BY <1>1 DEF vars, Grows
<1>2. CASE Next
  <2>1. \A e \in Invs : phase[e] # "none" => owner'[e] = owner[e]
    BY <1>2, OwnerStep
  <2>2. ASSUME NEW e \in Invs, phase[e] # "none", asked[e] # {} PROVE asked'[e] # {}
    <3>1. ASSUME NEW t \in Tasks, Cancel(t) PROVE asked'[e] # {}
      BY <2>2, <3>1 DEF Cancel
    <3>2. ASSUME NEW t \in Tasks, Expire(t) PROVE asked'[e] # {}
      BY <2>2, <3>2 DEF Expire
    <3>3. ASSUME NEW t \in Tasks, NEW i \in Invs, NEW r \in Invs, NEW refused,
                 Invoke(t, i, r, refused)
          PROVE  asked'[e] # {}
      BY <2>2, <3>3, InvokeFacts DEF Invoked
    <3> QED
      BY <1>2, <2>2, <3>1, <3>2, <3>3
         DEF Next, Unwind, LeaveCancelled, LeaveFailed, LeaveTimeout, Finish,
             Body, Spawn, Return, CallOp, ReportProgress, EnterTimeout, Wait, Raise,
             HandleError, Swallow, TouchClient, Loop, Resume, BeginOp, OpReturns,
             OpRaises, KeepWaiting, StopAnswered, StopReply
  <2> QED
    BY <2>1, <2>2 DEF Grows
<1> QED
  BY <1>1, <1>2

(* Frame k of a task, and those below it, are as they were. *)
SameFrame(f, g) ==
    /\ g.inv = f.inv /\ g.call = f.call
    /\ g.expired => f.expired
    /\ ~f.call => g.base = f.base

PrefixKept(t, k) ==
    /\ k \in DOMAIN stack[t]
    /\ \A l \in DOMAIN stack[t] : l <= k => l \in DOMAIN stack'[t]
    /\ \A l \in DOMAIN stack'[t] : l <= k =>
          l \in DOMAIN stack[t] /\ SameFrame(stack[t][l], stack'[t][l])

(* A frame is typed, and names an invocation that has begun. *)
LEMMA KnownFrame ==
    ASSUME TypeOK, CallInv, NEW t \in Tasks, NEW k \in DOMAIN stack[t]
    PROVE  /\ stack[t][k] \in Frame
           /\ stack[t][k].inv # None => phase[stack[t][k].inv] # "none"
           /\ stack[t][k].call => stack[t][k].inv # None
           /\ stack[t][k].inv # None => stack[t][k].inv \in Invs
BY StackShape DEF CallInv, FramesHeld, FrameHeld, Frame

(* Its facts are about it and the frames below it. *)
LEMMA FrameKept ==
    ASSUME TypeOK, TypeOK', CallInv, Grows, NEW t \in Tasks, NEW k \in DOMAIN stack'[t],
           FrameFacts(t, k), PrefixKept(t, k), requests'[t] = requests[t]
    PROVE  FrameFacts(t, k)'
<1>1. /\ k \in DOMAIN stack[t]
      /\ \A l \in DOMAIN stack[t] : l <= k => l \in DOMAIN stack'[t]
      /\ \A l \in DOMAIN stack'[t] : l <= k =>
            /\ l \in DOMAIN stack[t]
            /\ stack'[t][l].inv = stack[t][l].inv /\ stack'[t][l].call = stack[t][l].call
            /\ stack'[t][l].expired => stack[t][l].expired
            /\ ~stack[t][l].call => stack'[t][l].base = stack[t][l].base
  BY DEF PrefixKept, SameFrame
<1>2. k <= k
  BY <1>1, StackShape
<1>3. ASSUME NEW l \in DOMAIN stack'[t], l <= k
      PROVE  /\ RootAt(t, l)' => RootAt(t, l)
             /\ stack'[t][l].call /\ Told(t, l) => Told(t, l)'
  BY <1>1, <1>3, KnownFrame DEF Grows, RootAt, Told, IsRoot
<1>4. GuardOpen(t, k)'
  <2>1. CASE \A l \in DOMAIN stack[t] : l <= k => ~RootAt(t, l)
    BY <1>1, <1>3, <2>1 DEF GuardOpen
  <2>2. CASE /\ stack[t][k].inv # None
             /\ \E l \in DOMAIN stack[t] : /\ l <= k /\ stack[t][l].call
                                           /\ stack[t][l].inv = owner[stack[t][k].inv]
    <3>1. stack'[t][k].inv # None /\ owner'[stack'[t][k].inv] = owner[stack[t][k].inv]
      BY <1>1, <1>2, <2>2, KnownFrame DEF Grows
    <3> QED
      BY <1>1, <2>2, <3>1 DEF GuardOpen
  <2> QED
    BY <2>1, <2>2 DEF FrameFacts, GuardOpen
<1>5. \A l \in DOMAIN stack'[t] : l < k => l <= k
  <2>1. DOMAIN stack'[t] = 1..Len(stack'[t]) /\ Len(stack'[t]) \in Nat
    BY LenProperties DEF TypeOK
  <2> QED
    BY <2>1
<1>6. /\ stack'[t][k].inv = stack[t][k].inv /\ stack'[t][k].call = stack[t][k].call
      /\ stack'[t][k].expired => stack[t][k].expired
      /\ ~stack[t][k].call => stack'[t][k].base = stack[t][k].base
      /\ RootAt(t, k)' => RootAt(t, k)
      /\ stack'[t][k].call /\ Told(t, k) => Told(t, k)'
  BY <1>1, <1>2, <1>3
<1> QED
  BY <1>1, <1>4, <1>5, <1>6 DEF FrameFacts, RootAt

(* A task that a step leaves alone. *)
LEMMA OtherTask ==
    ASSUME TypeOK, TypeOK', CallInv, Grows, NEW t \in Tasks,
           at'[t] = at[t], stack'[t] = stack[t], thrown'[t] = thrown[t],
           requests'[t] = requests[t], StackFacts(t), PlaceFacts(t)
    PROVE  StackFacts(t)' /\ PlaceFacts(t)'
<1>1. StackFacts(t)'
  <2>1. \A k \in DOMAIN stack[t] : PrefixKept(t, k)
    BY DEF PrefixKept, SameFrame
  <2> QED
    BY <2>1, FrameKept DEF StackFacts
<1>2. AllTold(t) => AllTold(t)'
  <2>1. ASSUME NEW k \in DOMAIN stack[t], RootAt(t, k)'
        PROVE  RootAt(t, k) /\ (Told(t, k) => Told(t, k)')
    BY <2>1, KnownFrame DEF RootAt, IsRoot, Told, Grows
  <2> QED
    BY <2>1 DEF AllTold, Excused
<1>3. PlaceFacts(t)'
  BY <1>2 DEF PlaceFacts, Expired
<1> QED
  BY <1>1, <1>3

(* A task whose coroutine runs, or is suspended with nothing due. *)
LEMMA CalmFacts ==
    ASSUME TypeOK, NEW t \in Tasks, PlaceFacts(t), at[t] \notin Unwinding \cup {"done"},
           at[t] \in Running \/ ~thrown[t]
    PROVE  /\ \A k \in DOMAIN stack[t] : ~stack[t][k].expired
           /\ "self" \notin BodyHabits => requests[t] = 0
           /\ thrown[t] => requests[t] > 0
           /\ Cancelling(t) = requests[t]
<1>1. requests[t] \in Nat
  BY DEF TypeOK
<1>2. /\ \A k \in DOMAIN stack[t] : ~stack[t][k].expired
      /\ "self" \notin BodyHabits => ~(requests[t] > 0)
      /\ thrown[t] => requests[t] > 0
  BY DEF PlaceFacts, Expired
<1>3. {k \in DOMAIN stack[t] : stack[t][k].expired} = {}
  BY <1>2
<1>4. Cancelling(t) = requests[t] + 0
  BY <1>3, FS_EmptySet DEF Cancelling
<1> QED
  BY <1>1, <1>2, <1>4

(* Where such a task may go next. *)
LEMMA ToPlace ==
    ASSUME TypeOK', NEW t \in Tasks, StackFacts(t)',
           at'[t] \notin Unwinding,
           \A k \in DOMAIN stack'[t] : ~stack'[t][k].expired,
           thrown'[t] => requests'[t] > 0,
           at'[t] = "done" \/ ("self" \notin BodyHabits => requests'[t] = 0)
    PROVE  PlaceFacts(t)'
<1>1. requests'[t] \in Nat
  BY DEF TypeOK
<1>2. thrown'[t] => AllTold(t)'
  BY DEF StackFacts, FrameFacts, AllTold
<1> QED
  BY <1>1, <1>2 DEF PlaceFacts, Expired

(* A CancelledError is raised, or a root asks for the stop. *)
LEMMA ToUnwinding ==
    ASSUME NEW t \in Tasks, at'[t] \in Unwinding, AllTold(t)',
           at'[t] = "CancelledError" /\ thrown'[t] => requests'[t] > 0
    PROVE  PlaceFacts(t)'
BY DEF PlaceFacts, Unwinding, Running

(* The guard at hand: nothing open, or a root call open in this task.      *)
LEMMA GuardAtHand ==
    ASSUME TypeOK, CallInv, NEW t \in Tasks, StackFacts(t), Active(t) # None
    PROVE  Guard(t) \in RootsAbove(t, 0) \/ \A k \in DOMAIN stack[t] : ~RootAt(t, k)
<1>1. Guard(t) \in Invs /\ IsRoot(Guard(t))
  BY GuardKnown
<1>2. CASE stack[t] = <<>>
  <2>1. DOMAIN stack[t] = {}
    BY <1>2, EmptySeq
  <2> QED
    BY <2>1
<1>3. CASE stack[t] # <<>>
  <2>1. /\ DOMAIN stack[t] = 1..Len(stack[t]) /\ Len(stack[t]) \in Nat
        /\ Len(stack[t]) \in DOMAIN stack[t]
    BY <1>3, StackShape
  <2>2. GuardOpen(t, Len(stack[t])) /\ owner[stack[t][Len(stack[t])].inv] = Guard(t)
    BY <1>3, <2>1 DEF StackFacts, FrameFacts, Guard, Active, Top
  <2> QED
    BY <1>1, <2>1, <2>2 DEF GuardOpen, RootsAbove
<1> QED
  BY <1>2, <1>3

(* A check that cancels a calm task: all its open roots were told. *)
LEMMA CheckTold ==
    ASSUME TypeOK, CallInv, NEW t \in Tasks, StackFacts(t), PlaceFacts(t), LatchFacts(t),
           at[t] \notin Unwinding \cup {"done"}, at[t] \in Running \/ ~thrown[t],
           Active(t) # None, CheckCancels(t, Guard(t)),
           NEW k \in DOMAIN stack[t], RootAt(t, k)
    PROVE  Told(t, k)
<1>1. requests[t] > 0 => Told(t, k)
  BY DEF StackFacts, FrameFacts
<1>2. CASE Cancelling(t) > 0
  BY <1>1, <1>2, CalmFacts
<1>3. CASE cancelled[Guard(t)]
  <2>1. Guard(t) \in RootsAbove(t, 0)
    BY GuardAtHand
  <2> QED
    BY <1>1, <1>3, <2>1 DEF LatchFacts, Unwinding
<1> QED
  BY <1>2, <1>3 DEF CheckCancels

-----------------------------------------------------------------------------
(* What the changes of a stack leave of the facts about it. *)

(* Nothing changes. *)
LEMMA StackSame ==
    ASSUME TypeOK, TypeOK', CallInv, Grows, NEW t \in Tasks, StackFacts(t),
           stack'[t] = stack[t], requests'[t] = requests[t]
    PROVE  /\ StackFacts(t)'
           /\ AllTold(t) => AllTold(t)'
<1>1. StackFacts(t)'
  <2>1. \A k \in DOMAIN stack[t] : PrefixKept(t, k)
    BY DEF PrefixKept, SameFrame
  <2> QED
    BY <2>1, FrameKept DEF StackFacts
<1>2. ASSUME NEW k \in DOMAIN stack[t], RootAt(t, k)'
      PROVE  RootAt(t, k) /\ (Told(t, k) => Told(t, k)')
  BY <1>2, KnownFrame DEF RootAt, IsRoot, Told, Grows
<1>3. AllTold(t) => AllTold(t)'
  BY <1>2 DEF AllTold, Excused
<1> QED
  BY <1>1, <1>3

(* The innermost frame is closed. *)
LEMMA StackPopped ==
    ASSUME TypeOK, TypeOK', CallInv, Grows, NEW t \in Tasks, StackFacts(t),
           stack[t] # <<>>, stack'[t] = Below(t), requests'[t] = requests[t]
    PROVE  /\ StackFacts(t)'
           /\ \A k \in DOMAIN stack'[t] :
                 /\ k \in DOMAIN stack[t] /\ stack'[t][k] = stack[t][k]
                 /\ k < Len(stack[t]) /\ ~(Len(stack[t]) < k)
                 /\ RootAt(t, k)' => RootAt(t, k) /\ (Told(t, k) => Told(t, k)')
           /\ AllTold(t) /\ ~Top(t).expired => AllTold(t)'
<1>1. /\ DOMAIN stack'[t] = 1..(Len(stack[t]) - 1)
      /\ \A k \in 1..(Len(stack[t]) - 1) : stack'[t][k] = stack[t][k]
      /\ DOMAIN stack[t] = 1..Len(stack[t]) /\ Len(stack[t]) \in Nat
  BY BelowShape, StackShape
<1>2. StackFacts(t)'
  <2>1. \A k \in DOMAIN stack'[t] : k \in DOMAIN stack[t] /\ PrefixKept(t, k)
    BY <1>1 DEF PrefixKept, SameFrame
  <2> QED
    BY <2>1, FrameKept DEF StackFacts
<1>3. \A k \in DOMAIN stack'[t] :
         /\ k \in DOMAIN stack[t] /\ stack'[t][k] = stack[t][k]
         /\ k < Len(stack[t]) /\ ~(Len(stack[t]) < k)
  BY <1>1
<1>4. ASSUME NEW k \in DOMAIN stack'[t], RootAt(t, k)'
      PROVE  RootAt(t, k) /\ (Told(t, k) => Told(t, k)')
  BY <1>3, <1>4, KnownFrame DEF RootAt, IsRoot, Told, Grows
<1>5. AllTold(t) /\ ~Top(t).expired => AllTold(t)'
  <2>1. \A l \in DOMAIN stack[t] : l \in DOMAIN stack'[t] \/ l = Len(stack[t])
    BY <1>1
  <2> QED
    BY <1>3, <1>4, <2>1 DEF AllTold, Excused, Top
<1> QED
  BY <1>2, <1>3, <1>4, <1>5

(* The root waits in stop() with its call still open. *)
LEMMA StackStopped ==
    ASSUME TypeOK, TypeOK', CallInv, Grows, NEW t \in Tasks, StackFacts(t), InCall(t),
           NEW i \in Invs, i = Top(t).inv, stack'[t] = Append(Below(t), CallFrame(i)),
           requests'[t] = requests[t]
    PROVE  /\ StackFacts(t)'
           /\ AllTold(t) => AllTold(t)'
           /\ \A k \in DOMAIN stack'[t] :
                 /\ k \in DOMAIN stack[t]
                 /\ stack'[t][k].expired => stack[t][k].expired
                 /\ RootAt(t, k)' => RootAt(t, k) /\ (Told(t, k) => Told(t, k)')
           /\ Active(t)' = i
<1> DEFINE n == Len(stack[t])
<1>1. /\ Below(t) \in Seq(Frame) /\ Len(Below(t)) = n - 1
      /\ \A k \in 1..(n - 1) : Below(t)[k] = stack[t][k]
      /\ DOMAIN stack[t] = 1..n /\ n \in Nat /\ n > 0
  BY BelowShape, StackShape DEF InCall
<1>2. /\ CallFrame(i) \in Frame /\ CallFrame(i).inv = i /\ CallFrame(i).call
      /\ ~CallFrame(i).expired
  BY FrameTypes DEF CallFrame
<1>3. /\ stack[t][n].call /\ stack[t][n].inv = i /\ stack[t][n] \in Frame
      /\ ~stack[t][n].expired
  BY <1>1, StackShape DEF InCall, Top, StackFacts, FrameFacts
<1> HIDE DEF n
<1>4. /\ DOMAIN stack'[t] = 1..n /\ Len(stack'[t]) = n
      /\ \A k \in 1..(n - 1) : stack'[t][k] = stack[t][k]
      /\ stack'[t][n] = CallFrame(i)
      /\ stack'[t] # <<>>
  BY <1>1, <1>2, PushShape
<1>5. \A k \in 1..n : /\ SameFrame(stack[t][k], stack'[t][k])
                      /\ stack[t][k].expired => stack'[t][k].expired
                      /\ stack'[t][k].inv = stack[t][k].inv
                      /\ stack'[t][k].call => stack[t][k].call
  <2>1. \A k \in 1..n : k \in 1..(n - 1) \/ k = n
    BY <1>1
  <2>2. SameFrame(stack[t][n], CallFrame(i))
    <3>1. stack[t][n].call = TRUE /\ CallFrame(i).call = TRUE
      BY <1>2, <1>3 DEF Frame
    <3> QED
      BY <1>2, <1>3, <3>1 DEF SameFrame
  <2>3. CallFrame(i).inv = stack[t][n].inv
    BY <1>2, <1>3
  <2> QED
    BY <1>3, <1>4, <2>1, <2>2, <2>3 DEF SameFrame
<1>6. StackFacts(t)'
  <2>1. \A k \in DOMAIN stack'[t] : k \in DOMAIN stack[t] /\ PrefixKept(t, k)
    BY <1>1, <1>4, <1>5 DEF PrefixKept
  <2> QED
    BY <2>1, FrameKept DEF StackFacts
<1>7. ASSUME NEW k \in DOMAIN stack'[t], RootAt(t, k)'
      PROVE  RootAt(t, k) /\ (Told(t, k) => Told(t, k)')
  <2>1. k \in DOMAIN stack[t] /\ stack'[t][k].inv = stack[t][k].inv /\ stack[t][k].call
    BY <1>1, <1>4, <1>5, <1>7 DEF RootAt
  <2> QED
    BY <1>7, <2>1, KnownFrame DEF RootAt, IsRoot, Told, Grows
<1>8. AllTold(t) => AllTold(t)'
  BY <1>1, <1>4, <1>5, <1>7 DEF AllTold, Excused
<1>9. Active(t)' = i
  BY <1>2, <1>4 DEF Active, Top
<1>10. \A k \in DOMAIN stack'[t] :
          k \in DOMAIN stack[t] /\ (stack'[t][k].expired => stack[t][k].expired)
  BY <1>1, <1>4, <1>5 DEF SameFrame
<1> QED
  BY <1>6, <1>7, <1>8, <1>9, <1>10

(* A frame is opened; the frames below it keep their facts. *)
LEMMA StackPushed ==
    ASSUME TypeOK, TypeOK', CallInv, Grows, NEW t \in Tasks, StackFacts(t),
           NEW f \in Frame, stack'[t] = Append(stack[t], f), requests'[t] = requests[t],
           \A k \in DOMAIN stack'[t] : k = Len(stack[t]) + 1 => FrameFacts(t, k)'
    PROVE  StackFacts(t)'
<1> DEFINE n == Len(stack[t])
<1>1. /\ stack[t] \in Seq(Frame) /\ DOMAIN stack[t] = 1..n /\ n \in Nat
  BY StackShape
<1> HIDE DEF n
<1>2. /\ DOMAIN stack'[t] = 1..(n + 1)
      /\ \A k \in 1..n : stack'[t][k] = stack[t][k]
  BY <1>1, PushShape DEF n
<1>3. \A k \in DOMAIN stack[t] : k \in DOMAIN stack'[t] /\ PrefixKept(t, k)
  BY <1>1, <1>2 DEF PrefixKept, SameFrame
<1>4. \A k \in DOMAIN stack[t] : FrameFacts(t, k)'
  BY <1>3, FrameKept DEF StackFacts
<1>5. \A k \in DOMAIN stack'[t] : k \in DOMAIN stack[t] \/ k = n + 1
  BY <1>1, <1>2
<1> QED
  BY <1>4, <1>5 DEF StackFacts, n

-----------------------------------------------------------------------------
(* task.cancelling() while a timeout that fired is being left. *)
LEMMA CancellingBounds ==
    ASSUME TypeOK, NEW t \in Tasks, NEW n \in DOMAIN stack[t], stack[t][n].expired
    PROVE  /\ Cancelling(t) \in Nat
           /\ Cancelling(t) >= requests[t] + 1
           /\ \A k \in DOMAIN stack[t] : k # n /\ stack[t][k].expired
                 => Cancelling(t) >= requests[t] + 2
           /\ (\A k \in DOMAIN stack[t] : stack[t][k].expired => k = n)
                 => Cancelling(t) = requests[t] + 1
<1> DEFINE E == {k \in DOMAIN stack[t] : stack[t][k].expired}
<1>1. requests[t] \in Nat /\ Cancelling(t) = requests[t] + Cardinality(E)
  BY DEF TypeOK, Cancelling
<1>2. IsFiniteSet(E) /\ n \in E
  <2>1. DOMAIN stack[t] = 1..Len(stack[t]) /\ Len(stack[t]) \in Nat
    BY LenProperties DEF TypeOK
  <2>2. IsFiniteSet(1..Len(stack[t]))
    <3>1. 1 \in Int /\ Len(stack[t]) \in Int
      BY <2>1
    <3> HIDE DEF E
    <3> QED
      BY <3>1, FS_Interval
  <2>3. E \subseteq 1..Len(stack[t]) /\ n \in E
    BY <2>1
  <2> HIDE DEF E
  <2> QED
    BY <2>2, <2>3, FS_Subset
<1>3. /\ IsFiniteSet(E \ {n}) /\ Cardinality(E \ {n}) = Cardinality(E) - 1
      /\ Cardinality(E) \in Nat /\ Cardinality(E \ {n}) \in Nat
  BY <1>2, FS_RemoveElement, FS_CardinalityType
<1>4. Cardinality(E) >= 1
  BY <1>3
<1>5. ASSUME NEW k \in DOMAIN stack[t], k # n, stack[t][k].expired
      PROVE  Cardinality(E) >= 2
  <2>1. Cardinality(E \ {n}) # 0
    BY <1>3, <1>5, FS_EmptySet
  <2> HIDE DEF E
  <2> QED
    BY <1>3, <2>1
<1>6. ASSUME \A k \in DOMAIN stack[t] : stack[t][k].expired => k = n
      PROVE  Cardinality(E) = 1
  <2>1. E = {n}
    BY <1>2, <1>6
  <2> QED
    BY <2>1, FS_Singleton
<1> HIDE DEF E
<1> QED
  BY <1>1, <1>3, <1>4, <1>5, <1>6

(* asyncio.timeout takes its CancelledError back, or lets one through. *)
LEMMA LeaveTimeoutFacts ==
    ASSUME Base, TypeOK', Grows, NEW t \in Tasks, LeaveTimeout(t)
    PROVE  StackFacts(t)' /\ PlaceFacts(t)'
<1> DEFINE n == Len(stack[t])
<1>1. /\ at[t] \in Running /\ stack[t] # <<>> /\ ~Top(t).call
      /\ stack'[t] = Below(t)
      /\ requests' = requests /\ thrown' = thrown
      /\ n \in DOMAIN stack[t] /\ Top(t) = stack[t][n] /\ Top(t) \in Frame
  BY StackShape DEF LeaveTimeout, InTimeout, Base, TypeOK, Top
<1>2. /\ StackFacts(t)'
      /\ \A k \in DOMAIN stack'[t] :
            /\ k \in DOMAIN stack[t] /\ stack'[t][k] = stack[t][k]
            /\ k < n /\ ~(n < k)
            /\ RootAt(t, k)' => RootAt(t, k) /\ (Told(t, k) => Told(t, k)')
      /\ AllTold(t) /\ ~Top(t).expired => AllTold(t)'
  BY <1>1, StackPopped DEF Base, TaskFacts
<1>3. PlaceFacts(t) /\ FrameFacts(t, n) /\ StackFacts(t)
  BY <1>1 DEF Base, TaskFacts, StackFacts
<1>4. \A k \in DOMAIN stack[t] : k \in DOMAIN stack'[t] \/ k = n
  <2>1. /\ DOMAIN stack'[t] = 1..(n - 1) /\ DOMAIN stack[t] = 1..n /\ n \in Nat
    BY <1>1, BelowShape, StackShape DEF Base
  <2> HIDE DEF n
  <2> QED
    BY <2>1
<1> HIDE DEF n
<1>5. CASE at[t] # "CancelledError"
  <2>1. at'[t] = at[t] /\ at[t] \notin Unwinding \cup {"done"}
    BY <1>1, <1>5 DEF LeaveTimeout, Goto, Base, TypeOK, Running, Unwinding
  <2>2. /\ \A k \in DOMAIN stack[t] : ~stack[t][k].expired
        /\ "self" \notin BodyHabits => requests[t] = 0
        /\ thrown[t] => requests[t] > 0
    BY <1>1, <1>3, <2>1, CalmFacts DEF Base
  <2> QED
    BY <1>1, <1>2, <2>1, <2>2, ToPlace
<1>6. CASE at[t] = "CancelledError" /\ ~Top(t).expired
  <2>1. at'[t] = "CancelledError" /\ AllTold(t) /\ (thrown[t] => requests[t] > 0)
    BY <1>1, <1>3, <1>6 DEF LeaveTimeout, Goto, Base, TypeOK, PlaceFacts, Unwinding, Running
  <2> QED
    BY <1>1, <1>2, <1>6, <2>1, ToUnwinding DEF Unwinding
<1>7. CASE at[t] = "CancelledError" /\ Top(t).expired
  <2>1. AllTold(t) /\ (thrown[t] => requests[t] > 0)
    BY <1>1, <1>3, <1>7 DEF PlaceFacts, Unwinding
  <2>2. /\ Top(t).base <= requests[t] /\ Top(t).base \in Nat /\ requests[t] \in Nat
        /\ "self" \notin BodyHabits => Top(t).base = 0
    BY <1>1, <1>3 DEF FrameFacts, Frame, Base, TypeOK
  <2>3. /\ Cancelling(t) \in Nat
        /\ Cancelling(t) >= requests[t] + 1
        /\ \A k \in DOMAIN stack[t] : k # n /\ stack[t][k].expired
              => Cancelling(t) >= requests[t] + 2
        /\ (\A k \in DOMAIN stack[t] : stack[t][k].expired => k = n)
              => Cancelling(t) = requests[t] + 1
    BY <1>1, <1>7, CancellingBounds DEF Base
  <2>4. CASE Cancelling(t) - 1 <= Top(t).base
    <3>1. at'[t] = "Error"
      BY <1>1, <1>7, <2>4 DEF LeaveTimeout, Goto, Base, TypeOK
    <3>2. \A k \in DOMAIN stack[t] : stack[t][k].expired => k = n
      BY <2>2, <2>3, <2>4
    <3>3. \A k \in DOMAIN stack'[t] : ~stack'[t][k].expired
      <4>1. \A k \in DOMAIN stack'[t] : k # n
        <5>1. n \in Nat /\ \A k \in DOMAIN stack'[t] : k \in Nat
          <6>1. DOMAIN stack[t] = 1..Len(stack[t]) /\ Len(stack[t]) \in Nat
            BY StackShape DEF Base
          <6> QED
            BY <1>2, <6>1 DEF n
        <5> QED
          BY <1>2, <5>1
      <4> QED
        BY <1>2, <3>2, <4>1
    <3>4. "self" \notin BodyHabits => requests[t] = 0
      BY <2>2, <2>3, <2>4
    <3> QED
      BY <1>1, <1>2, <2>1, <3>1, <3>3, <3>4, ToPlace DEF Unwinding
  <2>5. CASE ~(Cancelling(t) - 1 <= Top(t).base)
    <3>1. at'[t] = "CancelledError"
      BY <1>1, <1>7, <2>5 DEF LeaveTimeout, Goto, Base, TypeOK
    <3>2. requests[t] > 0 \/ \E k \in DOMAIN stack[t] : k # n /\ stack[t][k].expired
      BY <2>2, <2>3, <2>5
    <3>3. AllTold(t)'
      <4>1. CASE requests[t] > 0
        BY <1>1, <1>2, <4>1 DEF AllTold, StackFacts, FrameFacts
      <4>2. ASSUME NEW m \in DOMAIN stack[t], m # n, stack[t][m].expired
            PROVE  AllTold(t)'
        <5>1. m \in DOMAIN stack'[t] /\ stack'[t][m].expired
          BY <1>2, <1>4, <4>2
        <5>2. ASSUME NEW k \in DOMAIN stack'[t], RootAt(t, k)'
              PROVE  Told(t, k)' \/ Excused(t, k)'
          <6>1. k \in DOMAIN stack[t] /\ RootAt(t, k) /\ (Told(t, k) => Told(t, k)')
            BY <1>2, <5>2
          <6>2. m < k => Told(t, k)
            BY <1>3, <4>2, <6>1 DEF StackFacts, FrameFacts
          <6>3. m # k
            BY <1>3, <4>2, <6>1 DEF StackFacts, FrameFacts, RootAt
          <6>4. m < k \/ m > k
            BY <6>1, <6>3, StackShape DEF Base
          <6> QED
            BY <5>1, <6>1, <6>2, <6>4 DEF Excused
        <5> QED
          BY <5>2 DEF AllTold
      <4> QED
        BY <3>2, <4>1, <4>2
    <3> QED
      BY <1>1, <1>2, <2>1, <3>1, <3>3, ToUnwinding DEF Unwinding
  <2> QED
    BY <2>4, <2>5
<1> QED
  BY <1>5, <1>6, <1>7

-----------------------------------------------------------------------------
(* The acting task's stack is as it was, has lost its last frame, or       *)
(* carries the root that waits in stop().                                  *)
Reduced(t) ==
    \/ stack'[t] = stack[t]
    \/ stack[t] # <<>> /\ stack'[t] = Below(t)
    \/ InCall(t) /\ stack'[t] = Append(Below(t), CallFrame(Top(t).inv))

(* What these three have in common. *)
LEMMA StackReduced ==
    ASSUME Base, TypeOK', Grows, NEW t \in Tasks, Reduced(t), requests'[t] = requests[t]
    PROVE  /\ StackFacts(t)'
           /\ \A k \in DOMAIN stack'[t] :
                 /\ k \in DOMAIN stack[t]
                 /\ stack'[t][k].expired => stack[t][k].expired
                 /\ RootAt(t, k)' => RootAt(t, k) /\ (Told(t, k) => Told(t, k)')
           /\ AllTold(t) /\ (stack[t] # <<>> => ~Top(t).expired) => AllTold(t)'
<1>1. TypeOK /\ CallInv /\ StackFacts(t)
  BY DEF Base, TaskFacts
<1>2. CASE stack'[t] = stack[t]
  <2>1. ASSUME NEW k \in DOMAIN stack[t], RootAt(t, k)'
        PROVE  RootAt(t, k) /\ (Told(t, k) => Told(t, k)')
    BY <1>1, <1>2, <2>1, KnownFrame DEF RootAt, IsRoot, Told, Grows
  <2> QED
    BY <1>1, <1>2, <2>1, StackSame
<1>3. CASE stack[t] # <<>> /\ stack'[t] = Below(t)
  BY <1>1, <1>3, StackPopped
<1>4. CASE InCall(t) /\ stack'[t] = Append(Below(t), CallFrame(Top(t).inv))
  <2>1. PICK i \in Invs : i = Top(t).inv
    BY <1>1, <1>4, TopCall
  <2> QED
    BY <1>1, <1>4, <2>1, StackStopped
<1> QED
  BY <1>2, <1>3, <1>4 DEF Reduced

(* A calm task goes on. *)
LEMMA CalmStep ==
    ASSUME Base, TypeOK', Grows, NEW t \in Tasks,
           at[t] \notin Unwinding \cup {"done"}, at[t] \in Running \/ ~thrown[t],
           at'[t] \notin Unwinding,
           Reduced(t), requests'[t] = requests[t], thrown'[t] => thrown[t]
    PROVE  StackFacts(t)' /\ PlaceFacts(t)'
<1>1. /\ \A k \in DOMAIN stack[t] : ~stack[t][k].expired
      /\ "self" \notin BodyHabits => requests[t] = 0
      /\ thrown[t] => requests[t] > 0
  BY CalmFacts DEF Base, TaskFacts
<1>2. /\ StackFacts(t)'
      /\ \A k \in DOMAIN stack'[t] :
            k \in DOMAIN stack[t] /\ (stack'[t][k].expired => stack[t][k].expired)
  BY StackReduced
<1> QED
  BY <1>1, <1>2, ToPlace

(* A calm task's check cancels it. *)
LEMMA CheckedStep ==
    ASSUME Base, TypeOK', Grows, NEW t \in Tasks,
           at[t] \notin Unwinding \cup {"done"}, at[t] \in Running \/ ~thrown[t],
           Active(t) # None, CheckCancels(t, Guard(t)), at'[t] \in Unwinding,
           Reduced(t), requests'[t] = requests[t], thrown'[t] => thrown[t]
    PROVE  StackFacts(t)' /\ PlaceFacts(t)'
<1>1. thrown[t] => requests[t] > 0
  BY CalmFacts DEF Base, TaskFacts
<1>2. \A k \in DOMAIN stack[t] : RootAt(t, k) => Told(t, k)
  BY CheckTold DEF Base, TaskFacts
<1>3. /\ StackFacts(t)'
      /\ \A k \in DOMAIN stack'[t] :
            /\ k \in DOMAIN stack[t]
            /\ RootAt(t, k)' => RootAt(t, k) /\ (Told(t, k) => Told(t, k)')
  BY StackReduced
<1>4. AllTold(t)'
  BY <1>2, <1>3 DEF AllTold
<1> QED
  BY <1>1, <1>3, <1>4, ToUnwinding

(* A CancelledError unwinds on, or is raised because one was due. *)
LEMMA UnwoundStep ==
    ASSUME Base, TypeOK', Grows, NEW t \in Tasks,
           at[t] \in Unwinding \/ thrown[t], at'[t] \in Unwinding,
           Reduced(t), stack'[t] = stack[t] \/ InCall(t), requests'[t] = requests[t],
           at'[t] = "CancelledError" /\ thrown'[t] => requests[t] > 0
    PROVE  StackFacts(t)' /\ PlaceFacts(t)'
<1>1. AllTold(t) /\ StackFacts(t)
  BY DEF Base, TaskFacts, PlaceFacts
<1>2. AllTold(t)'
  <2>1. CASE stack'[t] = stack[t]
    BY <1>1, <2>1, StackSame DEF Base
  <2>2. CASE InCall(t)
    <3>1. ~Top(t).expired
      BY <1>1, <2>2, StackShape DEF InCall, Top, StackFacts, FrameFacts, Base
    <3> QED
      BY <1>1, <3>1, StackReduced
  <2> QED
    BY <2>1, <2>2
<1>3. StackFacts(t)'
  BY StackReduced
<1> QED
  BY <1>2, <1>3, ToUnwinding

(* Every step of its coroutine keeps a task's facts. *)

(* An exception unwinds. *)
LEMMA UnwindFacts ==
    ASSUME Base, TypeOK', Grows, NEW t \in Tasks, Unwind(t)
    PROVE  StackFacts(t)' /\ PlaceFacts(t)'
<1>0. PlaceFacts(t) /\ TypeOK
  BY DEF Base, TaskFacts
<1>1. CASE LeaveCancelled(t)
  <2>1. /\ at[t] = "CancelledError" /\ InCall(t) /\ at'[t] \in Unwinding
        /\ stack'[t] = Below(t) \/ stack'[t] = Append(Below(t), CallFrame(Top(t).inv))
        /\ UNCHANGED <<requests, thrown>>
    BY <1>0, <1>1 DEF LeaveCancelled, RequestStop, Leave, Goto, TypeOK, Unwinding
  <2>2. thrown[t] => requests[t] > 0
    BY <1>0, <2>1 DEF PlaceFacts, Running
  <2>3. stack[t] # <<>> /\ Reduced(t)
    BY <2>1 DEF InCall, Reduced
  <2> QED
    BY <2>1, <2>2, <2>3, UnwoundStep DEF Unwinding
<1>2. CASE LeaveFailed(t)
  <2>1. /\ at[t] = "Error" /\ at'[t] = "Error" /\ stack[t] # <<>> /\ stack'[t] = Below(t)
        /\ UNCHANGED <<requests, thrown>>
    BY <1>0, <1>2 DEF LeaveFailed, InCall, Leave, Goto, TypeOK
  <2> QED
    BY <2>1, CalmStep DEF Unwinding, Running, Reduced
<1>3. CASE LeaveTimeout(t)
  BY <1>3, LeaveTimeoutFacts
<1>4. CASE Finish(t)
  <2>1. /\ at'[t] = "done" /\ stack[t] = <<>> /\ stack' = stack
        /\ at[t] \in Running /\ UNCHANGED <<requests, thrown>>
    BY <1>0, <1>4 DEF Finish, Goto, TypeOK
  <2>2. \A k \in DOMAIN stack'[t] : ~stack'[t][k].expired
    BY <2>1, EmptySeq
  <2>3. StackFacts(t)'
    BY <2>1, StackReduced DEF Reduced
  <2>4. thrown[t] => requests[t] > 0
    BY <1>0, <2>1 DEF PlaceFacts
  <2> QED
    BY <2>1, <2>2, <2>3, <2>4, ToPlace DEF Unwinding
<1> QED
  BY <1>1, <1>2, <1>3, <1>4 DEF Unwind

(* The loop resumes the task. *)
LEMMA LoopFacts ==
    ASSUME Base, TypeOK', Grows, NEW t \in Tasks, Loop(t)
    PROVE  StackFacts(t)' /\ PlaceFacts(t)'
<1>0. /\ TypeOK /\ CallInv /\ requests' = requests /\ ~thrown'[t]
      /\ "absorb" \notin BodyHabits
  BY DEF Base, Careful, Loop, Resume, BeginOp, OpReturns, OpRaises, KeepWaiting,
         StopAnswered, Resumed, TypeOK
<1>1. CASE Resume(t) \/ OpRaises(t)
  <2>1. /\ at[t] \in {"ready", "wait", "op"} /\ stack' = stack
        /\ at'[t] = IF thrown[t] THEN "CancelledError"
                    ELSE IF at[t] = "op" THEN "Error" ELSE "body"
    BY <1>0, <1>1 DEF Resume, OpRaises, Goto, TypeOK
  <2>2. CASE thrown[t]
    BY <1>0, <2>1, <2>2, UnwoundStep DEF Reduced, Unwinding
  <2>3. CASE ~thrown[t]
    BY <1>0, <2>1, <2>3, CalmStep DEF Reduced, Unwinding
  <2> QED
    BY <2>2, <2>3
<1>2. CASE BeginOp(t) \/ OpReturns(t)
  <2>1. /\ at[t] \in {"sleep", "op"} /\ stack' = stack /\ Active(t) # None
        /\ \/ thrown[t] /\ at'[t] = "CancelledError"
           \/ /\ ~thrown[t]
              /\ at'[t] = IF CheckCancels(t, Guard(t)) THEN "CancelledError"
                          ELSE IF closed[Guard(t)] THEN "Error"
                          ELSE IF at[t] = "op" THEN "body" ELSE "op"
    BY <1>0, <1>2 DEF BeginOp, OpReturns, Check, Goto, TypeOK, Base, GuardHeld
  <2>2. CASE thrown[t]
    BY <1>0, <2>1, <2>2, UnwoundStep DEF Reduced, Unwinding
  <2>3. CASE ~thrown[t] /\ CheckCancels(t, Guard(t))
    BY <1>0, <2>1, <2>3, CheckedStep DEF Reduced, Unwinding
  <2>4. CASE ~thrown[t] /\ ~CheckCancels(t, Guard(t))
    BY <1>0, <2>1, <2>4, CalmStep DEF Reduced, Unwinding
  <2> QED
    BY <2>2, <2>3, <2>4
<1>3. CASE KeepWaiting(t)
  <2>1. at[t] = "stop" /\ at' = at /\ stack' = stack
    BY <1>3 DEF KeepWaiting
  <2> QED
    BY <1>0, <2>1, UnwoundStep DEF Reduced, Unwinding
<1>4. CASE StopAnswered(t)
  <2>1. /\ at[t] = "stop" /\ InCall(t) /\ stack[t] # <<>>
        /\ at'[t] = "CancelledError" /\ stack'[t] = Below(t)
    BY <1>0, <1>4 DEF StopAnswered, Leave, Goto, TypeOK, CallInv, StopsAtRoot, InCall
  <2> QED
    BY <1>0, <2>1, UnwoundStep DEF Reduced, Unwinding
<1> QED
  BY <1>1, <1>2, <1>3, <1>4 DEF Loop

-----------------------------------------------------------------------------
(* A body opens a frame. *)

(* Outside all calls no root is open. *)
LEMMA NoGuard ==
    ASSUME TypeOK, NEW t \in Tasks, StackFacts(t), Active(t) = None
    PROVE  \A k \in DOMAIN stack[t] : ~RootAt(t, k)
<1>1. CASE stack[t] = <<>>
  BY <1>1, EmptySeq
<1>2. CASE stack[t] # <<>>
  <2>1. /\ DOMAIN stack[t] = 1..Len(stack[t]) /\ Len(stack[t]) \in Nat
        /\ Len(stack[t]) \in DOMAIN stack[t]
    BY <1>2, StackShape
  <2>2. GuardOpen(t, Len(stack[t])) /\ stack[t][Len(stack[t])].inv = None
    BY <1>2, <2>1 DEF StackFacts, FrameFacts, Active, Top
  <2> QED
    BY <2>1, <2>2 DEF GuardOpen
<1> QED
  BY <1>1, <1>2

(* asyncio.timeout, with the cancellations counted at its start. *)
LEMMA TimeoutFacts ==
    ASSUME Base, TypeOK', Grows, NEW t \in Tasks, EnterTimeout(t)
    PROVE  StackFacts(t)' /\ PlaceFacts(t)'
<1> DEFINE n == Len(stack[t])
           f == TimeoutFrame(Active(t), Cancelling(t))
<1>0. /\ TypeOK /\ CallInv /\ StackFacts(t) /\ PlaceFacts(t)
      /\ at[t] = "body" /\ at'[t] = "body" /\ at[t] \in Running
      /\ at[t] \notin Unwinding \cup {"done"}
      /\ stack'[t] = Append(stack[t], f)
      /\ UNCHANGED <<requests, thrown, owner, asked>>
  BY DEF EnterTimeout, Base, TaskFacts, TypeOK, Running, Unwinding
<1>1. /\ \A k \in DOMAIN stack[t] : ~stack[t][k].expired
      /\ "self" \notin BodyHabits => requests[t] = 0
      /\ thrown[t] => requests[t] > 0
      /\ Cancelling(t) = requests[t] /\ requests[t] \in Nat
  BY <1>0, CalmFacts DEF TypeOK
<1>2. /\ f \in Frame /\ f.call = FALSE /\ f.inv = Active(t)
      /\ f.base = requests[t] /\ f.expired = FALSE
  BY <1>0, <1>1, StackTypes, FrameTypes DEF TimeoutFrame
<1>3. /\ stack[t] \in Seq(Frame) /\ DOMAIN stack[t] = 1..n /\ n \in Nat
  BY <1>0, StackShape
<1> HIDE DEF n, f
<1>4. /\ DOMAIN stack'[t] = 1..(n + 1)
      /\ \A k \in 1..n : stack'[t][k] = stack[t][k]
      /\ stack'[t][n + 1] = f
  BY <1>0, <1>2, <1>3, PushShape, LenProperties DEF n
<1>5. ASSUME NEW k \in DOMAIN stack'[t], k = n + 1 PROVE FrameFacts(t, k)'
  <2>1. \A l \in DOMAIN stack'[t] : RootAt(t, l)' => l \in DOMAIN stack[t] /\ RootAt(t, l)
    BY <1>0, <1>2, <1>3, <1>4 DEF RootAt, IsRoot
  <2>2. GuardOpen(t, k)'
    <3>1. CASE \A l \in DOMAIN stack[t] : ~RootAt(t, l)
      BY <2>1, <3>1 DEF GuardOpen
    <3>2. CASE Active(t) # None /\ Guard(t) \in RootsAbove(t, 0)
      BY <1>0, <1>2, <1>3, <1>4, <1>5, <3>2 DEF GuardOpen, RootsAbove, Guard
    <3> QED
      BY <1>0, <3>1, <3>2, NoGuard, GuardAtHand
  <2> QED
    BY <1>0, <1>1, <1>2, <1>4, <1>5, <2>2 DEF FrameFacts, RootAt
<1>6. StackFacts(t)'
  BY <1>0, <1>2, <1>5, StackPushed DEF n
<1>7. \A k \in DOMAIN stack'[t] : ~stack'[t][k].expired
  <2>1. \A k \in DOMAIN stack'[t] : k \in DOMAIN stack[t] \/ k = n + 1
    BY <1>3, <1>4
  <2> QED
    BY <1>1, <1>2, <1>3, <1>4, <2>1
<1> QED
  BY <1>0, <1>1, <1>6, <1>7, ToPlace

(* A new call's frame; with requests made, its root has been told. *)
LEMMA PushedCall ==
    ASSUME Base, TypeOK', Grows, NEW t \in Tasks, NEW i \in Invs, NEW e \in Invs,
           Invoked(t, i, e), e # i => Active(t) # None,
           stack'[t] = Append(stack[t], CallFrame(i))
    PROVE  /\ StackFacts(t)'
           /\ \A k \in DOMAIN stack'[t] : ~stack'[t][k].expired
           /\ Active(t)' = i
<1> DEFINE n == Len(stack[t])
           f == CallFrame(i)
<1>0. /\ TypeOK /\ CallInv /\ StackFacts(t) /\ PlaceFacts(t)
      /\ at[t] \in Running /\ at[t] \notin Unwinding \cup {"done"}
      /\ requests'[t] = requests[t] /\ owner'[i] = e /\ i # None /\ phase[i] = "none"
      /\ asked'[i] = IF Cancelling(t) > 0 THEN {t} ELSE {}
      /\ \A j \in Invs : j # i => owner'[j] = owner[j] /\ asked'[j] = asked[j]
      /\ e # i => e = Guard(t) /\ owner[e] = e
  BY DEF Invoked, Base, TaskFacts, Running, Unwinding
<1>1. /\ \A k \in DOMAIN stack[t] : ~stack[t][k].expired
      /\ Cancelling(t) = requests[t] /\ requests[t] \in Nat
  BY <1>0, CalmFacts DEF TypeOK
<1>2. f \in Frame /\ f.call = TRUE /\ f.inv = i /\ f.expired = FALSE
  BY FrameTypes DEF CallFrame
<1>3. /\ stack[t] \in Seq(Frame) /\ DOMAIN stack[t] = 1..n /\ n \in Nat
  BY <1>0, StackShape
<1> HIDE DEF n, f
<1>4. /\ DOMAIN stack'[t] = 1..(n + 1) /\ Len(stack'[t]) = n + 1 /\ stack'[t] # <<>>
      /\ \A k \in 1..n : stack'[t][k] = stack[t][k]
      /\ stack'[t][n + 1] = f
  BY <1>2, <1>3, PushShape, LenProperties DEF n, f
<1>7. \A k \in DOMAIN stack'[t] : ~stack'[t][k].expired
  <2>1. \A k \in DOMAIN stack'[t] : k \in DOMAIN stack[t] \/ k = n + 1
    BY <1>3, <1>4
  <2> QED
    BY <1>1, <1>2, <1>3, <1>4, <2>1
<1>5. ASSUME NEW k \in DOMAIN stack'[t], k = n + 1 PROVE FrameFacts(t, k)'
  <2>1. GuardOpen(t, k)'
    <3>1. CASE e = i
      BY <1>0, <1>2, <1>3, <1>4, <1>5, <3>1 DEF GuardOpen
    <3>2. CASE e # i /\ Guard(t) \in RootsAbove(t, 0)
      BY <1>0, <1>2, <1>3, <1>4, <1>5, <3>2 DEF GuardOpen, RootsAbove
    <3>3. CASE e # i /\ \A l \in DOMAIN stack[t] : ~RootAt(t, l)
      <4>1. ASSUME NEW l \in DOMAIN stack'[t], RootAt(t, l)' PROVE FALSE
        <5>1. CASE l \in DOMAIN stack[t]
          <6>1. stack'[t][l] = stack[t][l] /\ stack[t][l].call
            BY <1>3, <1>4, <4>1, <5>1 DEF RootAt
          <6>2. stack[t][l].inv \in Invs /\ stack[t][l].inv # i
            BY <1>0, <5>1, <6>1, KnownFrame
          <6> QED
            BY <1>0, <3>3, <4>1, <5>1, <6>1, <6>2 DEF RootAt, IsRoot
        <5>2. CASE l = n + 1
          BY <1>0, <1>2, <1>4, <3>3, <4>1, <5>2 DEF RootAt, IsRoot
        <5> QED
          BY <1>3, <1>4, <5>1, <5>2
      <4> QED
        BY <4>1 DEF GuardOpen
    <3> QED
      BY <1>0, <3>1, <3>2, <3>3, GuardAtHand
  <2>2. requests'[t] > 0 => Told(t, k)'
    BY <1>0, <1>1, <1>2, <1>4, <1>5 DEF Told
  <2> QED
    BY <1>2, <1>4, <1>5, <1>7, <2>1, <2>2 DEF FrameFacts
<1>6. StackFacts(t)'
  BY <1>0, <1>2, <1>5, StackPushed DEF n, f
<1>8. Active(t)' = i
  BY <1>2, <1>4 DEF Active, Top
<1> QED
  BY <1>6, <1>7, <1>8

(* async_call begins. *)
LEMMA InvokeTold ==
    ASSUME Base, TypeOK', Grows, NEW t \in Tasks, NEW i \in Invs, NEW e \in Invs,
           NEW refused, Invoke(t, i, e, refused)
    PROVE  StackFacts(t)' /\ PlaceFacts(t)'
<1>0. /\ TypeOK /\ CallInv /\ PlaceFacts(t) /\ at[t] = "body" /\ at[t] \in Running
      /\ at[t] \notin Unwinding \cup {"done"}
      /\ UNCHANGED <<requests, thrown>>
      /\ e # i => Active(t) # None /\ e = Guard(t)
  BY DEF Base, TaskFacts, Invoke, Running, Unwinding
<1>1. Invoked(t, i, e)
  BY <1>0, InvokeFacts
<1>2. /\ "self" \notin BodyHabits => requests[t] = 0
      /\ thrown[t] => requests[t] > 0
      /\ Cancelling(t) = requests[t]
  BY <1>0, CalmFacts
<1>3. CASE CheckCancels(t, e) /\ e = i
  <2>1. at'[t] = "stop" /\ stack'[t] = Append(stack[t], CallFrame(i))
    BY <1>0, <1>3 DEF Invoke, CheckedOut, RequestStop, Goto, TypeOK
  <2>2. StackFacts(t)'
    BY <1>0, <1>1, <2>1, PushedCall
  <2>3. requests'[t] > 0
    BY <1>0, <1>1, <1>2, <1>3 DEF CheckCancels, Invoked
  <2>4. AllTold(t)'
    BY <2>2, <2>3 DEF AllTold, StackFacts, FrameFacts
  <2> QED
    BY <2>1, <2>2, <2>4, ToUnwinding DEF Unwinding
<1>4. CASE CheckCancels(t, e) /\ e # i
  <2>1. at'[t] = "CancelledError" /\ stack' = stack
    BY <1>0, <1>4 DEF Invoke, CheckedOut, Leave, Goto, TypeOK
  <2> QED
    BY <1>0, <1>4, <2>1, CheckedStep DEF Reduced, Unwinding
<1>5. CASE ~CheckCancels(t, e) /\ (closed[e] \/ refused)
  <2>1. at'[t] = "Error" /\ stack' = stack
    BY <1>0, <1>5 DEF Invoke, Leave, Goto, TypeOK
  <2> QED
    BY <1>0, <2>1, CalmStep DEF Reduced, Unwinding
<1>6. CASE ~CheckCancels(t, e) /\ ~(closed[e] \/ refused)
  <2>1. at' = at /\ stack'[t] = Append(stack[t], CallFrame(i))
    BY <1>0, <1>6 DEF Invoke, TypeOK
  <2>2. StackFacts(t)' /\ \A k \in DOMAIN stack'[t] : ~stack'[t][k].expired
    BY <1>0, <1>1, <2>1, PushedCall
  <2> QED
    BY <1>0, <1>2, <2>1, <2>2, ToPlace
<1> QED
  BY <1>3, <1>4, <1>5, <1>6

(* async_call after the function has returned. *)
LEMMA ReturnTold ==
    ASSUME Base, TypeOK', Grows, NEW t \in Tasks, Return(t)
    PROVE  StackFacts(t)' /\ PlaceFacts(t)'
<1>0. /\ TypeOK /\ CallInv /\ at[t] = "body" /\ at[t] \in Running
      /\ at[t] \notin Unwinding \cup {"done"}
      /\ UNCHANGED <<requests, thrown>> /\ InCall(t) /\ stack[t] # <<>>
  BY DEF Base, Return, Running, Unwinding, InCall
<1>1. PICK i \in Invs : i = Top(t).inv /\ i = Active(t) /\ i # None
  BY <1>0, TopCall, SkillAssumption
<1>2. Guard(t) = owner[i]
  BY <1>1 DEF Guard
<1>3. CASE CheckCancels(t, owner[i])
  <2>1. /\ at'[t] \in Unwinding
        /\ stack'[t] = Below(t) \/ stack'[t] = Append(Below(t), CallFrame(Top(t).inv))
    BY <1>0, <1>1, <1>3 DEF Return, CheckedOut, RequestStop, Leave, Goto, TypeOK, Unwinding
  <2> QED
    BY <1>0, <1>1, <1>2, <1>3, <2>1, CheckedStep DEF Reduced
<1>4. CASE ~CheckCancels(t, owner[i])
  <2>1. at'[t] \in {"Error", "body"} /\ stack'[t] = Below(t)
    BY <1>0, <1>1, <1>4 DEF Return, Leave, Goto, TypeOK
  <2> QED
    BY <1>0, <2>1, CalmStep DEF Reduced, Unwinding
<1> QED
  BY <1>3, <1>4

(* A careful body's steps, but for Spawn. *)
LEMMA BodyFacts ==
    ASSUME Base, TypeOK', Grows, NEW t \in Tasks, Body(t), ~ \E h \in Tasks : Spawn(t, h)
    PROVE  StackFacts(t)' /\ PlaceFacts(t)'
<1>0. TypeOK /\ "swallow" \notin BodyHabits /\ "touch" \notin BodyHabits
  BY DEF Base, Careful
<1>1. CASE CallOp(t) \/ ReportProgress(t)
  <2>1. /\ at[t] = "body" /\ at[t] \in Running /\ at[t] \notin Unwinding \cup {"done"}
        /\ Active(t) # None /\ UNCHANGED <<stack, requests, thrown>>
        /\ \/ CheckCancels(t, Guard(t)) /\ at'[t] = "CancelledError"
           \/ at'[t] \in {"Error", "sleep", "body"}
    BY <1>0, <1>1 DEF CallOp, ReportProgress, Check, Goto, TypeOK, Running, Unwinding
  <2>2. CASE CheckCancels(t, Guard(t)) /\ at'[t] = "CancelledError"
    BY <2>1, <2>2, CheckedStep DEF Reduced, Unwinding
  <2>3. CASE at'[t] \in {"Error", "sleep", "body"}
    BY <2>1, <2>3, CalmStep DEF Reduced, Unwinding
  <2> QED
    BY <2>1, <2>2, <2>3
<1>2. CASE Wait(t) \/ Raise(t) \/ HandleError(t)
  <2>1. /\ at[t] \in {"body", "Error"} /\ at'[t] \in {"wait", "body", "Error"}
        /\ UNCHANGED <<stack, requests, thrown>>
    BY <1>0, <1>2 DEF Wait, Raise, HandleError, Goto, TypeOK
  <2> QED
    BY <2>1, CalmStep DEF Reduced, Unwinding, Running
<1> QED
  BY <1>0, <1>1, <1>2, InvokeTold, ReturnTold, TimeoutFacts DEF Body, Swallow, TouchClient

-----------------------------------------------------------------------------
(* The steps that reach a task from outside. *)

(* A helper task is created. *)
LEMMA SpawnFacts ==
    ASSUME Base, TypeOK', Grows, NEW t \in Tasks, NEW h \in Tasks, Spawn(t, h),
           NEW u \in Tasks
    PROVE  StackFacts(u)' /\ PlaceFacts(u)'
<1>0. /\ TypeOK /\ CallInv /\ StackFacts(u) /\ PlaceFacts(u)
      /\ at[h] = "unborn" /\ at'[h] = "ready"
      /\ \A v \in Tasks : v # h => at'[v] = at[v]
      /\ UNCHANGED <<stack, thrown, requests>>
  BY DEF Base, TaskFacts, Spawn, TypeOK
<1>1. CASE u # h
  BY <1>0, <1>1, OtherTask
<1>2. CASE u = h
  <2>1. StackFacts(u)' /\ (AllTold(u) => AllTold(u)')
    BY <1>0, StackSame
  <2>2. PlaceFacts(u)'
    BY <1>0, <1>2, <2>1 DEF PlaceFacts, Expired, Unwinding, Running
  <2> QED
    BY <2>1, <2>2
<1> QED
  BY <1>1, <1>2

(* task.cancel() tells the roots that are open in the task. *)
LEMMA CancelFacts ==
    ASSUME Base, TypeOK', Grows, NEW t \in Tasks, Cancel(t), NEW u \in Tasks
    PROVE  StackFacts(u)' /\ PlaceFacts(u)'
<1>0. /\ TypeOK /\ CallInv /\ StackFacts(u) /\ PlaceFacts(u)
      /\ requests'[t] = requests[t] + 1 /\ requests[t] \in Nat /\ thrown'[t]
      /\ at[t] \in Running => "self" \in BodyHabits
      /\ \A v \in Tasks : v # t => requests'[v] = requests[v] /\ thrown'[v] = thrown[v]
      /\ UNCHANGED <<at, stack, owner>>
      /\ \A e \in Invs : e \in WorksFor(t) => asked'[e] # {}
  BY DEF Base, TaskFacts, Cancel, TypeOK
<1>1. CASE u # t
  BY <1>0, <1>1, OtherTask
<1>2. CASE u = t
  <2>1. ASSUME NEW k \in DOMAIN stack[t], RootAt(t, k)' PROVE RootAt(t, k) /\ Told(t, k)'
    <3>1. RootAt(t, k) /\ stack[t][k].inv \in Invs /\ phase[stack[t][k].inv] = "started"
      BY <1>0, <2>1, KnownFrame DEF RootAt, IsRoot, CallInv, FramesHeld, FrameHeld
    <3>2. ~closed[stack[t][k].inv]
      BY <1>0, <3>1 DEF CallInv, EndsClosed, Over
    <3>3. k > 0
      BY <1>0, StackShape
    <3>4. stack[t][k].inv \in WorksFor(t)
      BY <3>1, <3>2, <3>3 DEF WorksFor, RootsAbove, RootAt
    <3> QED
      BY <1>0, <3>1, <3>4 DEF Told
  <2>2. ASSUME NEW k \in DOMAIN stack[t] PROVE FrameFacts(t, k)'
    <3>1. FrameFacts(t, k) /\ stack[t][k] \in Frame
      BY <1>0, <1>2, KnownFrame DEF StackFacts
    <3>2. stack[t][k].base <= requests[t] => stack[t][k].base <= requests[t] + 1
      BY <1>0, <3>1 DEF Frame
    <3>3. GuardOpen(t, k)'
      BY <1>0, <3>1 DEF FrameFacts, GuardOpen, RootAt, IsRoot
    <3> QED
      BY <1>0, <2>1, <3>1, <3>2, <3>3 DEF FrameFacts
  <2>3. StackFacts(t)' /\ AllTold(t)'
    BY <1>0, <2>1, <2>2 DEF StackFacts, AllTold
  <2>4. PlaceFacts(t)'
    BY <1>0, <1>2, <2>3 DEF PlaceFacts, Expired
  <2> QED
    BY <1>2, <2>3, <2>4
<1> QED
  BY <1>1, <1>2

(* A timeout tells the roots inside it. *)
LEMMA ExpireFacts ==
    ASSUME Base, TypeOK', Grows, NEW t \in Tasks, Expire(t), NEW u \in Tasks
    PROVE  StackFacts(u)' /\ PlaceFacts(u)'
<1>0. /\ TypeOK /\ CallInv /\ StackFacts(u) /\ PlaceFacts(u)
      /\ at[t] \notin Running /\ thrown'[t]
      /\ \A v \in Tasks : v # t => thrown'[v] = thrown[v]
      /\ UNCHANGED <<at, requests, owner>>
  BY DEF Base, TaskFacts, Expire, LoopFree, TypeOK
<1>1. PICK x \in DOMAIN stack[t] :
           /\ ~stack[t][x].call
           /\ stack' = [stack EXCEPT ![t] = [@ EXCEPT ![x].expired = TRUE]]
           /\ asked' = [e \in Invs |-> IF e \in RootsAbove(t, x)
                                       THEN asked[e] \cup {t} ELSE asked[e]]
  BY DEF Expire
<1>2. /\ stack[t] \in Seq(Frame) /\ DOMAIN stack[t] = 1..Len(stack[t])
      /\ Len(stack[t]) \in Nat
  BY <1>0, StackShape
<1> DEFINE p == [stack[t] EXCEPT ![x].expired = TRUE]
<1>3. stack'[t] = p /\ \A v \in Tasks : v # t => stack'[v] = stack[v]
  BY <1>0, <1>1 DEF TypeOK
<1>4. CASE u # t
  BY <1>0, <1>3, <1>4, OtherTask
<1>5. CASE u = t
  <2>1. /\ \A k \in DOMAIN stack[t] : /\ p[k].inv = stack[t][k].inv
                                      /\ p[k].call = stack[t][k].call
                                      /\ p[k].base = stack[t][k].base
                                      /\ stack[t][k].expired => p[k].expired
                                      /\ k # x => p[k].expired = stack[t][k].expired
        /\ p[x].expired
        /\ DOMAIN p = DOMAIN stack[t]
    <3>1. \A k \in DOMAIN stack[t] : k # x => p[k] = stack[t][k]
      BY <1>2
    <3>2. stack[t][x] \in Frame /\ p[x] = [stack[t][x] EXCEPT !.expired = TRUE]
      BY <1>2, ElementOfSeq
    <3>3. /\ p[x].inv = stack[t][x].inv /\ p[x].call = stack[t][x].call
          /\ p[x].base = stack[t][x].base /\ p[x].expired
      BY <3>2 DEF Frame
    <3>4. DOMAIN p = DOMAIN stack[t]
      BY <1>2
    <3> HIDE DEF p
    <3> QED
      BY <3>1, <3>3, <3>4
  <2> HIDE DEF p
  <2>2. ASSUME NEW k \in DOMAIN stack[t], RootAt(t, k)'
        PROVE  /\ RootAt(t, k) /\ stack[t][k].inv \in Invs
               /\ Told(t, k) => Told(t, k)'
               /\ x < k => Told(t, k)'
    <3>1. RootAt(t, k) /\ stack[t][k].inv \in Invs
      BY <1>0, <1>3, <2>1, <2>2, KnownFrame DEF RootAt, IsRoot
    <3>2. x < k => stack[t][k].inv \in RootsAbove(t, x)
      BY <1>2, <3>1 DEF RootsAbove, RootAt
    <3> QED
      BY <1>1, <1>3, <2>1, <3>1, <3>2 DEF Told
  <2>3. ASSUME NEW k \in DOMAIN stack[t] PROVE FrameFacts(t, k)'
    <3>1. FrameFacts(t, k)
      BY <1>0, <1>5 DEF StackFacts
    <3>2. GuardOpen(t, k)'
      BY <1>0, <1>3, <2>1, <2>2, <3>1 DEF FrameFacts, GuardOpen
    <3>3. stack[t][k].call => k # x
      BY <1>1
    <3>4. RootAt(t, k)' => \A l \in DOMAIN stack[t] :
             l < k /\ p[l].expired => Told(t, k)'
      <4>1. ASSUME RootAt(t, k)', NEW l \in DOMAIN stack[t], l < k, p[l].expired
            PROVE  Told(t, k)'
        <5>1. RootAt(t, k) /\ (Told(t, k) => Told(t, k)') /\ (x < k => Told(t, k)')
          BY <2>2, <4>1
        <5>2. l = x \/ stack[t][l].expired
          BY <2>1, <4>1
        <5> QED
          BY <3>1, <4>1, <5>1, <5>2 DEF FrameFacts
      <4> QED
        BY <4>1
    <3>5. /\ stack'[t][k].call = stack[t][k].call /\ stack'[t][k].base = stack[t][k].base
          /\ DOMAIN stack'[t] = DOMAIN stack[t]
          /\ stack[t][k].call => stack'[t][k].expired = stack[t][k].expired
          /\ \A l \in DOMAIN stack[t] : stack'[t][l].expired => p[l].expired
      BY <1>3, <2>1, <3>3
    <3>6. RootAt(t, k)' => RootAt(t, k) /\ (Told(t, k) => Told(t, k)')
      BY <2>2
    <3> QED
      BY <1>0, <3>1, <3>2, <3>4, <3>5, <3>6 DEF FrameFacts
  <2>4. StackFacts(t)'
    BY <1>3, <2>1, <2>3 DEF StackFacts
  <2>5. AllTold(t)'
    <3>1. ASSUME NEW k \in DOMAIN stack[t], RootAt(t, k)'
          PROVE  Told(t, k)' \/ Excused(t, k)'
      <4>1. k # x
        BY <1>1, <2>2, <3>1 DEF RootAt
      <4>2. x < k \/ x > k
        BY <1>2, <4>1
      <4>3. x \in DOMAIN stack'[t] /\ stack'[t][x].expired
        BY <1>3, <2>1
      <4>4. x > k => Excused(t, k)'
        BY <4>3 DEF Excused
      <4>5. x < k => Told(t, k)'
        BY <2>2, <3>1
      <4> QED
        BY <4>2, <4>4, <4>5
    <3> QED
      BY <1>3, <2>1, <3>1 DEF AllTold
  <2>6. PlaceFacts(t)'
    BY <1>0, <2>5 DEF PlaceFacts
  <2> QED
    BY <1>5, <2>4, <2>6
<1> QED
  BY <1>4, <1>5

(* A task moves alone: only Spawn changes where another one is. *)
Alone(t) ==
    /\ at' = at \/ \E place : at' = [at EXCEPT ![t] = place]
    /\ stack' = stack \/ \E frames : stack' = [stack EXCEPT ![t] = frames]

(* The other tasks are where they were. *)
LEMMA LeftAlone ==
    ASSUME TypeOK, NEW t \in Tasks, Alone(t), NEW u \in Tasks, u # t
    PROVE  at'[u] = at[u] /\ stack'[u] = stack[u]
BY DEF Alone, TypeOK

(* All actions of a coroutine but Spawn are such. *)
LEMMA MovesAlone ==
    ASSUME NEW t \in Tasks, Unwind(t) \/ Body(t) \/ Loop(t), ~ \E h \in Tasks : Spawn(t, h)
    PROVE  Alone(t)
<1>1. CASE LeaveCancelled(t)
  BY <1>1 DEF LeaveCancelled, RequestStop, Leave, Goto, Alone
<1>2. CASE LeaveFailed(t)
  BY <1>2 DEF LeaveFailed, Leave, Goto, Alone
<1>3. CASE LeaveTimeout(t)
  BY <1>3 DEF LeaveTimeout, Goto, Alone
<1>4. CASE Finish(t)
  BY <1>4 DEF Finish, Goto, Alone
<1>5. ASSUME NEW i \in Invs, NEW e \in Invs, NEW refused, Invoke(t, i, e, refused)
      PROVE  Alone(t)
  <2>1. CASE CheckCancels(t, e) /\ i = e
    BY <1>5, <2>1 DEF Invoke, CheckedOut, RequestStop, Goto, Alone
  <2>2. CASE CheckCancels(t, e) /\ i # e
    BY <1>5, <2>2 DEF Invoke, CheckedOut, Leave, Goto, Alone
  <2>3. CASE ~CheckCancels(t, e)
    BY <1>5, <2>3 DEF Invoke, Leave, Goto, Alone
  <2> QED
    BY <2>1, <2>2, <2>3
<1>6. CASE Return(t)
  <2>1. PICK i : i = Top(t).inv
    OBVIOUS
  <2>2. CASE CheckCancels(t, owner[i]) /\ i = owner[i]
    BY <1>6, <2>1, <2>2 DEF Return, CheckedOut, RequestStop, Goto, Alone
  <2>3. CASE CheckCancels(t, owner[i]) /\ i # owner[i]
    BY <1>6, <2>1, <2>3 DEF Return, CheckedOut, Leave, Goto, Alone
  <2>4. CASE ~CheckCancels(t, owner[i])
    BY <1>6, <2>1, <2>4 DEF Return, Leave, Goto, Alone
  <2> QED
    BY <2>2, <2>3, <2>4
<1>7. CASE CallOp(t) \/ ReportProgress(t) \/ TouchClient(t)
  BY <1>7 DEF CallOp, ReportProgress, TouchClient, Check, Goto, Alone
<1>8. CASE EnterTimeout(t)
  BY <1>8 DEF EnterTimeout, Alone
<1>9. CASE Wait(t) \/ Raise(t) \/ HandleError(t) \/ Swallow(t)
  BY <1>9 DEF Wait, Raise, HandleError, Swallow, Goto, Alone
<1>10. CASE Resume(t) \/ OpReturns(t) \/ OpRaises(t) \/ KeepWaiting(t)
  BY <1>10 DEF Resume, OpReturns, OpRaises, KeepWaiting, Check, Goto, Alone
<1>11. CASE BeginOp(t)
  BY <1>11 DEF BeginOp, Check, Goto, Alone
<1>12. CASE StopAnswered(t)
  BY <1>12 DEF StopAnswered, Leave, Goto, Alone
<1> QED
  BY <1>1, <1>2, <1>3, <1>4, <1>5, <1>6, <1>7, <1>8, <1>9, <1>10, <1>11, <1>12
     DEF Unwind, Body, Loop

(* Every step keeps the facts about stacks and places. *)
LEMMA TasksStep ==
    ASSUME Base, TypeOK', Grows, [Next]_vars, NEW u \in Tasks
    PROVE  StackFacts(u)' /\ PlaceFacts(u)'
<1>0. TypeOK /\ CallInv /\ StackFacts(u) /\ PlaceFacts(u)
  BY DEF Base, TaskFacts
<1>1. ASSUME NEW t \in Tasks, Unwind(t) \/ Body(t) \/ Loop(t),
             ~ \E h \in Tasks : Spawn(t, h)
      PROVE  StackFacts(u)' /\ PlaceFacts(u)'
  <2>1. CASE u = t
    BY <1>1, <2>1, UnwindFacts, BodyFacts, LoopFacts
  <2>2. CASE u # t
    <3>1. UNCHANGED requests
      BY <1>1 DEF Unwind, LeaveCancelled, LeaveFailed, LeaveTimeout, Finish,
             Body, Return, CallOp, ReportProgress, EnterTimeout, Wait, Raise,
             HandleError, Swallow, TouchClient, Loop, Resume, BeginOp, OpReturns,
             OpRaises, KeepWaiting, StopAnswered, Invoke
    <3>2. thrown'[u] = thrown[u]
      BY <1>0, <1>1, <2>2 DEF Unwind, LeaveCancelled, LeaveFailed, LeaveTimeout, Finish,
             Body, Return, CallOp, ReportProgress, EnterTimeout, Wait, Raise,
             HandleError, Swallow, TouchClient, Loop, Resume, BeginOp, OpReturns,
             OpRaises, KeepWaiting, StopAnswered, Invoke, Resumed, TypeOK
    <3>3. at'[u] = at[u] /\ stack'[u] = stack[u]
      BY <1>0, <1>1, <2>2, MovesAlone, LeftAlone
    <3> QED
      BY <1>0, <3>1, <3>2, <3>3, OtherTask
  <2> QED
    BY <2>1, <2>2
<1>2. CASE UNCHANGED vars \/ \E e \in Invs : StopReply(e)
  BY <1>0, <1>2, OtherTask DEF vars, StopReply
<1> QED
  BY <1>1, <1>2, SpawnFacts, CancelFacts, ExpireFacts DEF Next

-----------------------------------------------------------------------------
(* Why a latch closes or a stop is requested: the root's task is in stop() *)
(* for it, or a check found a cancellation its own task asked for.         *)
Asks(t, e) == at'[t] = "stop" /\ Active(t)' = e
Checks(t) == "self" \in BodyHabits /\ requests[t] > 0 /\ requests' = requests

Cause(e) ==
    \/ (cancelled'[e] => cancelled[e]) /\ (stop[e] = "none" => stop'[e] = "none")
    \/ \E t \in Tasks : Asks(t, e)
    \/ (stop[e] = "none" => stop'[e] = "none") /\ \E t \in Tasks : Checks(t)

(* A root asks for the stop. *)
LEMMA StopAsks ==
    ASSUME TypeOK, NEW t \in Tasks, NEW i \in Invs, NEW below \in Seq(Frame),
           RequestStop(t, i, below), NEW e \in Invs
    PROVE  Cause(e)
<1>1. CASE e # i
  BY <1>1 DEF RequestStop, Cause, TypeOK
<1>2. CASE e = i
  <2>1. at'[t] = "stop" /\ stack'[t] = Append(below, CallFrame(i))
    BY DEF RequestStop, Goto, TypeOK
  <2>2. CallFrame(i) \in Frame /\ CallFrame(i).inv = i
    BY FrameTypes DEF CallFrame
  <2>3. Active(t)' = i
    BY <2>1, <2>2, PushShape DEF Active, Top
  <2> QED
    BY <1>2, <2>1, <2>3 DEF Cause, Asks
<1> QED
  BY <1>1, <1>2

(* A check latches what its task was asked. *)
LEMMA CheckAsks ==
    ASSUME Base, NEW t \in Tasks, NEW r,
           at[t] \notin Unwinding \cup {"done"}, at[t] \in Running \/ ~thrown[t],
           cancelled' = [cancelled EXCEPT ![r] = TRUE], CheckCancels(t, r),
           requests' = requests, NEW e \in Invs, stop'[e] = stop[e]
    PROVE  Cause(e)
<1>1. Cancelling(t) = requests[t] /\ ("self" \notin BodyHabits => requests[t] = 0)
  BY CalmFacts DEF Base, TaskFacts
<1>2. CASE cancelled[e] \/ e # r
  BY <1>2 DEF Cause, Base, TypeOK
<1>3. CASE ~cancelled[e] /\ e = r
  BY <1>1, <1>3 DEF Cause, Checks, CheckCancels
<1> QED
  BY <1>2, <1>3

(* One inside async_call's try does either. *)
LEMMA CheckedOutAsks ==
    ASSUME Base, NEW t \in Tasks, NEW i \in Invs, NEW r, NEW below \in Seq(Frame),
           at[t] = "body", CheckCancels(t, r), CheckedOut(t, i, r, below),
           requests' = requests, NEW e \in Invs
    PROVE  Cause(e)
<1>1. CASE i = r
  BY <1>1, StopAsks DEF CheckedOut, Base
<1>2. CASE i # r
  BY <1>2, CheckAsks DEF CheckedOut, Leave, Unwinding, Running
<1> QED
  BY <1>1, <1>2

(* There are no other causes. *)
LEMMA CauseStep ==
    ASSUME Base, Next, NEW e \in Invs
    PROVE  Cause(e)
<1>0. TypeOK /\ CallInv /\ "touch" \notin BodyHabits /\ "absorb" \notin BodyHabits
  BY DEF Base, Careful
<1>1. ASSUME UNCHANGED cancelled, stop[e] = "none" => stop'[e] = "none" PROVE Cause(e)
  BY <1>1 DEF Cause
<1>2. ASSUME NEW t \in Tasks, Unwind(t) PROVE Cause(e)
  <2>1. CASE LeaveCancelled(t)
    <3>1. Top(t).inv \in Invs /\ Below(t) \in Seq(Frame)
      BY <1>0, <2>1, TopCall, BelowShape DEF LeaveCancelled, InCall
    <3>2. CASE IsRoot(Top(t).inv)
      BY <1>0, <2>1, <3>1, <3>2, StopAsks DEF LeaveCancelled
    <3>3. CASE ~IsRoot(Top(t).inv)
      BY <1>1, <2>1, <3>3 DEF LeaveCancelled, Leave
    <3> QED
      BY <3>2, <3>3
  <2>2. CASE LeaveFailed(t) \/ LeaveTimeout(t) \/ Finish(t)
    BY <1>1, <2>2 DEF LeaveFailed, LeaveTimeout, Finish, Leave
  <2> QED
    BY <1>2, <2>1, <2>2 DEF Unwind
<1>3. ASSUME NEW t \in Tasks, NEW i \in Invs, NEW r \in Invs, NEW refused,
             Invoke(t, i, r, refused)
      PROVE  Cause(e)
  <2>1. CASE CheckCancels(t, r)
    <3>1. /\ CheckedOut(t, i, r, stack[t]) /\ at[t] = "body" /\ requests' = requests
          /\ stack[t] \in Seq(Frame)
      BY <1>0, <1>3, <2>1, StackShape DEF Invoke
    <3> QED
      BY <2>1, <3>1, CheckedOutAsks
  <2>2. CASE ~CheckCancels(t, r)
    BY <1>1, <1>3, <2>2 DEF Invoke, Leave
  <2> QED
    BY <2>1, <2>2
<1>4. ASSUME NEW t \in Tasks, Return(t) PROVE Cause(e)
  <2>1. PICK i \in Invs : i = Top(t).inv
    BY <1>0, <1>4, TopCall DEF Return
  <2>2. CASE CheckCancels(t, owner[i])
    <3>1. /\ CheckedOut(t, i, owner[i], Below(t)) /\ at[t] = "body"
          /\ requests' = requests /\ Below(t) \in Seq(Frame)
      BY <1>0, <1>4, <2>1, <2>2, BelowShape DEF Return, InCall
    <3> QED
      BY <2>2, <3>1, CheckedOutAsks
  <2>3. CASE ~CheckCancels(t, owner[i])
    BY <1>1, <1>4, <2>1, <2>3 DEF Return, Leave
  <2> QED
    BY <2>2, <2>3
<1>5. ASSUME NEW t \in Tasks, NEW place, Check(t, Guard(t), place),
             at[t] \notin Unwinding \cup {"done"}, at[t] \in Running \/ ~thrown[t],
             UNCHANGED <<requests, stop>>
      PROVE  Cause(e)
  <2>1. CASE CheckCancels(t, Guard(t))
    <3>1. cancelled' = [cancelled EXCEPT ![Guard(t)] = TRUE]
      BY <1>5, <2>1 DEF Check
    <3> QED
      BY <1>5, <2>1, <3>1, CheckAsks
  <2>2. CASE ~CheckCancels(t, Guard(t))
    <3>1. cancelled'[e] => cancelled[e]
      BY <1>0, <1>5, <2>2 DEF Check, TypeOK
    <3> QED
      BY <1>5, <3>1 DEF Cause
  <2> QED
    BY <2>1, <2>2
<1>6. ASSUME NEW t \in Tasks, CallOp(t) \/ ReportProgress(t) PROVE Cause(e)
  BY <1>5, <1>6 DEF CallOp, ReportProgress, Unwinding, Running
<1>7. ASSUME NEW t \in Tasks, BeginOp(t) \/ OpReturns(t) PROVE Cause(e)
  <2>1. CASE thrown[t]
    BY <1>0, <1>1, <1>7, <2>1 DEF BeginOp, OpReturns
  <2>2. CASE ~thrown[t]
    BY <1>5, <1>7, <2>2 DEF BeginOp, OpReturns, Unwinding
  <2> QED
    BY <2>1, <2>2
<1>8. ASSUME NEW t \in Tasks, Resume(t) \/ OpRaises(t) \/ KeepWaiting(t) \/ StopAnswered(t)
      PROVE  Cause(e)
  BY <1>1, <1>8 DEF Resume, OpRaises, KeepWaiting, StopAnswered, Leave
<1>9. ASSUME NEW t \in Tasks,
             \/ \E h \in Tasks : Spawn(t, h)
             \/ EnterTimeout(t) \/ Wait(t) \/ Raise(t) \/ HandleError(t) \/ Swallow(t)
             \/ Cancel(t) \/ Expire(t)
      PROVE  Cause(e)
  BY <1>1, <1>9 DEF Spawn, EnterTimeout, Wait, Raise, HandleError, Swallow, Cancel, Expire
<1>10. ASSUME NEW f \in Invs, StopReply(f) PROVE Cause(e)
  <2>1. stop[e] = "none" => stop'[e] = "none"
    BY <1>0, <1>10 DEF StopReply, TypeOK
  <2> QED
    BY <1>1, <1>10, <2>1 DEF StopReply
<1> QED
  BY <1>0, <1>2, <1>3, <1>4, <1>6, <1>7, <1>8, <1>9, <1>10 DEF Next, Body, Loop, TouchClient

-----------------------------------------------------------------------------
(* Only a call that begins opens a root in a task. *)

Shape(t) ==
    \/ Reduced(t)
    \/ \E n \in Nat : stack'[t] = Append(stack[t], TimeoutFrame(Active(t), n))
    \/ \E i \in Invs : phase[i] = "none" /\ stack'[t] = Append(stack[t], CallFrame(i))
    \/ \E x \in DOMAIN stack[t] : stack'[t] = [stack[t] EXCEPT ![x].expired = TRUE]

(* Every change of a stack is one of these. *)
LEMMA ShapeStep ==
    ASSUME TypeOK, CallInv, [Next]_vars, NEW u \in Tasks
    PROVE  Shape(u)
<1>1. ASSUME stack'[u] = stack[u] PROVE Shape(u)
  BY <1>1 DEF Shape, Reduced
<1>2. CASE Unwind(u)
  <2>1. CASE LeaveCancelled(u)
    BY <2>1 DEF LeaveCancelled, RequestStop, Leave, Shape, Reduced, InCall, TypeOK
  <2>2. CASE LeaveFailed(u)
    BY <2>2 DEF LeaveFailed, Leave, Shape, Reduced, InCall, TypeOK
  <2>3. CASE LeaveTimeout(u)
    BY <2>3 DEF LeaveTimeout, InTimeout, Shape, Reduced, TypeOK
  <2>4. CASE Finish(u)
    BY <1>1, <2>4 DEF Finish
  <2> QED
    BY <1>2, <2>1, <2>2, <2>3, <2>4 DEF Unwind
<1>3. ASSUME NEW i \in Invs, NEW e \in Invs, NEW refused, Invoke(u, i, e, refused)
      PROVE  Shape(u)
  <2>1. phase[i] = "none"
    BY <1>3 DEF Invoke, Fresh
  <2>2. stack'[u] = stack[u] \/ stack'[u] = Append(stack[u], CallFrame(i))
    BY <1>3 DEF Invoke, CheckedOut, RequestStop, Leave, TypeOK
  <2> QED
    BY <1>1, <2>1, <2>2 DEF Shape
<1>4. CASE Return(u)
  <2>1. InCall(u) /\ stack[u] # <<>>
    BY <1>4 DEF Return, InCall
  <2>2. PICK i : i = Top(u).inv
    OBVIOUS
  <2>3. stack'[u] = Below(u) \/ stack'[u] = Append(Below(u), CallFrame(i))
    BY <1>4, <2>2 DEF Return, CheckedOut, RequestStop, Leave, TypeOK
  <2> QED
    BY <2>1, <2>2, <2>3 DEF Shape, Reduced
<1>5. CASE EnterTimeout(u)
  BY <1>5, CancellingCounts DEF EnterTimeout, Shape, TypeOK
<1>6. CASE StopAnswered(u)
  <2>1. stack[u] # <<>>
    BY <1>6 DEF StopAnswered, CallInv, StopsAtRoot, InCall
  <2> QED
    BY <1>6, <2>1 DEF StopAnswered, Leave, Shape, Reduced, TypeOK
<1>7. CASE Expire(u)
  BY <1>7 DEF Expire, Shape, TypeOK
<1>8. CASE \/ Body(u) /\ ~Return(u) /\ ~EnterTimeout(u)
              /\ ~ \E i, e \in Invs, refused \in BOOLEAN : Invoke(u, i, e, refused)
           \/ Loop(u) /\ ~StopAnswered(u)
           \/ \E t \in Tasks : Cancel(t) \/ \E h \in Tasks : Spawn(t, h)
           \/ UNCHANGED vars
           \/ \E e \in Invs : StopReply(e)
  BY <1>1, <1>8 DEF Body, Spawn, CallOp, ReportProgress, Wait, Raise, HandleError, Swallow,
       TouchClient, Loop, Resume, BeginOp, OpReturns, OpRaises, KeepWaiting, Cancel, vars,
       StopReply
<1>9. ASSUME NEW t \in Tasks, t # u, Unwind(t) \/ Body(t) \/ Loop(t),
             ~ \E h \in Tasks : Spawn(t, h)
      PROVE  Shape(u)
  BY <1>1, <1>9, MovesAlone, LeftAlone
<1>10. ASSUME NEW t \in Tasks, t # u, Expire(t) PROVE Shape(u)
  BY <1>1, <1>10 DEF Expire, TypeOK
<1> QED
  BY <1>2, <1>3, <1>4, <1>5, <1>6, <1>7, <1>8, <1>9, <1>10 DEF Next

(* So a root that is open and had begun was open. *)
LEMMA RootsKept ==
    ASSUME Base, TypeOK', Grows, [Next]_vars, NEW u \in Tasks,
           NEW e \in RootsAbove(u, 0)', phase[e] # "none"
    PROVE  e \in RootsAbove(u, 0)
<1>0. TypeOK /\ CallInv /\ e \in Invs /\ owner[e] = e
  BY DEF Base, RootsAbove, IsRoot, Grows
<1>1. PICK l \in DOMAIN stack'[u] : l > 0 /\ stack'[u][l].call /\ stack'[u][l].inv = e
  BY DEF RootsAbove
<1>2. /\ stack[u] \in Seq(Frame) /\ DOMAIN stack[u] = 1..Len(stack[u])
      /\ Len(stack[u]) \in Nat
  BY <1>0, StackShape
<1>3. ASSUME l \in DOMAIN stack[u], stack[u][l].call, stack[u][l].inv = e
      PROVE  e \in RootsAbove(u, 0)
  BY <1>0, <1>1, <1>3 DEF RootsAbove, IsRoot
<1>4. CASE stack'[u] = stack[u]
  BY <1>1, <1>3, <1>4
<1>5. CASE stack[u] # <<>> /\ stack'[u] = Below(u)
  <2>1. l \in DOMAIN stack[u] /\ stack'[u][l] = stack[u][l]
    BY <1>0, <1>1, <1>2, <1>5, BelowShape
  <2> QED
    BY <1>1, <1>3, <2>1
<1>6. CASE InCall(u) /\ stack'[u] = Append(Below(u), CallFrame(Top(u).inv))
  <2>1. PICK i \in Invs : i = Top(u).inv
    BY <1>0, <1>6, TopCall
  <2>2. /\ Below(u) \in Seq(Frame) /\ Len(Below(u)) = Len(stack[u]) - 1
        /\ \A k \in 1..(Len(stack[u]) - 1) : Below(u)[k] = stack[u][k]
        /\ Len(stack[u]) > 0
    BY <1>0, <1>6, BelowShape, StackShape DEF InCall
  <2>3. CallFrame(i) \in Frame /\ CallFrame(i).inv = i
    BY FrameTypes DEF CallFrame
  <2>4. CASE l \in 1..(Len(stack[u]) - 1)
    <3>1. stack'[u][l] = stack[u][l] /\ l \in DOMAIN stack[u]
      BY <1>2, <1>6, <2>1, <2>2, <2>3, <2>4, PushShape
    <3> QED
      BY <1>1, <1>3, <3>1
  <2>5. CASE l = Len(stack[u])
    <3>1. stack'[u][l] = CallFrame(i) /\ l \in DOMAIN stack[u]
      BY <1>2, <1>6, <2>1, <2>2, <2>3, <2>5, PushShape
    <3> QED
      BY <1>1, <1>3, <1>6, <2>1, <2>3, <2>5, <3>1 DEF InCall, Top
  <2>6. l \in 1..Len(stack[u])
    BY <1>1, <1>2, <1>6, <2>1, <2>2, <2>3, PushShape
  <2> QED
    BY <1>2, <2>4, <2>5, <2>6
<1>7. ASSUME NEW f \in Frame, stack'[u] = Append(stack[u], f), f.call => f.inv # e
      PROVE  e \in RootsAbove(u, 0)
  <2>1. /\ DOMAIN stack'[u] = 1..(Len(stack[u]) + 1)
        /\ \A k \in 1..Len(stack[u]) : stack'[u][k] = stack[u][k]
        /\ stack'[u][Len(stack[u]) + 1] = f
    BY <1>2, <1>7, PushShape
  <2>2. l \in 1..Len(stack[u])
    BY <1>1, <1>2, <1>7, <2>1
  <2> QED
    BY <1>1, <1>2, <1>3, <2>1, <2>2
<1>8. ASSUME NEW x \in DOMAIN stack[u], stack'[u] = [stack[u] EXCEPT ![x].expired = TRUE]
      PROVE  e \in RootsAbove(u, 0)
  <2>1. /\ Len(stack'[u]) = Len(stack[u])
        /\ \A k \in 1..Len(stack[u]) : /\ stack'[u][k].inv = stack[u][k].inv
                                       /\ stack'[u][k].call = stack[u][k].call
        /\ stack'[u] \in Seq(Frame)
    BY <1>2, <1>8, ExpireStack
  <2>2. l \in 1..Len(stack[u])
    BY <1>1, <2>1, LenProperties
  <2> QED
    BY <1>1, <1>2, <1>3, <2>1, <2>2
<1>9. ASSUME NEW n \in Nat, stack'[u] = Append(stack[u], TimeoutFrame(Active(u), n))
      PROVE  e \in RootsAbove(u, 0)
  <2>1. /\ TimeoutFrame(Active(u), n) \in Frame /\ ~TimeoutFrame(Active(u), n).call
    BY <1>0, StackTypes, FrameTypes DEF TimeoutFrame
  <2> QED
    BY <1>7, <1>9, <2>1
<1>10. ASSUME NEW i \in Invs, phase[i] = "none", stack'[u] = Append(stack[u], CallFrame(i))
       PROVE  e \in RootsAbove(u, 0)
  <2>1. CallFrame(i) \in Frame /\ CallFrame(i).inv # e
    BY <1>10, FrameTypes DEF CallFrame
  <2> QED
    BY <1>7, <1>10, <2>1
<1> QED
  BY <1>0, <1>4, <1>5, <1>6, <1>8, <1>9, <1>10, ShapeStep DEF Shape, Reduced

(* A root that waits in stop() stays there until its call is over. *)
LEMMA StopStays ==
    ASSUME Base, [Next]_vars, NEW u \in Tasks, at[u] = "stop"
    PROVE  \/ at'[u] = "stop" /\ Active(u)' = Active(u)
           \/ Active(u) \in Invs /\ phase'[Active(u)] \in Over
<1>0. TypeOK /\ InCall(u) /\ stack[u] # <<>> /\ Active(u) \in Invs
  <2>1. TypeOK /\ CallInv /\ InCall(u)
    BY DEF Base, CallInv, StopsAtRoot
  <2> QED
    BY <2>1, TopCall DEF InCall
<1>1. ASSUME at'[u] = at[u], stack'[u] = stack[u]
      PROVE  at'[u] = "stop" /\ Active(u)' = Active(u)
  BY <1>0, <1>1 DEF Active, Top
<1>2. ASSUME NEW t \in Tasks, t # u, Unwind(t) \/ Body(t) \/ Loop(t),
             ~ \E h \in Tasks : Spawn(t, h)
      PROVE  at'[u] = "stop" /\ Active(u)' = Active(u)
  BY <1>0, <1>1, <1>2, MovesAlone, LeftAlone
<1>3. ASSUME NEW t \in Tasks,
             (\E h \in Tasks : Spawn(t, h)) \/ Cancel(t) \/ (t # u /\ Expire(t))
      PROVE  at'[u] = "stop" /\ Active(u)' = Active(u)
  BY <1>0, <1>1, <1>3 DEF Spawn, Cancel, Expire, TypeOK
<1>4. CASE Expire(u)
  <2>1. PICK x \in DOMAIN stack[u] : stack'[u] = [stack[u] EXCEPT ![x].expired = TRUE]
    BY <1>0, <1>4 DEF Expire, TypeOK
  <2>2. /\ stack[u] \in Seq(Frame) /\ Len(stack[u]) \in 1..Len(stack[u])
    BY <1>0, StackShape
  <2>3. /\ Len(stack'[u]) = Len(stack[u])
        /\ \A k \in 1..Len(stack[u]) : stack'[u][k].inv = stack[u][k].inv
        /\ stack'[u] \in Seq(Frame)
    BY <2>1, <2>2, ExpireStack
  <2>4. stack'[u] # <<>>
    BY <2>2, <2>3, EmptySeq
  <2>5. at'[u] = "stop"
    BY <1>4 DEF Expire
  <2> QED
    BY <1>0, <2>2, <2>3, <2>4, <2>5 DEF Active, Top
<1>5. CASE StopAnswered(u)
  BY <1>0, <1>5 DEF StopAnswered, Leave, Over, TypeOK
<1>6. CASE (Unwind(u) \/ Body(u) \/ Loop(u)) /\ ~StopAnswered(u)
  <2>1. KeepWaiting(u)
    BY <1>6 DEF Unwind, LeaveCancelled, LeaveFailed, LeaveTimeout, Finish,
             Body, Spawn, Return, CallOp, ReportProgress, EnterTimeout, Wait, Raise,
             HandleError, Swallow, TouchClient, Loop, Resume, BeginOp, OpReturns,
             OpRaises, Invoke, Running
  <2> QED
    BY <1>1, <2>1 DEF KeepWaiting
<1>7. CASE UNCHANGED vars \/ \E e \in Invs : StopReply(e)
  BY <1>1, <1>7 DEF vars, StopReply
<1> QED
  BY <1>0, <1>2, <1>3, <1>4, <1>5, <1>6, <1>7 DEF Next

(* Nothing takes a task.cancel() back. *)
LEMMA RequestsGrow ==
    ASSUME TypeOK, [Next]_vars, NEW t \in Tasks, requests[t] > 0
    PROVE  requests'[t] > 0
<1>1. ASSUME NEW u \in Tasks, Cancel(u) PROVE requests'[t] > 0
  BY <1>1 DEF Cancel, TypeOK
<1>2. ASSUME NEW u \in Tasks, Unwind(u) \/ Loop(u) \/ Expire(u) PROVE requests' = requests
  BY <1>2 DEF Unwind, LeaveCancelled, LeaveFailed, LeaveTimeout, Finish, Loop, Resume,
              BeginOp, OpReturns, OpRaises, KeepWaiting, StopAnswered, Expire
<1>3. ASSUME NEW u \in Tasks, Body(u) PROVE requests' = requests
  BY <1>3 DEF Body, Spawn, Invoke, Return, CallOp, ReportProgress, EnterTimeout, Wait,
              Raise, HandleError, Swallow, TouchClient
<1>4. CASE UNCHANGED vars \/ \E e \in Invs : StopReply(e)
  BY <1>4 DEF vars, StopReply
<1> QED
  BY <1>1, <1>2, <1>3, <1>4 DEF Next

(* A root whose call is open in a task was called by it. *)
LEMMA OpenRunner ==
    ASSUME TypeOK, CallInv, NEW u \in Tasks, NEW e \in RootsAbove(u, 0)
    PROVE  runner[e] = u /\ phase[e] = "started" /\ e \in Invs
BY DEF RootsAbove, CallInv, FramesHeld, FrameHeld

(* In stop() the innermost call is the root's. *)
LEMMA StopRunner ==
    ASSUME TypeOK, CallInv, NEW t \in Tasks, at[t] = "stop"
    PROVE  runner[Active(t)] = t /\ RootAt(t, Len(stack[t]))
           /\ Len(stack[t]) \in DOMAIN stack[t] /\ Active(t) = stack[t][Len(stack[t])].inv
<1>1. InCall(t) /\ IsRoot(Top(t).inv) /\ stack[t] # <<>>
  BY DEF CallInv, StopsAtRoot, InCall
<1> QED
  BY <1>1, TopCall, StackShape DEF RootAt, InCall, Top

(* A latched root knows why. *)
LEMMA LatchStep ==
    ASSUME Base, TypeOK', CallInv', Grows, [Next]_vars, NEW u \in Tasks
    PROVE  LatchFacts(u)'
<1> SUFFICES ASSUME NEW e \in RootsAbove(u, 0)', cancelled'[e]
             PROVE  requests'[u] > 0 \/ (at'[u] = "stop" /\ Active(u)' = e)
  BY DEF LatchFacts
<1>0. TypeOK /\ CallInv /\ e \in Invs
  BY DEF Base, RootsAbove
<1>1. runner'[e] = u /\ phase'[e] = "started"
  BY DEF RootsAbove, CallInv, FramesHeld, FrameHeld
<1>2. CASE cancelled[e]
  <2>1. phase[e] # "none"
    BY <1>0, <1>2 DEF CallInv, Known
  <2>2. e \in RootsAbove(u, 0)
    BY <2>1, RootsKept
  <2>3. requests[u] > 0 \/ (at[u] = "stop" /\ Active(u) = e)
    BY <1>2, <2>2 DEF Base, TaskFacts, LatchFacts
  <2>4. ASSUME at[u] = "stop", Active(u) = e PROVE at'[u] = "stop" /\ Active(u)' = e
    BY <1>1, <2>4, StopStays DEF Over
  <2> QED
    BY <1>0, <2>3, <2>4, RequestsGrow
<1>3. CASE ~cancelled[e] /\ Next
  <2>1. \E t \in Tasks : Asks(t, e) \/ Checks(t)
    BY <1>0, <1>3, CauseStep DEF Cause
  <2>2. ASSUME NEW t \in Tasks, Checks(t) PROVE requests'[u] > 0
    <3>1. t = u
      BY <2>2 DEF Checks, Base, Careful
    <3> QED
      BY <2>2, <3>1 DEF Checks
  <2>3. ASSUME NEW t \in Tasks, Asks(t, e) PROVE t = u
    <3>1. /\ stack'[t] # <<>> /\ stack'[t][Len(stack'[t])].call
          /\ stack'[t][Len(stack'[t])].inv = e
      BY <2>3 DEF CallInv, StopsAtRoot, InCall, Top, Asks, Active
    <3>2. Len(stack'[t]) \in DOMAIN stack'[t]
      BY <3>1, EmptySeq, LenProperties DEF TypeOK
    <3>3. runner'[e] = t
      BY <3>1, <3>2 DEF CallInv, FramesHeld, FrameHeld
    <3> QED
      BY <1>1, <3>3
  <2> QED
    BY <2>1, <2>2, <2>3 DEF Asks
<1>4. CASE ~cancelled[e] /\ UNCHANGED vars
  BY <1>4 DEF vars
<1> QED
  BY <1>2, <1>3, <1>4

(* All facts together. *)
LEMMA FactsStep ==
    ASSUME Base, TypeOK', CallInv', [Next]_vars
    PROVE  TaskFacts'
BY GrowsStep, TasksStep, LatchStep DEF TaskFacts, Base

(* What asks for the stop was told to. *)
LEMMA StopAskedStep ==
    ASSUME Base, TypeOK', CallInv', [Next]_vars, StopOnlyWhenAsked
    PROVE  StopOnlyWhenAsked'
<1>0. TypeOK /\ CallInv /\ Grows /\ TaskFacts'
  BY GrowsStep, FactsStep DEF Base
<1>1. ASSUME NEW e \in Invs, stop'[e] # "none", stop[e] # "none" PROVE asked'[e] # {}
  BY <1>0, <1>1 DEF StopOnlyWhenAsked, CallInv, Known, Grows
<1>2. ASSUME NEW e \in Invs, stop'[e] # "none", stop[e] = "none", Next PROVE asked'[e] # {}
  <2>1. PICK t \in Tasks : Asks(t, e)
    BY <1>2, CauseStep DEF Cause
  <2>2. PICK n : n = Len(stack'[t])
    OBVIOUS
  <2>3. /\ stack'[t] # <<>> /\ stack'[t][n].call /\ stack'[t][n].inv = e
        /\ IsRoot(e)' /\ at'[t] = "stop"
    BY <2>1, <2>2 DEF CallInv, StopsAtRoot, InCall, Top, Asks, Active
  <2>5. /\ n \in DOMAIN stack'[t]
        /\ \A l \in DOMAIN stack'[t] : ~(l > n)
    BY <2>2, <2>3, EmptySeq, LenProperties DEF TypeOK
  <2>4. AllTold(t)'
    BY <1>0, <2>3 DEF TaskFacts, PlaceFacts, Unwinding
  <2> QED
    BY <2>3, <2>4, <2>5 DEF AllTold, RootAt, Told, Excused
<1>3. CASE UNCHANGED vars
  BY <1>3 DEF vars, StopOnlyWhenAsked
<1> QED
  BY <1>1, <1>2, <1>3 DEF StopOnlyWhenAsked

-----------------------------------------------------------------------------
(* The arm is asked to stop only for an execution one of whose tasks was   *)
(* cancelled from outside it, whatever timeouts fire and however calls and *)
(* tasks nest, as long as the bodies are careful: async_call turns a       *)
(* CancelledError into a stop at the root only, and asyncio.timeout has    *)
(* taken its own back by then.                                             *)
THEOREM StopsOnlyWhenAsked ==
    ASSUME Careful
    PROVE  Spec => []StopOnlyWhenAsked
<1> DEFINE Inv == TaskFacts /\ StopOnlyWhenAsked
<1>1. Init => Inv
  <2> SUFFICES ASSUME Init PROVE Inv
    OBVIOUS
  <2>1. /\ \A t \in Tasks : /\ DOMAIN stack[t] = {} /\ requests[t] = 0 /\ ~thrown[t]
                            /\ at[t] \in {"ready", "unborn"}
        /\ StopOnlyWhenAsked
        /\ \A e \in Invs : ~cancelled[e]
    BY EmptySeq DEF Init, StopOnlyWhenAsked
  <2> QED
    BY <2>1 DEF TaskFacts, StackFacts, PlaceFacts, LatchFacts, RootsAbove, AllTold,
                Expired, Unwinding, Running
<1>2. SkillInv /\ SkillInv' /\ Inv /\ [Next]_vars => Inv'
  <2> SUFFICES ASSUME SkillInv, SkillInv', TaskFacts, StopOnlyWhenAsked, [Next]_vars
               PROVE  TaskFacts' /\ StopOnlyWhenAsked'
    OBVIOUS
  <2>1. Base /\ TypeOK' /\ CallInv'
    BY DEF SkillInv, LatchInv, Base
  <2> QED
    BY <2>1, FactsStep, StopAskedStep
<1>3. Inv => StopOnlyWhenAsked
  OBVIOUS
<1> HIDE DEF Inv
<1> QED
  BY <1>1, <1>2, <1>3, SkillInvariant, PTL DEF Spec
=============================================================================

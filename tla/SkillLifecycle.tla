--------------------------- MODULE SkillLifecycle ---------------------------
(***************************************************************************)
(* What one execution (a root skill invocation and everything that shares  *)
(* its guarded client) promises, whatever its tasks do: it runs, it ends   *)
(* in one way, client operations begin only while it runs and no           *)
(* cancellation was seen, and the arm is asked to stop at most once, only  *)
(* between running and "cancelled".                                        *)
(***************************************************************************)
CONSTANTS Executions, Users

Ended == {"completed", "failed", "cancelled", "torn"}
Statuses == {"idle", "running", "stopping"} \cup Ended
Answers == {"confirmed", "unconfirmed", "torn"}

VARIABLES
    status,   \* Executions -> Statuses
    sealed,   \* a cancellation was seen: no operation begins any more
    answer,   \* what became of the stop request
    using     \* the users with a client operation in progress

lifecycleVars == <<status, sealed, answer, using>>

LifecycleTypeOK ==
    /\ status \in [Executions -> Statuses]
    /\ sealed \in [Executions -> BOOLEAN]
    /\ answer \in [Executions -> {"none", "pending"} \cup Answers]
    /\ using \in [Executions -> SUBSET Users]

Init ==
    /\ status = [e \in Executions |-> "idle"]
    /\ sealed = [e \in Executions |-> FALSE]
    /\ answer = [e \in Executions |-> "none"]
    /\ using = [e \in Executions |-> {}]

(* The call begins; it may be refused, or be cancelled before its body. *)
Start(e) ==
    /\ status[e] = "idle"
    /\ \/ \E s \in {"running", "failed"} : status' = [status EXCEPT ![e] = s]
          /\ UNCHANGED <<sealed, answer>>
       \/ /\ status' = [status EXCEPT ![e] = "stopping"]
          /\ sealed' = [sealed EXCEPT ![e] = TRUE]
          /\ answer' = [answer EXCEPT ![e] = "pending"]
    /\ UNCHANGED using

BeginUse(e, u) ==
    /\ status[e] = "running"
    /\ ~sealed[e]
    /\ using' = [using EXCEPT ![e] = @ \cup {u}]
    /\ UNCHANGED <<status, sealed, answer>>

(* An operation ends, perhaps because a cancellation was seen. *)
EndUse(e, u) ==
    /\ u \in using[e]
    /\ using' = [using EXCEPT ![e] = @ \ {u}]
    /\ \/ UNCHANGED sealed
       \/ sealed' = [sealed EXCEPT ![e] = TRUE]
    /\ UNCHANGED <<status, answer>>

Seal(e) ==
    /\ status[e] # "idle"
    /\ sealed' = [sealed EXCEPT ![e] = TRUE]
    /\ UNCHANGED <<status, answer, using>>

(* Success needs that no cancellation was seen. *)
End(e) ==
    /\ status[e] = "running"
    /\ \/ ~sealed[e] /\ status' = [status EXCEPT ![e] = "completed"]
       \/ status' = [status EXCEPT ![e] = "failed"]
    /\ UNCHANGED <<sealed, answer, using>>

RequestStop(e) ==
    /\ status[e] = "running"
    /\ status' = [status EXCEPT ![e] = "stopping"]
    /\ sealed' = [sealed EXCEPT ![e] = TRUE]
    /\ answer' = [answer EXCEPT ![e] = "pending"]
    /\ UNCHANGED using

Answer(e) ==
    /\ answer[e] = "pending"
    /\ \E a \in Answers : answer' = [answer EXCEPT ![e] = a]
    /\ UNCHANGED <<status, sealed, using>>

(* The call ends once the request did; a torn request is never reported. *)
Report(e) ==
    /\ status[e] = "stopping"
    /\ answer[e] \in Answers
    /\ status' = [status EXCEPT ![e] = IF answer[e] = "torn" THEN "torn"
                                       ELSE "cancelled"]
    /\ UNCHANGED <<sealed, answer, using>>

Next ==
    \E e \in Executions :
        \/ Start(e) \/ Seal(e) \/ End(e) \/ RequestStop(e) \/ Answer(e) \/ Report(e)
        \/ \E u \in Users : BeginUse(e, u) \/ EndUse(e, u)

Spec == Init /\ [][Next]_lifecycleVars
=============================================================================

-------------------------- MODULE MCSkillExecution --------------------------
(* Small instances of SkillExecution for TLC. *)
EXTENDS SkillExecution

TwoInvs == {1, 2}
AllHabits == Habits
NoHabits == {}
OnlySelf == {"self"}
OnlyTouch == {"touch"}
AllOutcomes == Outcomes
AnsweredOutcomes == {"confirmed", "unconfirmed"}
OnlyTorn == {"torn"}

(* Main does all that the constants allow while it is alone.  Beside a     *)
(* second task each is cancelled once, two calls or timeouts are open at a *)
(* time, no body swallows a cancellation or cancels its own task, and the  *)
(* stop is confirmed or torn.                                              *)
Alone == \A t \in Tasks \ {Main} : at'[t] = "unborn"
SmallerBeside ==
    \/ Alone
    \/ /\ \A t \in Tasks : /\ requests'[t] <= 1 /\ Len(stack'[t]) <= 2
                           /\ ~Swallow(t) /\ (Cancel(t) => at[t] \notin Running)
       /\ \A e \in Invs : stop'[e] # "unconfirmed"
=============================================================================

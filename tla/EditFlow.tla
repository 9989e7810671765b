----------------------------- MODULE EditFlow -----------------------------
(***************************************************************************)
(* waldoctl/programs.py: the proposed edits of one program.                *)
(*                                                                         *)
(* Everything runs on the UI thread, but approve() assigns Program.source  *)
(* and so runs the bindings on source inside the call: what they do comes  *)
(* between the assignment and the removal of the edit.  approving is the   *)
(* stack of approve() calls suspended there.                               *)
(***************************************************************************)
EXTENDS UnifiedDiff

CONSTANTS
    Sources,       \* texts the user may turn the program's source into
    Diffs,         \* the diffs that are proposed
    Descriptions,  \* their descriptions
    MaxEdits,      \* bound: edits that are queued, their ids 1..MaxEdits
    MaxNested,     \* bound: approve() calls open at once
    MaxDecisions,  \* bound: times one edit is applied (more than once!)
    Bindings       \* what bindings on source do besides reading it

BindingHabits == {"type", "propose", "decide", "raise"}
EditIds == 1..MaxEdits

ASSUME EditAssumption ==
    /\ MaxEdits \in Nat
    /\ MaxNested \in Nat
    /\ MaxDecisions \in Nat
    /\ Bindings \subseteq BindingHabits

VARIABLES
    source,     \* Program.source
    pending,    \* EditFlow.pending
    issued,     \* the number of edits queued so far (uuid4 in the code)
    approving,  \* approve() calls inside the assignment of source
    decided,    \* history: how often an edit was applied or rejected
    meddled     \* history: a binding decided an edit, or raised

vars == <<source, pending, issued, approving, decided, meddled>>

PendingEdit == [id : EditIds, diff : Diffs, description : Descriptions]

TypeOK ==
    /\ pending \in Seq(PendingEdit)
    /\ issued \in 0..MaxEdits
    /\ approving \in Seq(Nat)
    /\ decided \in [EditIds -> Nat]
    /\ meddled \in BOOLEAN

PendingIds == {pending[k].id : k \in DOMAIN pending}

(* A call comes from the application, or from a binding that makes such    *)
(* calls while approve() assigns source.                                   *)
MayCall(habit) == approving = <<>> \/ habit \in Bindings

(* self.pending without its entry k, by slices: past the end, all of it.   *)
Without(k) == IF k \in DOMAIN pending THEN RemoveAt(pending, k) ELSE pending

Queued(diff, description) ==
    \E k \in DOMAIN pending :
        pending[k].diff = diff /\ pending[k].description = description

(* Fault: ids count from zero. *)
QueueFromZero(diff, description) ==
    /\ issued < MaxEdits
    /\ issued' = issued + 1
    /\ pending' = Append(pending, [id |-> issued, diff |-> diff,
                                   description |-> description])
    /\ UNCHANGED <<source, approving, decided, meddled>>

Queue(diff, description) ==
    /\ issued < MaxEdits
    /\ issued' = issued + 1
    /\ pending' = Append(pending, [id |-> issued + 1, diff |-> diff,
                                   description |-> description])
    /\ UNCHANGED <<source, approving, decided, meddled>>

(* Fault: a repeated proposal is queued again. *)
ProposeTwice(diff, description) ==
    /\ MayCall("propose")
    /\ Applies(source, diff)
    /\ Queue(diff, description)

(* propose(): a diff that applies now is queued; a repetition is answered  *)
(* with the id already pending and changes nothing.                        *)
Propose(diff, description) ==
    /\ MayCall("propose")
    /\ Applies(source, diff)
    /\ ~Queued(diff, description)
    /\ Queue(diff, description)

Decide(id) ==
    /\ decided' = [decided EXCEPT ![id] = @ + 1]
    /\ meddled' = (meddled \/ approving # <<>>)

(* Fault: a source that stays the same leaves the edit pending. *)
ApproveKeepsUnchanged(k) ==
    /\ MayCall("decide")
    /\ Len(approving) < MaxNested
    /\ k \in DOMAIN pending
    /\ decided[pending[k].id] < MaxDecisions
    /\ Applies(source, pending[k].diff)
    /\ source' = Patched(source, pending[k].diff)
    /\ approving' = IF source' = source THEN approving
                    ELSE Append(approving, k)
    /\ Decide(pending[k].id)
    /\ UNCHANGED <<pending, issued>>

(* approve() up to the bindings: the diff is applied to the source of now. *)
(* A source that stays the same fires no binding.                          *)
Approve(k) ==
    /\ MayCall("decide")
    /\ Len(approving) < MaxNested
    /\ k \in DOMAIN pending
    /\ decided[pending[k].id] < MaxDecisions
    /\ Applies(source, pending[k].diff)
    /\ source' = Patched(source, pending[k].diff)
    /\ Decide(pending[k].id)
    /\ IF source' = source
       THEN pending' = Without(k) /\ UNCHANGED approving
       ELSE approving' = Append(approving, k) /\ UNCHANGED pending
    /\ UNCHANGED issued

(* Fault: the entry behind the approved one is dropped. *)
FinishApproveNext ==
    /\ approving # <<>>
    /\ pending' = Without(Last(approving) + 1)
    /\ approving' = Front(approving)
    /\ UNCHANGED <<source, issued, decided, meddled>>

(* Back from the bindings: pending, read again, loses the entry at the     *)
(* index found before.                                                     *)
FinishApprove ==
    /\ approving # <<>>
    /\ pending' = Without(Last(approving))
    /\ approving' = Front(approving)
    /\ UNCHANGED <<source, issued, decided, meddled>>

(* A binding raises out of the assignment, and approve() with it.          *)
AbortApprove ==
    /\ approving # <<>>
    /\ "raise" \in Bindings
    /\ approving' = Front(approving)
    /\ meddled' = TRUE
    /\ UNCHANGED <<source, pending, issued, decided>>

(* reject(). *)
Reject(k) ==
    /\ MayCall("decide")
    /\ k \in DOMAIN pending
    /\ pending' = Without(k)
    /\ Decide(pending[k].id)
    /\ UNCHANGED <<source, issued, approving>>

(* The user, or a binding that normalises the text, assigns source. *)
Type(text) ==
    /\ MayCall("type")
    /\ source # text
    /\ source' = text
    /\ UNCHANGED <<pending, issued, approving, decided, meddled>>

Init ==
    /\ source \in Sources
    /\ pending = <<>>
    /\ issued = 0
    /\ approving = <<>>
    /\ decided = [id \in EditIds |-> 0]
    /\ meddled = FALSE

Next ==
    \/ \E diff \in Diffs, description \in Descriptions : Propose(diff, description)
    \/ \E k \in DOMAIN pending : Approve(k) \/ Reject(k)
    \/ FinishApprove
    \/ AbortApprove
    \/ \E text \in Sources : Type(text)

Spec == Init /\ [][Next]_vars

-----------------------------------------------------------------------------
(* No two pending edits are the same proposal: repeating a call whose      *)
(* answer was lost (propose's docstring: a retry after a transport         *)
(* timeout) queues nothing, also while another edit is being approved.     *)
NoTwins ==
    \A j, k \in DOMAIN pending :
        /\ pending[j].diff = pending[k].diff
        /\ pending[j].description = pending[k].description
        => j = k

(* Unless a binding on source decides edits or raises, no edit is decided  *)
(* twice: once applied or rejected its diff never reaches the source again.*)
DecidedOnce == ~meddled => \A id \in EditIds : decided[id] <= 1

(* Unless a binding did so, every edit that was queued is between calls    *)
(* either pending or decided, not both: an approval drops the edit it      *)
(* applied and no other, although proposals and typing come in between.    *)
EveryEditAccounted ==
    approving = <<>> /\ ~meddled =>
        \A id \in 1..issued : decided[id] = (IF id \in PendingIds THEN 0 ELSE 1)

(* approve() ends with its edit applied and dropped (its docstring: "Apply *)
(* the edit's diff to the program's source, then drop it").                *)
ApprovedIsDropped ==
    approving = <<>> => \A id \in PendingIds : decided[id] = 0
=============================================================================

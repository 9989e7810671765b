--------------------------- MODULE EditFlowProofs ---------------------------
(***************************************************************************)
(* Machine-checked facts about EditFlow, for any texts, any diffs and any  *)
(* number of edits.  How a diff is applied plays no part in them.          *)
(***************************************************************************)
EXTENDS EditFlow, SequenceTheorems, TLAPS

-----------------------------------------------------------------------------
(* Taking one entry out of a sequence keeps the others, in their order.    *)
LEMMA RemoveAtKeeps ==
    ASSUME NEW S, NEW s \in Seq(S), NEW k \in DOMAIN s
    PROVE  /\ RemoveAt(s, k) \in Seq(S)
           /\ Len(RemoveAt(s, k)) = Len(s) - 1
           /\ \A j \in 1..(Len(s) - 1) :
                 RemoveAt(s, k)[j] = IF j < k THEN s[j] ELSE s[j + 1]
<1> DEFINE n == Len(s)
           a == SubSeq(s, 1, k - 1)
           b == SubSeq(s, k + 1, n)
<1>1. n \in Nat /\ k \in 1..n /\ \A j \in 1..n : s[j] \in S
  BY LenProperties, ElementOfSeq
<1>2. /\ a \in Seq(S)
      /\ Len(a) = IF 1 <= k - 1 THEN k - 1 - 1 + 1 ELSE 0
      /\ \A j \in 1..(k - 1 - 1 + 1) : a[j] = s[1 + j - 1]
  <2>1. 1 \in Int /\ k - 1 \in Int /\ \A j \in 1..(k - 1) : s[j] \in S
    BY <1>1
  <2> QED
    BY <2>1, SubSeqProperties
<1>3. /\ b \in Seq(S)
      /\ Len(b) = IF k + 1 <= n THEN n - (k + 1) + 1 ELSE 0
      /\ \A j \in 1..(n - (k + 1) + 1) : b[j] = s[k + 1 + j - 1]
  <2>1. k + 1 \in Int /\ n \in Int /\ \A j \in (k + 1)..n : s[j] \in S
    BY <1>1
  <2> QED
    BY <2>1, SubSeqProperties
<1>4. /\ a \o b \in Seq(S)
      /\ Len(a \o b) = Len(a) + Len(b)
      /\ \A j \in 1..(Len(a) + Len(b)) :
            (a \o b)[j] = IF j <= Len(a) THEN a[j] ELSE b[j - Len(a)]
  <2> HIDE DEF a, b
  <2> QED
    BY <1>2, <1>3, ConcatProperties
<1>5. Len(a) = k - 1 /\ Len(b) = n - k
  <2> HIDE DEF a, b, n
  <2> QED
    BY <1>1, <1>2, <1>3
<1>6. \A j \in 1..(n - 1) : (a \o b)[j] = IF j < k THEN s[j] ELSE s[j + 1]
  <2> TAKE j \in 1..(n - 1)
  <2>1. CASE j < k
    <3>1. (a \o b)[j] = a[j] /\ j \in 1..(k - 1 - 1 + 1) /\ 1 + j - 1 = j
      <4> HIDE DEF a, b, n
      <4>1. j \in Nat /\ k \in Nat /\ j \in 1..(k - 1)
        BY <1>1, <2>1
      <4>2. j <= Len(a) /\ j \in 1..(Len(a) + Len(b))
        BY <1>1, <1>5, <4>1
      <4>3. (a \o b)[j] = a[j]
        BY <1>4, <4>2
      <4> QED
        BY <4>1, <4>3
    <3> QED
      BY <1>2, <2>1, <3>1
  <2>2. CASE ~(j < k)
    <3>1. /\ j \in 1..(Len(a) + Len(b)) /\ ~(j <= Len(a)) /\ Len(a) = k - 1
          /\ j - (k - 1) \in 1..(n - (k + 1) + 1)
          /\ k + 1 + (j - (k - 1)) - 1 = j + 1
      <4> HIDE DEF a, b
      <4>1. Len(s) \in Nat /\ k \in 1..Len(s) /\ j \in 1..(Len(s) - 1)
        BY <1>1
      <4> QED
        BY <4>1, <1>5, <2>2
    <3>2. (a \o b)[j] = b[j - (k - 1)]
      <4> HIDE DEF a, b, n
      <4> QED
        BY <1>4, <3>1
    <3> QED
      BY <1>3, <2>2, <3>1, <3>2
  <2> QED
    BY <2>1, <2>2
<1> QED
  <2>1. RemoveAt(s, k) = a \o b
    BY DEF RemoveAt
  <2>2. Len(a) + Len(b) = Len(s) - 1
    <3> HIDE DEF a, b
    <3> QED
      BY <1>1, <1>5
  <2> HIDE DEF a, b
  <2> QED
    BY <1>4, <1>6, <2>1, <2>2

-----------------------------------------------------------------------------
(* Types, and no edit pending twice: for every kind of binding. *)

FlowInv == TypeOK /\ NoTwins

(* An entry that is dropped, or an index past the end, leaves no twins.    *)
LEMMA WithoutKeeps ==
    ASSUME FlowInv, NEW k \in Nat
    PROVE  /\ Without(k) \in Seq(PendingEdit)
           /\ \A i, j \in DOMAIN Without(k) :
                 /\ Without(k)[i].diff = Without(k)[j].diff
                 /\ Without(k)[i].description = Without(k)[j].description
                 => i = j
<1>1. CASE k \notin DOMAIN pending
  BY <1>1 DEF Without, FlowInv, TypeOK, NoTwins
<1>2. CASE k \in DOMAIN pending
  <2> DEFINE r == RemoveAt(pending, k)
  <2>1. /\ Without(k) = r
        /\ r \in Seq(PendingEdit)
        /\ Len(r) = Len(pending) - 1
        /\ \A j \in 1..(Len(pending) - 1) :
              r[j] = IF j < k THEN pending[j] ELSE pending[j + 1]
    BY <1>2, RemoveAtKeeps DEF Without, FlowInv, TypeOK
  <2>2. DOMAIN r = 1..(Len(pending) - 1) /\ Len(pending) \in Nat
        /\ DOMAIN pending = 1..Len(pending)
    <3> HIDE DEF r
    <3> QED
      BY <2>1, LenProperties DEF FlowInv, TypeOK
  <2> SUFFICES ASSUME NEW i \in DOMAIN r, NEW j \in DOMAIN r,
                      r[i].diff = r[j].diff,
                      r[i].description = r[j].description
               PROVE  i = j
    BY <2>1
  <2> DEFINE Old(x) == IF x < k THEN x ELSE x + 1
  <2>3. /\ Old(i) \in DOMAIN pending /\ r[i] = pending[Old(i)]
        /\ Old(j) \in DOMAIN pending /\ r[j] = pending[Old(j)]
    <3> HIDE DEF r
    <3> QED
      BY <2>1, <2>2
  <2>4. Old(i) = Old(j)
    <3> HIDE DEF r, Old
    <3> QED
      BY <2>3 DEF FlowInv, NoTwins
  <2> QED
    BY <2>2, <2>4
<1> QED
  BY <1>1, <1>2

(* Front and Last of the stack of suspended approvals. *)
LEMMA StackTop ==
    ASSUME NEW s \in Seq(Nat), s # <<>>
    PROVE  Front(s) \in Seq(Nat) /\ Last(s) \in Nat
<1>1. Len(s) \in Nat /\ Len(s) # 0 /\ \A j \in 1..Len(s) : s[j] \in Nat
  BY EmptySeq, LenProperties, ElementOfSeq
<1>2. /\ 1 \in Int /\ Len(s) - 1 \in Int /\ Len(s) \in 1..Len(s)
      /\ \A j \in 1..(Len(s) - 1) : s[j] \in Nat
  BY <1>1
<1> QED
  BY <1>1, <1>2, SubSeqProperties DEF Front, Last

(* propose(): the new entry is no twin of an old one. *)
LEMMA ProposeStep ==
    ASSUME FlowInv, NEW diff \in Diffs, NEW description \in Descriptions,
           Propose(diff, description)
    PROVE  FlowInv'
<1> DEFINE e == [id |-> issued + 1, diff |-> diff, description |-> description]
<1>1. /\ issued' = issued + 1 /\ issued' \in 0..MaxEdits
      /\ pending' = Append(pending, e)
      /\ e \in PendingEdit
      /\ approving' = approving /\ decided' = decided /\ meddled' = meddled
  BY EditAssumption DEF FlowInv, TypeOK, Propose, Queue, PendingEdit, EditIds
<1>2. /\ pending' \in Seq(PendingEdit)
      /\ DOMAIN pending = 1..Len(pending) /\ Len(pending) \in Nat
      /\ DOMAIN pending' = 1..(Len(pending) + 1)
      /\ \A j \in 1..Len(pending) : pending'[j] = pending[j]
      /\ pending'[Len(pending) + 1] = e
  <2>1. pending \in Seq(PendingEdit)
    BY DEF FlowInv, TypeOK
  <2> HIDE DEF e
  <2> QED
    BY <2>1, <1>1, AppendProperties, LenProperties
<1>3. TypeOK'
  BY <1>1, <1>2 DEF FlowInv, TypeOK
<1>4. \A j \in DOMAIN pending :
          ~(pending[j].diff = e.diff /\ pending[j].description = e.description)
  BY DEF Propose, Queued
<1>5. NoTwins'
  <2> SUFFICES ASSUME NEW i \in 1..(Len(pending) + 1),
                      NEW j \in 1..(Len(pending) + 1),
                      pending'[i].diff = pending'[j].diff,
                      pending'[i].description = pending'[j].description
               PROVE  i = j
    BY <1>2 DEF NoTwins
  <2> HIDE DEF e
  <2>1. CASE i \in 1..Len(pending) /\ j \in 1..Len(pending)
    BY <1>2, <2>1 DEF FlowInv, NoTwins
  <2>2. CASE i = Len(pending) + 1 \/ j = Len(pending) + 1
    <3>1. i \in 1..Len(pending) => pending'[i] = pending[i] /\ i \in DOMAIN pending
      BY <1>2
    <3>2. j \in 1..Len(pending) => pending'[j] = pending[j] /\ j \in DOMAIN pending
      BY <1>2
    <3>3. ~(i \in 1..Len(pending) /\ j = Len(pending) + 1)
      BY <1>2, <1>4, <3>1
    <3>4. ~(j \in 1..Len(pending) /\ i = Len(pending) + 1)
      BY <1>2, <1>4, <3>2
    <3> QED
      BY <1>2, <2>2, <3>3, <3>4
  <2> QED
    BY <1>2, <2>1, <2>2
<1> QED
  BY <1>3, <1>5 DEF FlowInv

(* Dropping an entry, or none, keeps the invariant. *)
LEMMA RemovalStep ==
    ASSUME FlowInv, NEW k \in Nat, pending' = Without(k), issued' = issued,
           approving' \in Seq(Nat), decided' \in [EditIds -> Nat],
           meddled' \in BOOLEAN
    PROVE  FlowInv'
<1>1. pending' \in Seq(PendingEdit)
  BY WithoutKeeps
<1>2. NoTwins'
  BY WithoutKeeps DEF NoTwins
<1> QED
  BY <1>1, <1>2 DEF FlowInv, TypeOK

(* A decision counts for an edit that is pending. *)
LEMMA DecideTypes ==
    ASSUME FlowInv, NEW k \in DOMAIN pending, Decide(pending[k].id)
    PROVE  k \in Nat /\ decided' \in [EditIds -> Nat] /\ meddled' \in BOOLEAN
<1>1. /\ pending \in Seq(PendingEdit) /\ decided \in [EditIds -> Nat]
      /\ meddled \in BOOLEAN
  BY DEF FlowInv, TypeOK
<1>2. k \in 1..Len(pending) /\ Len(pending) \in Nat
  BY <1>1, LenProperties
<1>3. pending[k].id \in EditIds
  <2>1. pending[k] \in PendingEdit
    BY <1>1, <1>2, ElementOfSeq
  <2> QED
    BY <2>1 DEF PendingEdit
<1> QED
  BY <1>1, <1>2, <1>3 DEF Decide

LEMMA FlowStep == FlowInv /\ [Next]_vars => FlowInv'
<1> SUFFICES ASSUME FlowInv, [Next]_vars
             PROVE  FlowInv'
  OBVIOUS
<1> USE DEF FlowInv
<1>1. ASSUME NEW diff \in Diffs, NEW description \in Descriptions,
             Propose(diff, description)
      PROVE  FlowInv'
  BY <1>1, ProposeStep
<1>2. ASSUME NEW k \in DOMAIN pending, Approve(k)
      PROVE  FlowInv'
  <2>1. /\ k \in Nat /\ decided' \in [EditIds -> Nat] /\ meddled' \in BOOLEAN
        /\ issued' = issued
    BY <1>2, DecideTypes DEF Approve
  <2>2. CASE source' = source
    <3>1. pending' = Without(k) /\ approving' = approving
      BY <1>2, <2>2 DEF Approve
    <3> QED
      BY <2>1, <3>1, RemovalStep DEF TypeOK
  <2>3. CASE source' # source
    <3>1. pending' = pending /\ approving' = Append(approving, k)
      BY <1>2, <2>3 DEF Approve
    <3>2. approving' \in Seq(Nat)
      BY <2>1, <3>1, AppendProperties DEF TypeOK
    <3> QED
      BY <2>1, <3>1, <3>2 DEF TypeOK, NoTwins
  <2> QED
    BY <2>2, <2>3
<1>3. ASSUME NEW k \in DOMAIN pending, Reject(k)
      PROVE  FlowInv'
  <2>1. k \in Nat /\ decided' \in [EditIds -> Nat] /\ meddled' \in BOOLEAN
    BY <1>3, DecideTypes DEF Reject
  <2> QED
    BY <1>3, <2>1, RemovalStep DEF Reject, TypeOK
<1>4. CASE FinishApprove
  <2>1. Front(approving) \in Seq(Nat) /\ Last(approving) \in Nat
    BY <1>4, StackTop DEF FinishApprove, TypeOK
  <2> QED
    BY <1>4, <2>1, RemovalStep DEF FinishApprove, TypeOK
<1>5. CASE AbortApprove
  BY <1>5, StackTop DEF AbortApprove, TypeOK, NoTwins
<1>6. ASSUME NEW text \in Sources, Type(text)
      PROVE  FlowInv'
  BY <1>6 DEF Type, TypeOK, NoTwins
<1>7. CASE UNCHANGED vars
  BY <1>7 DEF vars, TypeOK, NoTwins
<1> QED
  BY <1>1, <1>2, <1>3, <1>4, <1>5, <1>6, <1>7 DEF Next

LEMMA FlowInvariant == Spec => []FlowInv
<1>1. Init => FlowInv
  <2> SUFFICES ASSUME Init
               PROVE  FlowInv
    OBVIOUS
  <2>1. /\ pending \in Seq(PendingEdit) /\ approving \in Seq(Nat)
        /\ issued \in 0..MaxEdits /\ decided \in [EditIds -> Nat]
    BY EditAssumption, EmptySeq DEF Init
  <2>2. meddled \in BOOLEAN
    BY DEF Init
  <2>3. NoTwins
    BY DEF Init, NoTwins
  <2> QED
    BY <2>1, <2>2, <2>3 DEF FlowInv, TypeOK
<1> QED
  BY <1>1, FlowStep, PTL DEF Spec

(* Every variable keeps its type: each pending edit has an id, a diff and  *)
(* a description that were proposed.                                       *)
THEOREM TypeCorrect == Spec => []TypeOK
<1>1. FlowInv => TypeOK
  BY DEF FlowInv
<1> QED
  BY <1>1, FlowInvariant, PTL

(* A proposal that is repeated because its answer was lost is never queued *)
(* twice, whatever bindings do while another edit is being approved.       *)
THEOREM RetryQueuesNothing == Spec => []NoTwins
<1>1. FlowInv => NoTwins
  BY DEF FlowInv
<1> QED
  BY <1>1, FlowInvariant, PTL

-----------------------------------------------------------------------------
(* Unless a binding on source decides edits or raises, an approval is      *)
(* never nested and the index it found stays right: only proposals come in *)
(* between, and they go to the end.                                        *)

(* The edit whose approval is suspended. *)
Applied(k) == approving = <<k>>

AccountInv ==
    /\ approving = <<>> \/ \E k \in DOMAIN pending : Applied(k)
    /\ \A j, k \in DOMAIN pending : pending[j].id = pending[k].id => j = k
    /\ \A k \in DOMAIN pending : pending[k].id \in 1..issued
    /\ \A k \in DOMAIN pending :
          decided[pending[k].id] = IF Applied(k) THEN 1 ELSE 0
    /\ \A id \in EditIds : id > issued => decided[id] = 0
    /\ \A id \in 1..issued : id \notin PendingIds => decided[id] = 1

(* What AccountInv says of the sequence after an entry left it: the same   *)
(* edits but one, still all different.                                     *)
LEMMA DropEntry ==
    ASSUME FlowInv, NEW k \in DOMAIN pending, pending' = Without(k),
           \A i, j \in DOMAIN pending : pending[i].id = pending[j].id => i = j
    PROVE  /\ \A i, j \in DOMAIN pending' :
                 pending'[i].id = pending'[j].id => i = j
           /\ \A i \in DOMAIN pending' :
                 \E j \in DOMAIN pending : j # k /\ pending'[i] = pending[j]
           /\ \A j \in DOMAIN pending :
                 j # k => \E i \in DOMAIN pending' : pending'[i] = pending[j]
<1>1. /\ pending \in Seq(PendingEdit)
      /\ DOMAIN pending = 1..Len(pending) /\ Len(pending) \in Nat
      /\ k \in 1..Len(pending)
  BY LenProperties DEF FlowInv, TypeOK
<1>2. /\ pending' = RemoveAt(pending, k)
      /\ pending' \in Seq(PendingEdit)
      /\ Len(pending') = Len(pending) - 1
      /\ \A j \in 1..(Len(pending) - 1) :
            pending'[j] = IF j < k THEN pending[j] ELSE pending[j + 1]
  BY <1>1, RemoveAtKeeps DEF Without
<1>3. DOMAIN pending' = 1..(Len(pending) - 1)
  BY <1>2, LenProperties
<1>4. ASSUME NEW i \in DOMAIN pending'
      PROVE  LET o == IF i < k THEN i ELSE i + 1
             IN  o \in DOMAIN pending /\ o # k /\ pending'[i] = pending[o]
  BY <1>1, <1>2, <1>3
<1>5. ASSUME NEW i \in DOMAIN pending', NEW j \in DOMAIN pending',
             pending'[i].id = pending'[j].id
      PROVE  i = j
  <2> DEFINE o == IF i < k THEN i ELSE i + 1
             u == IF j < k THEN j ELSE j + 1
  <2>1. o \in DOMAIN pending /\ pending'[i] = pending[o]
    BY <1>4
  <2>2. u \in DOMAIN pending /\ pending'[j] = pending[u]
    BY <1>4
  <2>3. o = u
    <3> HIDE DEF o, u
    <3> QED
      BY <1>5, <2>1, <2>2
  <2> QED
    BY <1>1, <1>3, <2>3
<1>6. ASSUME NEW j \in DOMAIN pending, j # k
      PROVE  \E i \in DOMAIN pending' : pending'[i] = pending[j]
  <2> DEFINE i == IF j < k THEN j ELSE j - 1
  <2>1. /\ i \in 1..(Len(pending) - 1)
        /\ (IF i < k THEN i ELSE i + 1) = j
    BY <1>1, <1>6
  <2>2. pending'[i] = pending[j]
    <3> HIDE DEF i
    <3> QED
      BY <1>2, <2>1
  <2> QED
    BY <1>3, <2>1, <2>2
<1> QED
  BY <1>4, <1>5, <1>6

(* The entry k, decided now or applied before, leaves the list.            *)
LEMMA DecidedLeaves ==
    ASSUME FlowInv, AccountInv, NEW k \in DOMAIN pending,
           pending' = Without(k), issued' = issued, approving' = <<>>,
           decided' \in [EditIds -> Nat], decided'[pending[k].id] = 1,
           \A id \in EditIds : id # pending[k].id => decided'[id] = decided[id],
           approving = <<>> \/ Applied(k)
    PROVE  AccountInv'
<1>1. /\ \A i, j \in DOMAIN pending : pending[i].id = pending[j].id => i = j
      /\ \A j \in DOMAIN pending : pending[j].id \in 1..issued
      /\ issued \in 0..MaxEdits
  BY DEF AccountInv, FlowInv, TypeOK
<1>2. /\ \A i, j \in DOMAIN pending' :
            pending'[i].id = pending'[j].id => i = j
      /\ \A i \in DOMAIN pending' :
            \E j \in DOMAIN pending : j # k /\ pending'[i] = pending[j]
      /\ \A j \in DOMAIN pending :
            j # k => \E i \in DOMAIN pending' : pending'[i] = pending[j]
  BY <1>1, DropEntry
<1>3. ASSUME NEW i \in DOMAIN pending'
      PROVE  pending'[i].id \in 1..issued /\ decided'[pending'[i].id] = 0
  <2>1. PICK j \in DOMAIN pending : j # k /\ pending'[i] = pending[j]
    BY <1>2
  <2>2. pending[j].id \in EditIds /\ pending[j].id # pending[k].id
    BY <1>1, <2>1, EditAssumption DEF EditIds
  <2>3. ~Applied(j)
    <3>1. <<k>>[1] = k /\ <<j>>[1] = j /\ Len(<<j>>) = 1 /\ Len(<<>>) = 0
      OBVIOUS
    <3>2. <<j>> # <<k>>
      BY <2>1, <3>1
    <3>3. <<j>> # <<>>
      BY <3>1
    <3> QED
      BY <3>2, <3>3 DEF Applied
  <2>4. decided[pending[j].id] = 0
    BY <2>3 DEF AccountInv
  <2> QED
    BY <1>1, <2>1, <2>2, <2>4
<1>4. \A id \in EditIds : id > issued' => decided'[id] = 0
  BY <1>1 DEF AccountInv
<1>5. ASSUME NEW id \in 1..issued, \A i \in DOMAIN pending' : pending'[i].id # id
      PROVE  decided'[id] = 1
  <2>1. id \in EditIds
    BY <1>1, EditAssumption DEF EditIds
  <2>2. CASE id = pending[k].id
    BY <2>2
  <2>3. CASE id # pending[k].id
    <3>1. \A j \in DOMAIN pending : pending[j].id # id
      BY <1>2, <1>5, <2>3
    <3> QED
      BY <2>1, <2>3, <3>1 DEF AccountInv, PendingIds
  <2> QED
    BY <2>2, <2>3
<1>6. \A i \in DOMAIN pending' : ~(approving' = <<i>>)
  OBVIOUS
<1>7. \A id \in 1..issued' : id \notin PendingIds' => decided'[id] = 1
  BY <1>5 DEF PendingIds
<1> QED
  BY <1>2, <1>3, <1>4, <1>6, <1>7 DEF AccountInv, Applied

(* A proposal goes to the end of the list, under a new id.                 *)
LEMMA ProposalAccounted ==
    ASSUME FlowInv, AccountInv, NEW diff \in Diffs,
           NEW description \in Descriptions, Propose(diff, description)
    PROVE  AccountInv'
<1> DEFINE e == [id |-> issued + 1, diff |-> diff, description |-> description]
           n == Len(pending)
<1>1. /\ issued' = issued + 1 /\ issued \in Nat /\ issued + 1 \in EditIds
      /\ pending' = Append(pending, e) /\ e \in PendingEdit
      /\ approving' = approving /\ decided' = decided /\ meddled' = meddled
  BY EditAssumption DEF FlowInv, TypeOK, Propose, Queue, PendingEdit, EditIds
<1>2. /\ n \in Nat /\ DOMAIN pending = 1..n /\ DOMAIN pending' = 1..(n + 1)
      /\ \A j \in 1..n : pending'[j] = pending[j]
      /\ pending'[n + 1] = e
  <2>1. pending \in Seq(PendingEdit)
    BY DEF FlowInv, TypeOK
  <2> HIDE DEF e
  <2> QED
    BY <2>1, <1>1, AppendProperties, LenProperties
<1>3. e.id = issued + 1
  OBVIOUS
<1> HIDE DEF e, n
<1>4. \A k \in 1..n : pending'[k].id = pending[k].id /\ pending[k].id \in 1..issued
  BY <1>2 DEF AccountInv
<1>5. \A j, k \in DOMAIN pending' : pending'[j].id = pending'[k].id => j = k
  <2>1. \A j, k \in 1..n : pending[j].id = pending[k].id => j = k
    BY <1>2 DEF AccountInv
  <2> QED
    BY <1>1, <1>2, <1>3, <1>4, <2>1
<1>6. \A k \in DOMAIN pending' : pending'[k].id \in 1..issued'
  BY <1>1, <1>2, <1>3, <1>4
<1>7. approving = <<>> \/ \E k \in 1..n : approving = <<k>>
  BY <1>2 DEF AccountInv, Applied
<1>8. ~(approving = <<n + 1>>)
  <2> SUFFICES ASSUME NEW k \in 1..n, approving = <<k>>
               PROVE  <<k>> # <<n + 1>>
    BY <1>7
  <2> QED
    BY <1>2
<1>9. decided[issued + 1] = 0
  BY <1>1 DEF AccountInv
<1>10. \A k \in DOMAIN pending' :
          decided'[pending'[k].id] = IF approving' = <<k>> THEN 1 ELSE 0
  <2>1. \A k \in 1..n :
           decided[pending[k].id] = IF approving = <<k>> THEN 1 ELSE 0
    BY <1>2 DEF AccountInv, Applied
  <2> QED
    BY <1>1, <1>2, <1>3, <1>8, <1>9, <2>1
<1>11. \A id \in EditIds : id > issued' => decided'[id] = 0
  BY <1>1, EditAssumption DEF AccountInv, EditIds
<1>12. \A id \in 1..issued' : id \notin PendingIds' => decided'[id] = 1
  <2> SUFFICES ASSUME NEW id \in 1..(issued + 1),
                      \A k \in 1..(n + 1) : pending'[k].id # id
               PROVE  decided[id] = 1
    BY <1>1, <1>2 DEF PendingIds
  <2>1. id # issued + 1
    BY <1>2, <1>3
  <2>2. \A k \in 1..n : pending[k].id # id
    BY <1>2, <1>4
  <2>3. id \in 1..issued /\ id \notin PendingIds
    BY <1>1, <1>2, <2>1, <2>2 DEF PendingIds
  <2> QED
    BY <2>3 DEF AccountInv
<1>13. approving' = <<>> \/ \E k \in DOMAIN pending' : approving' = <<k>>
  BY <1>1, <1>2, <1>7
<1> QED
  BY <1>5, <1>6, <1>10, <1>11, <1>12, <1>13 DEF AccountInv, Applied

LEMMA AccountStep ==
    ASSUME FlowInv, AccountInv, ~meddled', [Next]_vars
    PROVE  AccountInv'
<1>1. ASSUME NEW diff \in Diffs, NEW description \in Descriptions,
             Propose(diff, description)
      PROVE  AccountInv'
  BY <1>1, ProposalAccounted
<1>2. ASSUME NEW k \in DOMAIN pending, Decide(pending[k].id), approving = <<>>
      PROVE  /\ decided' \in [EditIds -> Nat]
             /\ decided'[pending[k].id] = 1
             /\ \A id \in EditIds : id # pending[k].id => decided'[id] = decided[id]
  <2>1. decided' \in [EditIds -> Nat] /\ decided \in [EditIds -> Nat]
    BY <1>2, DecideTypes DEF FlowInv, TypeOK
  <2>2. pending[k].id \in EditIds
    BY EditAssumption DEF AccountInv, FlowInv, TypeOK, EditIds
  <2>3. decided[pending[k].id] = 0
    <3>1. ~Applied(k)
      <4>1. Len(<<k>>) = 1 /\ Len(<<>>) = 0
        OBVIOUS
      <4> QED
        BY <1>2, <4>1 DEF Applied
    <3> QED
      BY <3>1 DEF AccountInv
  <2> QED
    BY <1>2, <2>1, <2>2, <2>3 DEF Decide
<1>3. ASSUME NEW k \in DOMAIN pending, Approve(k)
      PROVE  AccountInv'
  <2>1. approving = <<>> /\ Decide(pending[k].id) /\ issued' = issued
    BY <1>3 DEF Approve, Decide
  <2>2. CASE source' = source
    BY <1>2, <1>3, <2>1, <2>2, DecidedLeaves DEF Approve
  <2>3. CASE source' # source
    <3>1. pending' = pending /\ approving' = <<k>>
      BY <1>3, <2>1, <2>3 DEF Approve
    <3>2. ASSUME NEW j \in DOMAIN pending
          PROVE  decided'[pending[j].id] = IF approving' = <<j>> THEN 1 ELSE 0
      <4>1. approving' = <<j>> <=> j = k
        <5>1. <<j>>[1] = j /\ <<k>>[1] = k
          OBVIOUS
        <5> QED
          BY <3>1, <5>1
      <4>2. pending[j].id \in EditIds /\ (pending[j].id = pending[k].id <=> j = k)
        BY EditAssumption DEF AccountInv, FlowInv, TypeOK, EditIds
      <4>3. j # k => decided[pending[j].id] = 0
        <5>1. ~Applied(j)
          BY <2>1 DEF Applied
        <5> QED
          BY <5>1 DEF AccountInv
      <4> QED
        BY <1>2, <2>1, <4>1, <4>2, <4>3
    <3>3. ASSUME NEW id \in EditIds, id \notin PendingIds
          PROVE  decided'[id] = decided[id]
      BY <1>2, <2>1, <3>3 DEF PendingIds
    <3>4. PendingIds' = PendingIds
      BY <3>1 DEF PendingIds
    <3>5. \A id \in EditIds : id > issued => id \notin PendingIds
      BY DEF AccountInv, PendingIds, FlowInv, TypeOK
    <3>6. \A id \in EditIds : id > issued' => decided'[id] = 0
      BY <2>1, <3>3, <3>5 DEF AccountInv
    <3>7. \A id \in 1..issued' : id \notin PendingIds' => decided'[id] = 1
      BY <2>1, <3>3, <3>4, EditAssumption DEF AccountInv, EditIds, FlowInv, TypeOK
    <3> QED
      BY <2>1, <3>1, <3>2, <3>6, <3>7 DEF AccountInv, Applied
  <2> QED
    BY <2>2, <2>3
<1>4. ASSUME NEW k \in DOMAIN pending, Reject(k)
      PROVE  AccountInv'
  <2>1. approving = <<>> /\ Decide(pending[k].id)
    BY <1>4 DEF Reject, Decide
  <2> QED
    BY <1>2, <1>4, <2>1, DecidedLeaves DEF Reject
<1>5. CASE FinishApprove
  <2>1. PICK k \in DOMAIN pending : approving = <<k>>
    BY <1>5 DEF FinishApprove, AccountInv, Applied
  <2>2. Last(approving) = k /\ approving' = <<>>
    <3>1. <<k>>[Len(<<k>>)] = k /\ SubSeq(<<k>>, 1, Len(<<k>>) - 1) = <<>>
      BY SubSeqEmpty
    <3> QED
      BY <1>5, <2>1, <3>1 DEF FinishApprove, Last, Front
  <2>3. decided' = decided /\ decided[pending[k].id] = 1
    BY <1>5, <2>1 DEF FinishApprove, AccountInv, Applied
  <2> QED
    BY <1>5, <2>1, <2>2, <2>3, DecidedLeaves DEF FinishApprove, FlowInv, TypeOK, Applied
<1>6. CASE AbortApprove
  BY <1>6 DEF AbortApprove
<1>7. ASSUME NEW text \in Sources, Type(text)
      PROVE  AccountInv'
  BY <1>7 DEF Type, AccountInv, Applied, PendingIds
<1>8. CASE UNCHANGED vars
  BY <1>8 DEF vars, AccountInv, Applied, PendingIds
<1> QED
  BY <1>1, <1>3, <1>4, <1>5, <1>6, <1>7, <1>8 DEF Next

Unmeddled == ~meddled => AccountInv

LEMMA UnmeddledStep == FlowInv /\ Unmeddled /\ [Next]_vars => Unmeddled'
<1> SUFFICES ASSUME FlowInv, Unmeddled, [Next]_vars, ~meddled'
             PROVE  AccountInv'
  BY DEF Unmeddled
<1>1. meddled \in BOOLEAN
  BY DEF FlowInv, TypeOK
<1>2. ~meddled
  BY <1>1 DEF Next, Propose, Queue, Approve, Reject, Decide, FinishApprove,
              AbortApprove, Type, vars
<1> QED
  BY <1>2, AccountStep DEF Unmeddled

(* As long as no binding on source decided an edit or raised, approve()    *)
(* drops the edit it applied and no other: between calls every queued edit *)
(* is pending, or has been decided, never both.                            *)
THEOREM EditsAccounted == Spec => []EveryEditAccounted
<1>1. Init => Unmeddled
  BY EmptySeq, EditAssumption DEF Init, Unmeddled, AccountInv, Applied, PendingIds, EditIds
<1>2. FlowInv /\ Unmeddled => EveryEditAccounted
  <2> SUFFICES ASSUME FlowInv, AccountInv, approving = <<>>, NEW id \in 1..issued
               PROVE  decided[id] = IF id \in PendingIds THEN 0 ELSE 1
    BY DEF EveryEditAccounted, Unmeddled
  <2>1. CASE id \in PendingIds
    <3>1. PICK k \in DOMAIN pending : pending[k].id = id
      BY <2>1 DEF PendingIds
    <3>2. ~Applied(k)
      <4>1. Len(<<k>>) = 1 /\ Len(<<>>) = 0
        OBVIOUS
      <4> QED
        BY <4>1 DEF Applied
    <3> QED
      BY <2>1, <3>1, <3>2 DEF AccountInv
  <2> QED
    BY <2>1 DEF AccountInv
<1> QED
  BY <1>1, <1>2, UnmeddledStep, FlowInvariant, PTL DEF Spec

(* Under the same condition no edit is applied or rejected twice, also     *)
(* not while an approval is suspended in the bindings.                     *)
THEOREM DecisionsAreFinal == Spec => []DecidedOnce
<1>1. Init => Unmeddled
  BY EmptySeq, EditAssumption DEF Init, Unmeddled, AccountInv, Applied, PendingIds, EditIds
<1>2. FlowInv /\ Unmeddled => DecidedOnce
  <2> SUFFICES ASSUME FlowInv, AccountInv, NEW id \in EditIds
               PROVE  decided[id] <= 1
    BY DEF DecidedOnce, Unmeddled
  <2>1. CASE id \in PendingIds
    BY <2>1 DEF AccountInv, PendingIds
  <2>2. CASE id \notin PendingIds
    <3>1. id \in 1..issued \/ id > issued
      BY EditAssumption DEF EditIds, FlowInv, TypeOK
    <3> QED
      BY <2>2, <3>1 DEF AccountInv
  <2> QED
    BY <2>1, <2>2
<1> QED
  BY <1>1, <1>2, UnmeddledStep, FlowInvariant, PTL DEF Spec
=============================================================================

------------------------ MODULE SkillCommandsProofs ------------------------
(***************************************************************************)
(* Machine-checked facts about the commands of skills on the arm, for any  *)
(* executions, users, calls and bounds.                                    *)
(***************************************************************************)
EXTENDS SkillCommands, SequenceTheorems, TLAPS

Senders == (Executions \cup {Host}) \X (Users \cup {Root})
Requests == [from : Senders, name : Calls \cup {Own, "stop"}, awaited : BOOLEAN]
Commands == [from : Senders, state : {"queued", "completed", "cancelled"}]

CommandsTypeOK ==
    /\ LifecycleTypeOK
    /\ link \in Seq(Requests) /\ commands \in Seq(Commands)
    /\ late \in [Executions -> SUBSET Users]

Asked(e) == status[e] \in {"stopping", "cancelled", "torn"}
Excused(e, from) == from[1] = e => from[2] \in late[e] \cup {Root}

(* A stop of e exists only once e asked for it. *)
StopWasAsked(e) ==
    (\E k \in DOMAIN link : link[k].from = <<e, Root>>) \/ e \in stopped => Asked(e)

(* Whoever may still send, and is not late, has sent already. *)
OthersWait(e) == Asked(e) => \A u \in using[e] \ late[e] : Awaited(<<e, u>>)

(* The link keeps the order: behind the stop are only the late. *)
BehindStop(e) ==
    \A j, k \in DOMAIN link :
        j < k /\ link[j].from = <<e, Root>> => Excused(e, link[k].from)

(* Only a root waits for the answer to its stop. *)
RootsStop == \A k \in DOMAIN link : link[k].from[2] = Root /\ link[k].awaited => link[k].name = "stop"

RestOf(e) ==
    /\ StopWasAsked(e) /\ OthersWait(e) /\ BehindStop(e)
    /\ e \in stopped => AtRest(e)
    /\ answer[e] = "confirmed" => e \in stopped

RestInv == CommandsTypeOK /\ RootsStop /\ \A e \in Executions : RestOf(e)

-----------------------------------------------------------------------------
(* A root is no user, the host no execution. *)
LEMMA NobodysNames == Root \notin Users /\ Host \notin Executions
BY CommandsAssumption

(* Giving up a wait changes who waits, and nothing else. *)
LEMMA UnawaitedLink ==
    ASSUME link \in Seq(Requests), NEW from
    PROVE  /\ Unawaited(from) \in Seq(Requests)
           /\ DOMAIN Unawaited(from) = DOMAIN link
           /\ \A k \in DOMAIN link :
                /\ Unawaited(from)[k].from = link[k].from
                /\ Unawaited(from)[k].name = link[k].name
                /\ Unawaited(from)[k].awaited => link[k].awaited
                /\ link[k].from # from /\ link[k].awaited => Unawaited(from)[k].awaited
<1> DEFINE keeps(k) == link[k].awaited /\ link[k].from # from
           made(k) == [link[k] EXCEPT !.awaited = keeps(k)]
<1>1. \A k \in DOMAIN link : link[k] \in Requests
  OBVIOUS
<1>2. \A k \in DOMAIN link : keeps(k) \in BOOLEAN
  BY Zenon
<1>3. \A k \in DOMAIN link : /\ made(k) \in Requests /\ made(k).from = link[k].from
                             /\ made(k).name = link[k].name /\ made(k).awaited = keeps(k)
  <2> HIDE DEF keeps
  <2> QED
    BY <1>1, <1>2 DEF Requests
<1>4. Unawaited(from) = [k \in DOMAIN link |-> made(k)]
  BY Zenon DEF Unawaited
<1>5. DOMAIN link = 1..Len(link) /\ Len(link) \in Nat
  OBVIOUS
<1>6. Unawaited(from) \in [1..Len(link) -> Requests]
  <2> HIDE DEF made
  <2> QED
    BY <1>3, <1>4, <1>5
<1>7. Unawaited(from) \in Seq(Requests)
  BY <1>5, <1>6, SeqDef
<1> HIDE DEF made
<1> QED
  BY <1>3, <1>4, <1>7

(* A controller's queue after a request holds what it held, the request's  *)
(* own command, and nothing after a request that discards.                 *)
LEMMA HandledQueue ==
    ASSUME commands \in Seq(Commands), NEW request \in Requests
    PROVE  /\ Handled(request) \in Seq(Commands)
           /\ \A i \in DOMAIN Handled(request) :
                Handled(request)[i].state = "queued" =>
                    /\ ~Discards(request.name)
                    /\ \/ i \in Pending /\ Handled(request)[i].from = commands[i].from
                       \/ Handled(request)[i].from = request.from
<1> DEFINE left(i) == [commands[i] EXCEPT !.state = IF i \in Pending THEN "cancelled" ELSE @]
<1>1. \A i \in DOMAIN commands : commands[i] \in Commands
  OBVIOUS
<1>2. DOMAIN commands = 1..Len(commands) /\ Len(commands) \in Nat
  OBVIOUS
<1>3. \A i \in DOMAIN commands : left(i) \in Commands /\ left(i).state # "queued"
  BY <1>1 DEF Commands, Pending
<1>4. CASE Discards(request.name)
  <2>1. Handled(request) = [i \in DOMAIN commands |-> left(i)]
    BY <1>4, Zenon DEF Handled
  <2> HIDE DEF left
  <2>2. Handled(request) \in [1..Len(commands) -> Commands]
    BY <1>2, <1>3, <2>1
  <2>3. Handled(request) \in Seq(Commands)
    BY <1>2, <2>2, SeqDef
  <2> QED
    BY <1>3, <2>1, <2>3
<1>5. CASE ~Discards(request.name) /\ Queues(request.name)
  <2>1. Handled(request) = Append(commands, [from |-> request.from, state |-> "queued"])
    BY <1>5, Zenon DEF Handled
  <2>2. [from |-> request.from, state |-> "queued"] \in Commands
    BY DEF Requests, Commands
  <2> QED
    BY <1>2, <1>5, <2>1, <2>2 DEF Pending
<1>6. CASE ~Discards(request.name) /\ ~Queues(request.name)
  <2>1. Handled(request) = commands
    BY <1>6, Zenon DEF Handled
  <2> QED
    BY <1>6, <2>1 DEF Pending
<1> QED
  BY <1>4, <1>5, <1>6, Zenon

(* The link after a request was sent. *)
Appended(r) ==
    /\ Len(link) \in Nat /\ DOMAIN link = 1..Len(link)
    /\ DOMAIN link' = 1..(Len(link) + 1)
    /\ \A k \in DOMAIN link : k \in DOMAIN link' /\ link'[k] = link[k]
    /\ link'[Len(link) + 1] = r

(* What is sent goes to the end of the link. *)
LEMMA AppendedLink ==
    ASSUME link \in Seq(Requests), NEW r \in Requests, link' = Append(link, r)
    PROVE  link' \in Seq(Requests) /\ Appended(r)
BY DEF Appended

(* Nothing is asked for yet. *)
LEMMA InitiallyRest == CommandsInit => RestInv
<1> SUFFICES ASSUME CommandsInit PROVE RestInv
  OBVIOUS
<1> USE DEF CommandsInit, Init
<1>1. CommandsTypeOK
  BY DEF CommandsTypeOK, LifecycleTypeOK, Statuses, Ended, Answers
<1>2. RootsStop
  BY DEF RootsStop
<1>3. ASSUME NEW e \in Executions PROVE RestOf(e)
  BY DEF RestOf, StopWasAsked, OthersWait, BehindStop, Asked
<1> QED
  BY <1>1, <1>2, <1>3 DEF RestInv

-----------------------------------------------------------------------------
(* One lemma for each action that changes what RestInv is about.           *)

(* Only an execution that nobody stopped lets one begin. *)
LEMMA OperateKeepsRest ==
    ASSUME RestInv, NEW d \in Executions, NEW u \in Users, Operate(d, u)
    PROVE  RestInv'
<1> USE DEF RestInv, Operate, BeginUse, commandVars
<1>1. CommandsTypeOK'
  BY DEF CommandsTypeOK, LifecycleTypeOK
<1>2. RootsStop'
  BY DEF RootsStop
<1>3. ASSUME NEW e \in Executions PROVE RestOf(e)'
  <2> USE DEF RestOf, Asked
  <2>1. StopWasAsked(e)' /\ BehindStop(e)'
    BY DEF StopWasAsked, BehindStop, Excused
  <2>2. OthersWait(e)'
    BY DEF OthersWait, Awaited, CommandsTypeOK, LifecycleTypeOK
  <2>3. e \in stopped' => AtRest(e)'
    BY DEF AtRest, Pending
  <2> QED
    BY <2>1, <2>2, <2>3
<1> QED
  BY <1>1, <1>2, <1>3

(* A request is sent at the end of the link. *)
LEMMA SendKeepsRest ==
    ASSUME RestInv, NEW d \in Executions, NEW u \in Users, Send(d, u)
    PROVE  RestInv'
<1> USE NobodysNames DEF RestInv
<1>1. PICK name \in Calls \cup {Own} :
        link' = Append(link, [from |-> <<d, u>>, name |-> name, awaited |-> TRUE])
  BY DEF Send
<1> DEFINE sent == [from |-> <<d, u>>, name |-> name, awaited |-> TRUE]
<1>2. sent \in Requests /\ sent.from = <<d, u>>
  BY DEF Requests, Senders
<1>3. UNCHANGED <<status, sealed, answer, using, commands, stopped, late>>
  BY DEF Send, lifecycleVars, tableVars
<1> HIDE DEF sent
<1>4. link' \in Seq(Requests) /\ Appended(sent)
  BY <1>1, <1>2, AppendedLink DEF CommandsTypeOK, sent
<1> USE DEF Appended
<1>5. CommandsTypeOK'
  BY <1>3, <1>4 DEF CommandsTypeOK, LifecycleTypeOK
<1>6. RootsStop'
  <2>1. sent.from[2] # Root
    BY <1>2
  <2> QED
    BY <1>4, <2>1 DEF RootsStop
<1>7. ASSUME NEW e \in Executions PROVE RestOf(e)'
  <2> USE <1>3 DEF RestOf, Asked
  <2>1. StopWasAsked(e)'
    BY <1>2, <1>4 DEF StopWasAsked
  <2>2. OthersWait(e)'
    <3>1. ASSUME NEW v, Awaited(<<e, v>>) PROVE Awaited(<<e, v>>)'
      BY <3>1, <1>4 DEF Awaited
    <3> QED
      BY <3>1 DEF OthersWait
  <2>3. Asked(e) => Excused(e, <<d, u>>)'
    BY DEF OthersWait, Send, Excused
  <2>4. BehindStop(e)'
    <3> SUFFICES ASSUME NEW j \in DOMAIN link', NEW k \in DOMAIN link', j < k,
                        link'[j].from = <<e, Root>>
                 PROVE  Excused(e, link[k].from)'
      BY DEF BehindStop
    <3>1. j \in DOMAIN link /\ link[j].from = <<e, Root>>
      BY <1>4
    <3>2. CASE k \in DOMAIN link
      BY <1>4, <3>1, <3>2 DEF BehindStop, Excused
    <3>3. CASE k \notin DOMAIN link
      <4>1. link'[k].from = <<d, u>>
        BY <1>2, <1>4, <3>3
      <4> QED
        BY <2>3, <3>1, <4>1 DEF StopWasAsked
    <3> QED
      BY <3>2, <3>3
  <2>5. e \in stopped' => AtRest(e)'
    <3> SUFFICES ASSUME e \in stopped PROVE AtRest(e)'
      OBVIOUS
    <3>1. Excused(e, <<d, u>>)'
      BY <2>3 DEF StopWasAsked
    <3>2. \A k \in DOMAIN link' : Excused(e, link[k].from)'
      <4>1. \A k \in DOMAIN link : Excused(e, link[k].from)
        BY DEF AtRest, Excused
      <4>2. ASSUME NEW k \in DOMAIN link' PROVE Excused(e, link[k].from)'
        <5>1. CASE k \in DOMAIN link
          BY <5>1, <4>1, <1>4 DEF Excused
        <5>2. CASE k \notin DOMAIN link
          BY <5>2, <3>1, <1>2, <1>4
        <5> QED
          BY <5>1, <5>2
      <4> QED
        BY <4>2
    <3> QED
      BY <3>2 DEF AtRest, Excused, Pending
  <2> QED
    BY <2>1, <2>2, <2>4, <2>5
<1> QED
  BY <1>5, <1>6, <1>7

(* Another client's request is from nobody here. *)
LEMMA InterveneKeepsRest ==
    ASSUME RestInv, Intervene
    PROVE  RestInv'
<1> USE NobodysNames DEF RestInv
<1>1. PICK name \in Calls :
        link' = Append(link, [from |-> <<Host, Root>>, name |-> name, awaited |-> FALSE])
  BY DEF Intervene
<1> DEFINE sent == [from |-> <<Host, Root>>, name |-> name, awaited |-> FALSE]
<1>2. sent \in Requests /\ sent.from = <<Host, Root>> /\ sent.awaited = FALSE
  BY DEF Requests, Senders
<1>3. UNCHANGED <<status, sealed, answer, using, commands, stopped, late>>
  BY DEF Intervene, lifecycleVars, tableVars
<1> HIDE DEF sent
<1>4. link' \in Seq(Requests) /\ Appended(sent)
  BY <1>1, <1>2, AppendedLink DEF CommandsTypeOK, sent
<1> USE DEF Appended
<1>5. CommandsTypeOK'
  BY <1>3, <1>4 DEF CommandsTypeOK, LifecycleTypeOK
<1>6. RootsStop'
  BY <1>2, <1>4 DEF RootsStop
<1>7. ASSUME NEW e \in Executions PROVE RestOf(e)'
  <2> USE <1>3 DEF RestOf, Asked
  <2>1. StopWasAsked(e)'
    BY <1>2, <1>4 DEF StopWasAsked
  <2>2. OthersWait(e)'
    <3>1. ASSUME NEW v, Awaited(<<e, v>>) PROVE Awaited(<<e, v>>)'
      BY <3>1, <1>4 DEF Awaited
    <3> QED
      BY <3>1 DEF OthersWait
  <2>3. \A k \in DOMAIN link' :
            \/ k \in DOMAIN link /\ link'[k] = link[k]
            \/ link'[k].from = <<Host, Root>> /\ k = Len(link) + 1
    BY <1>2, <1>4
  <2>4. BehindStop(e)'
    BY <2>3, <1>4 DEF BehindStop, Excused
  <2>5. e \in stopped' => AtRest(e)'
    BY <2>3, <1>4 DEF AtRest, Pending
  <2> QED
    BY <2>1, <2>2, <2>4, <2>5
<1> QED
  BY <1>5, <1>6, <1>7

(* Nobody else's request changes when one sender stops waiting. *)
LEMMA AbandonKeepsRest ==
    ASSUME RestInv, NEW d \in Executions, NEW u \in Users, Abandon(d, u)
    PROVE  RestInv'
<1> USE NobodysNames DEF RestInv
<1>1. /\ link' = Unawaited(<<d, u>>)
      /\ using' = [using EXCEPT ![d] = @ \ {u}]
      /\ UNCHANGED <<status, answer, commands, stopped, late>>
  BY DEF Abandon, EndUse, tableVars
<1>2. /\ link' \in Seq(Requests) /\ DOMAIN link' = DOMAIN link
      /\ \A k \in DOMAIN link :
            /\ link'[k].from = link[k].from /\ link'[k].name = link[k].name
            /\ link'[k].awaited => link[k].awaited
            /\ link[k].from # <<d, u>> /\ link[k].awaited => link'[k].awaited
  BY <1>1, UnawaitedLink DEF CommandsTypeOK
<1>3. CommandsTypeOK'
  BY <1>1, <1>2 DEF CommandsTypeOK, LifecycleTypeOK, Abandon, EndUse
<1>4. RootsStop'
  BY <1>2 DEF RootsStop
<1>5. ASSUME NEW e \in Executions PROVE RestOf(e)'
  <2> USE <1>1, <1>2 DEF RestOf, Asked
  <2>1. StopWasAsked(e)' /\ BehindStop(e)'
    BY DEF StopWasAsked, BehindStop, Excused
  <2>2. OthersWait(e)'
    <3>1. ASSUME NEW v, <<e, v>> # <<d, u>>, Awaited(<<e, v>>) PROVE Awaited(<<e, v>>)'
      BY <3>1 DEF Awaited
    <3>2. using'[e] \subseteq using[e] /\ (e = d => u \notin using'[e])
      BY DEF CommandsTypeOK, LifecycleTypeOK
    <3> QED
      BY <3>1, <3>2 DEF OthersWait
  <2>3. e \in stopped' => AtRest(e)'
    BY DEF AtRest, Pending
  <2> QED
    BY <2>1, <2>2, <2>3
<1> QED
  BY <1>3, <1>4, <1>5

(* An answer is "confirmed" only when the stop arrived. *)
LEMMA SettleKeepsRest ==
    ASSUME RestInv, NEW d \in Executions, Settle(d)
    PROVE  RestInv'
<1> USE NobodysNames DEF RestInv
<1>1. /\ link' = Unawaited(<<d, Root>>)
      /\ answer'[d] = "confirmed" => d \in stopped
      /\ UNCHANGED <<status, sealed, using, commands, stopped, late>>
  BY DEF Settle, Answer, tableVars
<1>2. /\ link' \in Seq(Requests) /\ DOMAIN link' = DOMAIN link
      /\ \A k \in DOMAIN link :
            /\ link'[k].from = link[k].from /\ link'[k].name = link[k].name
            /\ link'[k].awaited => link[k].awaited
            /\ link[k].from # <<d, Root>> /\ link[k].awaited => link'[k].awaited
  BY <1>1, UnawaitedLink DEF CommandsTypeOK
<1>3. CommandsTypeOK'
  BY <1>1, <1>2 DEF CommandsTypeOK, LifecycleTypeOK, Settle, Answer
<1>4. RootsStop'
  BY <1>2 DEF RootsStop
<1>5. ASSUME NEW e \in Executions PROVE RestOf(e)'
  <2> USE <1>1, <1>2 DEF RestOf, Asked
  <2>1. StopWasAsked(e)' /\ BehindStop(e)'
    BY DEF StopWasAsked, BehindStop, Excused
  <2>2. OthersWait(e)'
    <3>1. ASSUME NEW v \in Users, Awaited(<<e, v>>) PROVE Awaited(<<e, v>>)'
      BY <3>1 DEF Awaited
    <3> QED
      BY <3>1 DEF OthersWait, CommandsTypeOK, LifecycleTypeOK
  <2>3. e \in stopped' => AtRest(e)'
    BY DEF AtRest, Pending
  <2>4. answer'[e] = "confirmed" => e \in stopped'
    BY DEF Settle, Answer, CommandsTypeOK, LifecycleTypeOK
  <2> QED
    BY <2>1, <2>2, <2>3, <2>4
<1> QED
  BY <1>3, <1>4, <1>5

(* The root asks the arm to stop; its call had begun, or begins with it. *)
LEMMA StoppingKeepsRest ==
    ASSUME RestInv, NEW d \in Executions, Stopping(d),
           status[d] \in {"idle", "running"},
           status' = [status EXCEPT ![d] = "stopping"],
           sealed' = [sealed EXCEPT ![d] = TRUE],
           answer' = [answer EXCEPT ![d] = "pending"],
           UNCHANGED using
    PROVE  RestInv'
<1> USE NobodysNames DEF RestInv
<1> DEFINE sent == [from |-> <<d, Root>>, name |-> "stop", awaited |-> TRUE]
<1>1. sent \in Requests /\ sent.from = <<d, Root>> /\ sent.name = "stop"
  BY DEF Requests, Senders
<1>2. /\ link' = Append(link, sent) /\ UNCHANGED <<commands, stopped>>
      /\ late' = [late EXCEPT ![d] = {u \in using[d] : ~Awaited(<<d, u>>)}]
  BY DEF Stopping, tableVars
<1> HIDE DEF sent
<1>3. link' \in Seq(Requests) /\ Appended(sent)
  BY <1>1, <1>2, AppendedLink DEF CommandsTypeOK
<1> USE DEF Appended
<1>4. CommandsTypeOK'
  BY <1>2, <1>3 DEF CommandsTypeOK, LifecycleTypeOK, Statuses
<1>5. RootsStop'
  BY <1>1, <1>3 DEF RootsStop
<1>6. \A k \in DOMAIN link' :
            \/ k \in DOMAIN link /\ link'[k] = link[k]
            \/ link'[k].from = <<d, Root>> /\ k = Len(link) + 1
  BY <1>1, <1>3
<1>7. ASSUME NEW e \in Executions PROVE RestOf(e)'
  <2> USE DEF RestOf, Asked
  <2>1. /\ e = d => ~Asked(e) /\ Asked(e)' /\ answer'[e] = "pending"
        /\ e # d => /\ Asked(e)' = Asked(e) /\ answer'[e] = answer[e]
                    /\ late'[e] = late[e]
    BY <1>2 DEF CommandsTypeOK, LifecycleTypeOK
  <2>2. StopWasAsked(e)'
    BY <1>2, <1>6, <2>1 DEF StopWasAsked
  <2>3. OthersWait(e)'
    <3>1. ASSUME NEW v, Awaited(<<e, v>>) PROVE Awaited(<<e, v>>)'
      BY <3>1, <1>3 DEF Awaited
    <3>2. CASE e = d
      <4>1. late'[e] = {u \in using[e] : ~Awaited(<<e, u>>)}
        BY <1>2, <3>2 DEF CommandsTypeOK
      <4> QED
        BY <3>1, <4>1 DEF OthersWait
    <3>3. CASE e # d
      BY <2>1, <3>1, <3>3 DEF OthersWait
    <3> QED
      BY <3>2, <3>3
  <2>4. BehindStop(e)'
    <3>1. CASE e = d
      BY <1>3, <1>6, <2>1, <3>1 DEF BehindStop, Excused, StopWasAsked
    <3>2. CASE e # d
      BY <1>3, <1>6, <2>1, <3>2 DEF BehindStop, Excused
    <3> QED
      BY <3>1, <3>2
  <2>5. e \in stopped' => AtRest(e)'
    <3>1. CASE e = d
      BY <1>2, <2>1, <3>1 DEF StopWasAsked
    <3>2. CASE e # d
      BY <1>2, <1>6, <2>1, <3>2 DEF AtRest, Pending
    <3> QED
      BY <3>1, <3>2
  <2> QED
    BY <1>2, <2>1, <2>2, <2>3, <2>4, <2>5
<1> QED
  BY <1>4, <1>5, <1>7

(* What is left on the link when its oldest request is off it; who waited  *)
(* for that one ends its operation.                                        *)
Arrived ==
    /\ link # <<>> /\ link' = Tail(link)
    /\ EndOf(Head(link))
    /\ UNCHANGED late

(* The order of the others stays. *)
LEMMA ArrivedKeepsRest ==
    ASSUME RestInv, Arrived
    PROVE  /\ Head(link) = link[1] /\ link[1] \in Requests /\ Len(link) \in Nat \ {0}
           /\ link' \in Seq(Requests) /\ DOMAIN link' = 1..(Len(link) - 1)
           /\ \A k \in DOMAIN link' : k + 1 \in DOMAIN link /\ link'[k] = link[k + 1]
           /\ LifecycleTypeOK' /\ RootsStop'
           /\ UNCHANGED <<status, answer>>
           /\ \A e \in Executions : OthersWait(e)' /\ BehindStop(e)'
<1> USE NobodysNames DEF RestInv
<1>1. /\ Head(link) = link[1] /\ link[1] \in Requests /\ Len(link) \in Nat \ {0}
      /\ DOMAIN link = 1..Len(link)
      /\ link' \in Seq(Requests) /\ DOMAIN link' = 1..(Len(link) - 1)
      /\ \A k \in DOMAIN link' : k + 1 \in DOMAIN link /\ link'[k] = link[k + 1]
  BY DEF Arrived, CommandsTypeOK
<1>2. LifecycleTypeOK' /\ UNCHANGED <<status, answer>> /\ late' = late
  <2>1. ASSUME NEW p, NEW u, EndUse(p, u) PROVE LifecycleTypeOK' /\ UNCHANGED <<status, answer>>
    <3>1. using' \in [Executions -> SUBSET Users]
      BY <2>1 DEF EndUse, CommandsTypeOK, LifecycleTypeOK
    <3>2. sealed' \in [Executions -> BOOLEAN]
      BY <2>1 DEF EndUse, CommandsTypeOK, LifecycleTypeOK
    <3> QED
      BY <2>1, <3>1, <3>2 DEF EndUse, CommandsTypeOK, LifecycleTypeOK
  <2>2. CASE UNCHANGED lifecycleVars
    BY <2>2 DEF Arrived, lifecycleVars, CommandsTypeOK, LifecycleTypeOK
  <2>3. UNCHANGED lifecycleVars \/ \E p, u : EndUse(p, u)
    BY Zenon DEF Arrived, EndOf
  <2> QED
    BY <2>1, <2>2, <2>3 DEF Arrived
<1>3. RootsStop'
  BY <1>1 DEF RootsStop
<1>4. ASSUME NEW e \in Executions PROVE OthersWait(e)' /\ BehindStop(e)'
  <2>1. BehindStop(e)
    BY DEF RestOf
  <2>2. BehindStop(e)'
    BY <1>1, <1>2, <2>1 DEF BehindStop, Excused
  <2>3. ASSUME NEW v \in using'[e], Awaited(<<e, v>>) PROVE Awaited(<<e, v>>)'
    <3>1. PICK k \in DOMAIN link : link[k].from = <<e, v>> /\ link[k].awaited
      BY <2>3 DEF Awaited
    <3>2. v \in Users
      BY <1>2 DEF LifecycleTypeOK
    <3>3. k # 1
      <4> SUFFICES ASSUME k = 1 PROVE FALSE
        OBVIOUS
      <4>1. EndUse(e, v)
        BY <1>1, <3>1, <3>2 DEF Arrived, EndOf
      <4> QED
        BY <4>1 DEF EndUse, CommandsTypeOK, LifecycleTypeOK
    <3>4. k - 1 \in DOMAIN link' /\ link'[k - 1] = link[k]
      BY <1>1, <3>3
    <3> QED
      BY <3>1, <3>4 DEF Awaited
  <2>4. using'[e] \subseteq using[e]
    <3>1. ASSUME NEW p, NEW u, EndUse(p, u) PROVE using'[e] \subseteq using[e]
      BY <3>1 DEF EndUse, CommandsTypeOK, LifecycleTypeOK
    <3>2. CASE UNCHANGED lifecycleVars
      BY <3>2 DEF lifecycleVars
    <3>3. UNCHANGED lifecycleVars \/ \E p, u : EndUse(p, u)
      BY Zenon DEF Arrived, EndOf
    <3> QED
      BY <3>1, <3>2, <3>3
  <2>5. OthersWait(e)'
    BY <1>2, <2>3, <2>4 DEF OthersWait, RestOf, Asked
  <2> QED
    BY <2>2, <2>5
<1> QED
  BY <1>1, <1>2, <1>3, <1>4

(* A request that is lost does less. *)
LEMMA LoseKeepsRest ==
    ASSUME RestInv, Lose
    PROVE  RestInv'
<1> USE DEF RestInv
<1>1. Arrived /\ UNCHANGED <<commands, stopped>>
  BY DEF Lose, Arrived, tableVars
<1>2. /\ DOMAIN link' = 1..(Len(link) - 1) /\ link' \in Seq(Requests)
      /\ \A k \in DOMAIN link' : k + 1 \in DOMAIN link /\ link'[k] = link[k + 1]
      /\ LifecycleTypeOK' /\ RootsStop' /\ UNCHANGED <<status, answer, late>>
      /\ \A e \in Executions : OthersWait(e)' /\ BehindStop(e)'
  BY <1>1, ArrivedKeepsRest DEF Arrived
<1>3. CommandsTypeOK'
  BY <1>1, <1>2 DEF CommandsTypeOK
<1>4. ASSUME NEW e \in Executions PROVE StopWasAsked(e)' /\ (e \in stopped' => AtRest(e)')
  BY <1>1, <1>2 DEF RestOf, StopWasAsked, Asked, AtRest, Pending
<1> QED
  BY <1>1, <1>2, <1>3, <1>4 DEF RestOf

(* A stop that arrives finds only the late behind it, and empties the      *)
(* queue; what arrives after it is of the late.                            *)
LEMMA DeliverKeepsRest ==
    ASSUME RestInv, Deliver
    PROVE  RestInv'
<1> USE DEF RestInv
<1> DEFINE request == Head(link)
<1>1. PICK accepted \in BOOLEAN, replied \in BOOLEAN :
        /\ EndOf(request)
        /\ commands' = IF accepted THEN Handled(request) ELSE commands
        /\ stopped' = stopped \cup
            (IF accepted /\ replied /\ request.awaited /\ request.from[2] = Root
             THEN {request.from[1]} ELSE {})
  BY Zenon DEF Deliver
<1>2. Arrived
  BY <1>1 DEF Deliver, Arrived
<1>3. /\ request = link[1] /\ link[1] \in Requests /\ 1 \in DOMAIN link
      /\ DOMAIN link' = 1..(Len(link) - 1) /\ link' \in Seq(Requests)
      /\ \A k \in DOMAIN link' : k + 1 \in DOMAIN link /\ link'[k] = link[k + 1] /\ 1 < k + 1
      /\ LifecycleTypeOK' /\ RootsStop' /\ UNCHANGED <<status, answer, late>>
      /\ \A e \in Executions : OthersWait(e)' /\ BehindStop(e)'
  BY <1>2, ArrivedKeepsRest DEF Arrived, CommandsTypeOK
<1> HIDE DEF request
<1>4. commands' \in Seq(Commands)
  BY <1>1, <1>3, HandledQueue DEF CommandsTypeOK
<1>5. ASSUME NEW i \in Pending'
      PROVE  /\ \/ i \in Pending /\ commands'[i].from = commands[i].from
                \/ commands'[i].from = request.from
             /\ accepted => ~Discards(request.name)
  BY <1>1, <1>3, HandledQueue DEF CommandsTypeOK, Pending
<1>6. CommandsTypeOK'
  BY <1>3, <1>4 DEF CommandsTypeOK
<1>7. ASSUME NEW e \in Executions PROVE RestOf(e)'
  <2> USE DEF RestOf
  <2>1. CASE e \in stopped
    <3>1. AtRest(e)
      BY <2>1
    <3>2. AtRest(e)'
      BY <1>3, <1>5, <3>1 DEF AtRest
    <3>3. StopWasAsked(e)' /\ e \in stopped'
      BY <1>1, <1>3, <2>1 DEF StopWasAsked, Asked
    <3> QED
      BY <1>3, <3>2, <3>3
  <2>2. CASE e \notin stopped /\ e \in stopped'
    <3>1. accepted /\ request.awaited /\ request.from = <<e, Root>>
      BY <1>1, <1>3, <2>2 DEF Requests, Senders
    <3>2. request.name = "stop"
      BY <1>3, <3>1 DEF RootsStop
    <3>3. Pending' = {}
      BY <1>5, <3>1, <3>2 DEF Discards
    <3>4. \A k \in DOMAIN link' : Excused(e, link[k].from)'
      BY <1>3, <3>1 DEF BehindStop, Excused
    <3>5. AtRest(e)'
      BY <3>3, <3>4 DEF AtRest, Excused
    <3>6. StopWasAsked(e)'
      BY <1>3, <3>1 DEF StopWasAsked, Asked
    <3> QED
      BY <1>3, <2>2, <3>5, <3>6
  <2>3. CASE e \notin stopped'
    <3>1. e \notin stopped
      BY <1>1, <2>3
    <3>2. StopWasAsked(e)'
      BY <1>3, <2>3 DEF StopWasAsked, Asked
    <3> QED
      BY <1>3, <2>3, <3>1, <3>2
  <2> QED
    BY <2>1, <2>2, <2>3
<1> QED
  BY <1>3, <1>6, <1>7

(* A command that completes, or resolves, moves nothing more. *)
LEMMA QueueKeepsRest ==
    ASSUME RestInv, Complete \/ \E i \in view : Resolve(i)
    PROVE  RestInv'
<1> USE DEF RestInv
<1>1. /\ UNCHANGED <<status, sealed, answer, using, link, stopped, late>>
      /\ commands' \in Seq(Commands)
      /\ \A i \in Pending' : i \in Pending /\ commands'[i] = commands[i]
  <2>1. CASE \E i \in view : Resolve(i)
    BY <2>1 DEF Resolve, lifecycleVars, CommandsTypeOK, Pending
  <2>2. CASE Complete
    <3> DEFINE i == Min(Pending)
    <3>1. commands' = [commands EXCEPT ![i].state = "completed"]
      BY <2>2 DEF Complete
    <3> HIDE DEF i
    <3>2. commands \in Seq(Commands)
      BY DEF CommandsTypeOK
    <3>3. /\ commands' \in Seq(Commands) /\ DOMAIN commands' = DOMAIN commands
          /\ \A k \in DOMAIN commands :
                IF k = i THEN commands'[k].state = "completed" ELSE commands'[k] = commands[k]
      <4>1. DOMAIN commands = 1..Len(commands) /\ Len(commands) \in Nat
            /\ \A k \in DOMAIN commands : commands[k] \in Commands
        BY <3>2
      <4>2. commands' \in [1..Len(commands) -> Commands]
        BY <3>1, <4>1 DEF Commands
      <4>3. commands' \in Seq(Commands)
        BY <4>1, <4>2, SeqDef
      <4> QED
        BY <3>1, <4>1, <4>2, <4>3 DEF Commands
    <3> QED
      BY <2>2, <3>3 DEF Complete, lifecycleVars, Pending
  <2> QED
    BY <2>1, <2>2
<1>2. CommandsTypeOK' /\ RootsStop'
  BY <1>1 DEF CommandsTypeOK, LifecycleTypeOK, RootsStop
<1>3. ASSUME NEW e \in Executions PROVE RestOf(e)'
  <2>1. AtRest(e) => AtRest(e)'
    BY <1>1 DEF AtRest
  <2>2. StopWasAsked(e)' /\ OthersWait(e)' /\ BehindStop(e)'
    BY <1>1 DEF RestOf, StopWasAsked, OthersWait, BehindStop, Awaited, Asked, Excused
  <2> QED
    BY <1>1, <2>1, <2>2 DEF RestOf
<1> QED
  BY <1>2, <1>3

(* Steps of an execution that send nothing. *)
LEMMA SilentKeepsRest ==
    ASSUME RestInv, UNCHANGED commandVars, LifecycleTypeOK',
           UNCHANGED using,
           \A e \in Executions : /\ Asked(e)' = Asked(e)
                                 /\ answer'[e] = answer[e]
    PROVE  RestInv'
<1> USE DEF RestInv, commandVars
<1>1. CommandsTypeOK' /\ RootsStop'
  BY DEF CommandsTypeOK, RootsStop
<1>2. ASSUME NEW e \in Executions PROVE RestOf(e)'
  <2>1. AtRest(e)' = AtRest(e)
    BY DEF AtRest, Pending
  <2>2. StopWasAsked(e)' /\ OthersWait(e)' /\ BehindStop(e)'
    BY DEF RestOf, StopWasAsked, OthersWait, BehindStop, Awaited, Excused
  <2> QED
    BY <2>1, <2>2 DEF RestOf
<1> QED
  BY <1>1, <1>2

(* One lemma for all steps of an execution. *)
LEMMA ExecutionKeepsRest ==
    ASSUME RestInv, NEW d \in Executions,
           \/ Begin(d) \/ AskStop(d)
           \/ (Seal(d) \/ End(d) \/ Report(d)) /\ UNCHANGED commandVars
    PROVE  RestInv'
<1>1. LifecycleTypeOK
  BY DEF RestInv, CommandsTypeOK
<1>2. CASE AskStop(d)
  BY <1>2, StoppingKeepsRest DEF AskStop, RequestStop
<1>3. CASE Begin(d)
  <2>1. CASE status'[d] = "stopping"
    <3>1. /\ status[d] = "idle" /\ UNCHANGED using
          /\ status' = [status EXCEPT ![d] = "stopping"]
          /\ sealed' = [sealed EXCEPT ![d] = TRUE]
          /\ answer' = [answer EXCEPT ![d] = "pending"]
      BY <1>1, <1>3, <2>1 DEF Begin, Start, LifecycleTypeOK
    <3>2. Stopping(d)
      BY <1>3, <2>1 DEF Begin
    <3> QED
      BY <3>1, <3>2, StoppingKeepsRest
  <2>2. CASE status'[d] # "stopping"
    <3>1. UNCHANGED <<sealed, answer, using, commandVars>>
      BY <1>1, <1>3, <2>2 DEF Begin, Start, LifecycleTypeOK
    <3>2. LifecycleTypeOK'
      BY <1>1, <1>3, <2>2, <3>1 DEF Begin, Start, LifecycleTypeOK, Statuses, Ended
    <3>3. \A e \in Executions : Asked(e)' = Asked(e)
      BY <1>1, <1>3, <2>2 DEF Begin, Start, LifecycleTypeOK, Asked
    <3> QED
      BY <3>1, <3>2, <3>3, SilentKeepsRest
  <2> QED
    BY <2>1, <2>2
<1>4. CASE (Seal(d) \/ End(d) \/ Report(d)) /\ UNCHANGED commandVars
  <2>1. LifecycleTypeOK'
    BY <1>1, <1>4 DEF Seal, End, Report, LifecycleTypeOK, Statuses, Ended
  <2>2. UNCHANGED <<answer, using>>
    BY <1>4 DEF Seal, End, Report
  <2>3. \A e \in Executions : Asked(e)' = Asked(e)
    BY <1>1, <1>4 DEF Seal, End, Report, LifecycleTypeOK, Asked
  <2> QED
    BY <1>4, <2>1, <2>2, <2>3, SilentKeepsRest
<1> QED
  BY <1>2, <1>3, <1>4

(* And nothing happens otherwise. *)
LEMMA StutterKeepsRest ==
    ASSUME RestInv, UNCHANGED <<lifecycleVars, commandVars>>
    PROVE  RestInv'
<1>1. LifecycleTypeOK' /\ UNCHANGED <<using, status, answer>>
  BY DEF RestInv, CommandsTypeOK, LifecycleTypeOK, lifecycleVars
<1> QED
  BY <1>1, SilentKeepsRest DEF Asked

-----------------------------------------------------------------------------
(* The invariant holds of every behaviour. *)
LEMMA RestInvariant == CommandsSpec => []RestInv
<1>1. RestInv /\ [CommandsNext]_<<lifecycleVars, commandVars>> => RestInv'
  <2> SUFFICES ASSUME RestInv, [CommandsNext]_<<lifecycleVars, commandVars>>
               PROVE  RestInv'
    OBVIOUS
  <2>1. ASSUME NEW e \in Executions,
               \/ Begin(e) \/ AskStop(e)
               \/ (Seal(e) \/ End(e) \/ Report(e)) /\ UNCHANGED commandVars
        PROVE  RestInv'
    BY <2>1, ExecutionKeepsRest
  <2>2. ASSUME NEW e \in Executions, Settle(e) PROVE RestInv'
    BY <2>2, SettleKeepsRest
  <2>3. ASSUME NEW e \in Executions, NEW u \in Users,
               Operate(e, u) \/ Send(e, u) \/ Abandon(e, u)
        PROVE  RestInv'
    BY <2>3, OperateKeepsRest, SendKeepsRest, AbandonKeepsRest
  <2>4. CASE Intervene \/ Deliver \/ Lose
    BY <2>4, InterveneKeepsRest, DeliverKeepsRest, LoseKeepsRest
  <2>5. CASE Complete \/ \E i \in view : Resolve(i)
    BY <2>5, QueueKeepsRest
  <2>6. CASE UNCHANGED <<lifecycleVars, commandVars>>
    BY <2>6, StutterKeepsRest
  <2> QED
    BY <2>1, <2>2, <2>3, <2>4, <2>5, <2>6 DEF CommandsNext
<1> QED
  BY <1>1, InitiallyRest, PTL DEF CommandsSpec

(* Once a cancelled skill reports its stop as confirmed, nothing that it   *)
(* asked for moves the arm or is on its way, except from operations that   *)
(* were inside the client, their command not sent, when the stop was:      *)
(* whatever is lost, refused or abandoned, for any executions, users,      *)
(* calls, markers and bounds (_Guard.call, _Execution.stop).               *)
THEOREM ArmComesToRest == CommandsSpec => []ArmAtRest
<1>1. RestInv => ArmAtRest
  BY DEF RestInv, RestOf, ArmAtRest
<1> QED
  BY <1>1, RestInvariant, PTL

-----------------------------------------------------------------------------
(* What RobotClient asks of a controller, by the names of its methods.     *)
Discarding == {"stop", "estop", "teleport", "reset_state"}
Numbered ==
    {"move_j", "move_l", "move_c", "move_s", "move_p", "home", "select_tool", "set_tcp_offset",
     "set_tcp_transform", "write_io", "tool_action", "checkpoint", "delay"}

(* A marker that says so. *)
Tells(name, m) ==
    /\ m # Unmarked
    /\ m.cancels <=> name \in Discarding
    /\ MintsIndex(m) <=> name \in Numbered

(* Each section of the client marks its methods as they are. *)
LEMMA SectionsTell ==
    \A section \in Sections : \A name \in DOMAIN section : Tells(name, section[name])
<1> USE DEF Tells, Marker, Unmarked, MintsIndex, Queueing, Discarding, Numbered
<1> DEFINE jog(shape) == Unindexed(Move(shape))
<1>0. \A shape : /\ jog(shape).kind = "motion" /\ jog(shape).cancels = FALSE
                 /\ jog(shape).mints = "no" /\ jog(shape) # Unmarked
  <2> TAKE shape
  <2>1. /\ DOMAIN Move(shape) = {"kind", "move_type", "cancels", "mints"}
        /\ Move(shape).kind = "motion" /\ Move(shape).cancels = FALSE
    BY DEF Move
  <2>2. /\ jog(shape).kind = "motion" /\ jog(shape).cancels = FALSE
        /\ jog(shape).mints = "no"
    BY <2>1 DEF Unindexed
  <2>3. Unmarked.kind = "none"
    OBVIOUS
  <2> HIDE DEF jog, Unmarked
  <2> QED
    BY <2>2, <2>3
<1> HIDE DEF jog
<1>1. \A name \in DOMAIN Connection : Tells(name, Connection[name])
  BY DEF Connection
<1>2. \A name \in DOMAIN Moves : Tells(name, Moves[name])
  BY DEF Moves, Move
<1>3. \A name \in DOMAIN Splines : Tells(name, Splines[name])
  BY DEF Splines, Move
<1>4. \A name \in DOMAIN Streams : Tells(name, Streams[name])
  <2>1. \A name \in DOMAIN Streams : Streams[name] = jog("jog")
    BY DEF Streams, Stream, jog
  <2>2. \A name \in DOMAIN Streams : name \notin Discarding /\ name \notin Numbered
    BY DEF Streams
  <2> QED
    BY <1>0, <2>1, <2>2
<1>5. \A name \in DOMAIN Waits : Tells(name, Waits[name])
  BY DEF Waits
<1>6. \A name \in DOMAIN Controls : Tells(name, Controls[name])
  BY DEF Controls, Cancelling
<1>7. \A name \in DOMAIN System : Tells(name, System[name])
  BY DEF System, Cancelling
<1>8. \A name \in DOMAIN World : Tells(name, World[name])
  BY DEF World
<1>9. \A name \in DOMAIN Readings : Tells(name, Readings[name])
  BY DEF Readings
<1>10. \A name \in DOMAIN Reports : Tells(name, Reports[name])
  BY DEF Reports
<1>11. \A name \in DOMAIN Setup : Tells(name, Setup[name])
  BY DEF Setup
<1>12. \A name \in DOMAIN Payload : Tells(name, Payload[name])
  <2>1. Payload.estimate_payload = jog("joints")
    BY DEF Payload, jog
  <2>2. /\ DOMAIN Payload = {"set_payload", "estimate_payload", "payload"}
        /\ Payload.set_payload = Marker("system") /\ Payload.payload = Marker("query")
    BY DEF Payload
  <2>3. \A name \in DOMAIN Payload : name \notin Discarding /\ name \notin Numbered
    BY DEF Payload
  <2> QED
    BY <1>0, <2>1, <2>2, <2>3
<1>13. \A name \in DOMAIN Tool : Tells(name, Tool[name])
  BY DEF Tool, Cancelling
<1> QED
  BY <1>1, <1>2, <1>3, <1>4, <1>5, <1>6, <1>7, <1>8, <1>9, <1>10, <1>11, <1>12, <1>13 DEF Sections

(* So does the client. *)
LEMMA ClientTells ==
    ASSUME NEW name \in DOMAIN RobotClient PROVE Tells(name, RobotClient[name])
<1> DEFINE section == CHOOSE s \in Sections : name \in DOMAIN s
<1>1. \E s \in Sections : name \in DOMAIN s
  BY DEF RobotClient
<1>2. section \in Sections /\ name \in DOMAIN section
  BY <1>1
<1>3. RobotClient[name] = section[name]
  BY DEF RobotClient
<1> HIDE DEF section
<1> QED
  BY <1>2, <1>3, SectionsTell

(* The names above are methods of the client. *)
LEMMA NamesListed == Discarding \cup Numbered \cup {"estimate_payload"} \subseteq DOMAIN RobotClient
<1>1. DOMAIN RobotClient = UNION {DOMAIN section : section \in Sections}
  BY DEF RobotClient
<1>2. /\ \A name \in {"stop", "estop"} : name \in DOMAIN Controls
      /\ "teleport" \in DOMAIN System
      /\ \A name \in {"move_j", "move_l", "move_c", "home"} : name \in DOMAIN Moves
      /\ \A name \in {"move_s", "move_p"} : name \in DOMAIN Splines
      /\ \A name \in {"select_tool", "set_tcp_offset", "set_tcp_transform"} : name \in DOMAIN Setup
      /\ \A name \in {"write_io", "tool_action", "checkpoint", "delay", "reset_state"} :
            name \in DOMAIN Tool
      /\ "estimate_payload" \in DOMAIN Payload
  BY DEF Controls, System, Moves, Splines, Setup, Tool, Payload
<1>3. {Controls, System, Moves, Splines, Setup, Tool, Payload} \subseteq Sections
  BY DEF Sections
<1>4. \A s \in Sections : DOMAIN s \subseteq DOMAIN RobotClient
  BY <1>1
<1> QED
  BY <1>2, <1>3, <1>4 DEF Discarding, Numbered

(* The controller handles what the table says of a method of the client.   *)
LEMMA ControllerTells ==
    ASSUME NEW name \in DOMAIN RobotClient
    PROVE  /\ Discards(name) <=> name \in Discarding
           /\ Indexed(name) <=> name \in Numbered
BY CommandsAssumption DEF Discards, Indexed, Queues, Discarding, Numbered

(* And its own command as it is marked. *)
LEMMA OwnTells ==
    /\ Discards(Own) <=> own.cancels
    /\ Queues(Own) <=> own.kind \in {"motion", "queued"}
    /\ Indexed(Own) <=> Queues(Own) /\ own.mints # "no"
<1>1. \A name \in Discarding \cup Numbered \cup {"estimate_payload"} : Own # name
  BY CommandsAssumption, NamesListed
<1>2. Discards(Own) <=> own.cancels
  BY <1>1 DEF Discards, Discarding
<1>3. Queues(Own) <=> own.kind \in {"motion", "queued"}
  BY <1>1 DEF Queues, Numbered
<1>4. Indexed(Own) <=> Queues(Own) /\ own.mints # "no"
  BY <1>1 DEF Indexed
<1> QED
  BY <1>2, <1>3, <1>4

(* There is one class to choose from. *)
LEMMA LeastOfOne == ASSUME NEW n \in Nat PROVE Min({n}) = n
BY DEF Min

(* The backend's own command may be marked, and carries a marker that      *)
(* command(...) takes.                                                     *)
OwnAccepted ==
    /\ MarkerAccepted(own)
    /\ own.cancels \in BOOLEAN /\ own.mints \in {"default", "yes", "no"}

Looked(name) == IF name \in Unclassified(ClientMro) THEN Unmarked ELSE Table(ClientMro)[name]

(* The wrapper finds the marker, *)
LEMMA LookedUp ==
    ASSUME NEW name \in Calls \cup {Own, "stop"}
    PROVE  Looked(name) = IF name = Own THEN own ELSE RobotClient[name]
<1> DEFINE mro == ClientMro
           marked == {k \in DOMAIN mro : name \in DOMAIN mro[k] /\ mro[k][name] # Unmarked}
<1>1. /\ DOMAIN mro = {1, 2}
      /\ mro[1] = [n \in Calls \cup {Own} |-> IF n = Own THEN own ELSE Unmarked]
      /\ mro[2] = RobotClient
  BY DEF ClientMro
<1>2. name # Own => name \in DOMAIN RobotClient
  BY CommandsAssumption, NamesListed DEF Discarding
<1>3. name \in Methods(mro)
  BY <1>1, <1>2 DEF Methods
<1> HIDE DEF mro
<1>4. marked = IF name = Own THEN (IF own = Unmarked THEN {} ELSE {1}) ELSE {2}
  BY <1>1, <1>2, CommandsAssumption, ClientTells DEF Tells
<1>5. SpecOf(mro, name) = IF marked = {} THEN Unmarked ELSE mro[Min(marked)][name]
  BY DEF SpecOf
<1> HIDE DEF marked
<1>6. SpecOf(mro, name) = IF name = Own THEN own ELSE RobotClient[name]
  BY <1>1, <1>2, <1>4, <1>5, LeastOfOne
<1> QED
  BY <1>3, <1>6 DEF Looked, Unclassified, Table, mro

(* and follows what the controller does. *)
LEMMA FollowsController ==
    ASSUME OwnAccepted, NEW name \in Calls \cup {Own, "stop"}
    PROVE  /\ Followed(name) = (IF Discards(name) THEN {} ELSE view)
                                \cup (IF Indexed(name) THEN {Len(commands) + 1} ELSE {})
           /\ Indexed(name) => Queues(name) /\ ~Discards(name)
<1> DEFINE spec == Looked(name)
<1>1. (spec.cancels <=> Discards(name)) /\ (MintsIndex(spec) <=> Indexed(name))
  <2>1. CASE name = Own
    BY <2>1, LookedUp, OwnTells DEF OwnAccepted, MarkerAccepted, MintsIndex, Queueing
  <2>2. CASE name # Own
    <3>1. spec = RobotClient[name] /\ name \in DOMAIN RobotClient
      BY <2>2, LookedUp, CommandsAssumption, NamesListed DEF Discarding
    <3> QED
      BY <3>1, ClientTells, ControllerTells DEF Tells
  <2> QED
    BY <2>1, <2>2
<1>2. Followed(name) = (IF spec.cancels THEN {} ELSE view)
                         \cup (IF MintsIndex(spec) THEN {Value(name)} ELSE {})
  BY DEF Followed, Looked
<1>3. Indexed(name) => Value(name) = Len(commands) + 1
  BY DEF Value
<1>4. Indexed(name) => Queues(name) /\ ~Discards(name)
  <2>1. CASE name = Own
    BY <2>1, OwnTells DEF OwnAccepted, MarkerAccepted
  <2>2. CASE name # Own
    <3>1. name \in DOMAIN RobotClient
      BY <2>2, CommandsAssumption, NamesListed DEF Discarding
    <3> QED
      BY <3>1, ControllerTells DEF Discarding, Numbered, Indexed
  <2> QED
    BY <2>1, <2>2
<1> QED
  BY <1>1, <1>2, <1>3, <1>4

(* The wrapper's part of the invariant: an index was returned for a        *)
(* command that the controller had queued.                                 *)
PreviewInv == OwnAccepted /\ told \subseteq DOMAIN commands /\ PreviewAgrees

(* A queue after a request: what it does to the commands there were.       *)
LEMMA HandledStates ==
    ASSUME commands \in Seq(Commands), NEW request \in Requests
    PROVE  LET after == Handled(request)
           IN  /\ DOMAIN commands \subseteq DOMAIN after
               /\ ~Discards(request.name) =>
                    /\ \A i \in DOMAIN commands : after[i] = commands[i]
                    /\ Queues(request.name) =>
                        /\ DOMAIN after = 1..(Len(commands) + 1)
                        /\ after[Len(commands) + 1].state = "queued"
                    /\ ~Queues(request.name) => after = commands
               /\ Discards(request.name) =>
                    /\ DOMAIN after = DOMAIN commands
                    /\ \A i \in DOMAIN commands :
                        /\ after[i].state # "queued"
                        /\ after[i].state = "cancelled" =>
                            i \in Pending \/ commands[i].state = "cancelled"
<1> DEFINE left(i) == [commands[i] EXCEPT !.state = IF i \in Pending THEN "cancelled" ELSE @]
<1>1. /\ DOMAIN commands = 1..Len(commands) /\ Len(commands) \in Nat
      /\ \A i \in DOMAIN commands : commands[i] \in Commands
  OBVIOUS
<1>2. CASE Discards(request.name)
  <2>1. Handled(request) = [i \in DOMAIN commands |-> left(i)]
    BY <1>2, Zenon DEF Handled
  <2>2. \A i \in DOMAIN commands :
            left(i).state = IF i \in Pending THEN "cancelled" ELSE commands[i].state
    BY <1>1 DEF Commands
  <2>3. \A i \in DOMAIN commands : i \in Pending <=> commands[i].state = "queued"
    BY DEF Pending
  <2> HIDE DEF left
  <2> QED
    BY <1>2, <2>1, <2>2, <2>3
<1>3. CASE ~Discards(request.name) /\ Queues(request.name)
  <2> DEFINE new == [from |-> request.from, state |-> "queued"]
  <2>1. Handled(request) = Append(commands, new)
    BY <1>3, Zenon DEF Handled
  <2>2. new \in Commands /\ new.state = "queued"
    BY DEF Requests, Commands
  <2> HIDE DEF new
  <2>3. /\ Len(Append(commands, new)) = Len(commands) + 1
        /\ DOMAIN Append(commands, new) = 1..(Len(commands) + 1)
        /\ Append(commands, new)[Len(commands) + 1] = new
        /\ \A i \in 1..Len(commands) : Append(commands, new)[i] = commands[i]
    BY <1>1, <2>2, AppendProperties, LenProperties
  <2>4. DOMAIN commands \subseteq 1..(Len(commands) + 1)
    BY <1>1
  <2> QED
    BY <1>1, <1>3, <2>1, <2>2, <2>3, <2>4
<1>4. CASE ~Discards(request.name) /\ ~Queues(request.name)
  BY <1>4, Zenon DEF Handled
<1> QED
  BY <1>2, <1>3, <1>4, Zenon

(* A request that arrives, is refused, or whose reply is lost. *)
LEMMA DeliverKeepsPreview ==
    ASSUME CommandsTypeOK, PreviewInv, Deliver
    PROVE  PreviewInv'
<1> DEFINE request == Head(link)
           last == Len(commands) + 1
<1>1. PICK accepted \in BOOLEAN, heard \in BOOLEAN :
        /\ heard => accepted
        /\ commands' = IF accepted THEN Handled(request) ELSE commands
        /\ told' = told \cup (IF heard /\ Indexed(request.name)
                              THEN {Value(request.name)} ELSE {})
        /\ view' = IF heard THEN Followed(request.name) ELSE view
        /\ silent' = silent \cup (IF accepted /\ ~heard /\ Discards(request.name)
                                  THEN Pending ELSE {})
  <2>1. PICK accepted \in BOOLEAN, replied \in BOOLEAN :
          LET heard == accepted /\ replied /\ request.awaited
          IN  /\ commands' = IF accepted THEN Handled(request) ELSE commands
              /\ told' = told \cup (IF heard /\ Indexed(request.name)
                                    THEN {Value(request.name)} ELSE {})
              /\ view' = IF heard THEN Followed(request.name) ELSE view
              /\ silent' = silent \cup (IF accepted /\ ~heard /\ Discards(request.name)
                                        THEN Pending ELSE {})
    BY Zenon DEF Deliver
  <2>2. (accepted /\ replied /\ request.awaited) \in BOOLEAN
    OBVIOUS
  <2> HIDE DEF request
  <2> QED
    BY <2>1, <2>2, Zenon
<1>2. request \in Requests /\ own' = own
  BY DEF Deliver, CommandsTypeOK
<1> HIDE DEF request
<1>3. /\ Followed(request.name) = (IF Discards(request.name) THEN {} ELSE view)
                                    \cup (IF Indexed(request.name) THEN {last} ELSE {})
      /\ Indexed(request.name) => Queues(request.name) /\ ~Discards(request.name)
      /\ Indexed(request.name) => Value(request.name) = last
  BY <1>2, FollowsController DEF PreviewInv, Requests, Value
<1>4. DOMAIN commands = 1..Len(commands) /\ Len(commands) \in Nat /\ last \notin DOMAIN commands
  BY DEF CommandsTypeOK
<1>5. OwnAccepted'
  BY <1>2 DEF PreviewInv, OwnAccepted
<1> HIDE DEF last
<1> USE DEF PreviewInv, PreviewAgrees
<1>6. CASE ~accepted
  BY <1>1, <1>5, <1>6 DEF Pending
<1>7. CASE accepted /\ Discards(request.name)
  <2>1. /\ DOMAIN commands' = DOMAIN commands /\ Pending' = {}
        /\ \A i \in DOMAIN commands :
            commands'[i].state = "cancelled" => i \in Pending \/ commands[i].state = "cancelled"
    <3>1. commands' = Handled(request) /\ commands \in Seq(Commands)
      BY <1>1, <1>7 DEF CommandsTypeOK
    <3>2. /\ DOMAIN commands' = DOMAIN commands
          /\ \A i \in DOMAIN commands :
                /\ commands'[i].state # "queued"
                /\ commands'[i].state = "cancelled" =>
                    i \in Pending \/ commands[i].state = "cancelled"
      BY <1>2, <1>7, <3>1, HandledStates
    <3> QED
      BY <3>2 DEF Pending
  <2>2. told' = told /\ view' = IF heard THEN {} ELSE view
    BY <1>1, <1>3, <1>7
  <2>3. ~heard => silent' = silent \cup Pending
    BY <1>1, <1>7
  <2> QED
    BY <1>5, <2>1, <2>2, <2>3
<1>8. CASE accepted /\ ~Discards(request.name)
  <2>1. /\ \A i \in DOMAIN commands : i \in DOMAIN commands' /\ commands'[i] = commands[i]
        /\ Queues(request.name) => /\ DOMAIN commands' = DOMAIN commands \cup {last}
                                   /\ commands'[last].state = "queued"
        /\ ~Queues(request.name) => commands' = commands
    <3>1. commands' = Handled(request) /\ commands \in Seq(Commands)
      BY <1>1, <1>8 DEF CommandsTypeOK
    <3>2. 1..(Len(commands) + 1) = DOMAIN commands \cup {last}
      BY <1>4 DEF last
    <3> QED
      BY <1>2, <1>8, <3>1, <3>2, HandledStates DEF last
  <2>2. silent' = silent
    BY <1>1, <1>8
  <2>3. CASE heard /\ Indexed(request.name)
    <3>1. told' = told \cup {last} /\ view' = view \cup {last}
      BY <1>1, <1>3, <1>8, <2>3
    <3> QED
      BY <1>3, <1>4, <1>5, <2>1, <2>2, <2>3, <3>1 DEF Pending
  <2>4. CASE ~(heard /\ Indexed(request.name))
    <3>1. told' = told /\ view' = view
      BY <1>1, <1>3, <1>8, <2>4
    <3> QED
      BY <1>4, <1>5, <2>1, <2>2, <3>1 DEF Pending
  <2> QED
    BY <2>3, <2>4
<1> QED
  BY <1>6, <1>7, <1>8

(* Of all steps only that, and the queue's own, matter. *)
LEMMA PreviewStep ==
    ASSUME CommandsTypeOK, PreviewInv, [CommandsNext]_<<lifecycleVars, commandVars>>
    PROVE  PreviewInv'
<1> USE DEF PreviewInv
<1>1. ASSUME UNCHANGED tableVars PROVE PreviewInv'
  BY <1>1 DEF tableVars, OwnAccepted, PreviewAgrees, Pending
<1>2. CASE \E e \in Executions :
                \/ Begin(e) \/ AskStop(e) \/ Settle(e)
                \/ (Seal(e) \/ End(e) \/ Report(e)) /\ UNCHANGED commandVars
                \/ \E u \in Users : Operate(e, u) \/ Send(e, u) \/ Abandon(e, u)
  BY <1>1, <1>2
  DEF Begin, AskStop, Settle, Operate, Send, Abandon, Stopping, commandVars, tableVars
<1>3. CASE Intervene \/ Lose
  BY <1>1, <1>3 DEF Intervene, Lose
<1>4. CASE Deliver
  BY <1>4, DeliverKeepsPreview
<1>5. CASE Complete
  <2> DEFINE done == Min(Pending)
  <2>1. /\ commands' = [commands EXCEPT ![done].state = "completed"]
        /\ UNCHANGED <<own, told, view, silent>>
    BY <1>5 DEF Complete
  <2> HIDE DEF done
  <2>2. /\ DOMAIN commands' = DOMAIN commands
        /\ \A i \in DOMAIN commands : commands'[i].state \in {commands[i].state, "completed"}
    BY <2>1 DEF CommandsTypeOK, Commands
  <2> QED
    BY <2>1, <2>2 DEF OwnAccepted, PreviewAgrees, Pending
<1>6. ASSUME NEW i \in view, Resolve(i) PROVE PreviewInv'
  BY <1>6 DEF Resolve, OwnAccepted, PreviewAgrees, Pending
<1>7. CASE UNCHANGED <<lifecycleVars, commandVars>>
  BY <1>1, <1>7 DEF commandVars, tableVars
<1> QED
  BY <1>2, <1>3, <1>4, <1>5, <1>6, <1>7 DEF CommandsNext

(* The wrapper that follows the command table knows what is queued, as far *)
(* as it was told: for any calls of RobotClient, any command of a backend  *)
(* with markers that command(...) takes, and any bounds, with requests     *)
(* and replies lost, refused or abandoned.                                 *)
THEOREM WrapperAgrees == CommandsSpec => []PreviewAgrees
<1>1. CommandsInit => PreviewInv
  <2> SUFFICES ASSUME CommandsInit PROVE PreviewInv
    OBVIOUS
  <2>1. OwnAccepted
    BY CommandsAssumption DEF CommandsInit, OwnAccepted
  <2> QED
    BY <2>1 DEF CommandsInit, PreviewInv, PreviewAgrees
<1>2. PreviewInv => PreviewAgrees
  BY DEF PreviewInv
<1>3. RestInv => CommandsTypeOK
  BY DEF RestInv
<1> QED
  BY <1>1, <1>2, <1>3, RestInvariant, PreviewStep, PTL DEF CommandsSpec
=============================================================================

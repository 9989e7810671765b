-------------------------- MODULE HostPartsProofs --------------------------
(***************************************************************************)
(* Machine-checked facts about the parts that HostParts puts side by side: *)
(* telemetry, dry-run passes, collision worlds, the listeners of an        *)
(* object, the open programs and synchronous tools, for any bounds; and in *)
(* the end that what is proved of each part alone holds of HostParts.      *)
(***************************************************************************)
EXTENDS HostParts, SubjectsProofs, SkillCommandsProofs

-----------------------------------------------------------------------------
(* Telemetry. *)

SeriesInv == LatestWasDrawn /\ drawn = [c \in Charts |-> drawn[c]]

(* No method loses the mark of a sample that is not drawn. *)
LEMMA SeriesKept == SeriesInv /\ [SeriesNext]_seriesVars => SeriesInv'
<1> SUFFICES ASSUME SeriesInv, [SeriesNext]_seriesVars PROVE SeriesInv'
  OBVIOUS
<1> USE DEF SeriesInv, LatestWasDrawn
<1>1. CASE Push
  BY <1>1 DEF Push
<1>2. ASSUME NEW c \in Charts, Draw(c) PROVE SeriesInv'
  <2>1. drawn'[c] = series' /\ drawn' = [d \in Charts |-> drawn'[d]]
    BY <1>2 DEF Draw
  <2> QED
    BY <2>1
<1>3. CASE Clear
  BY <1>3 DEF Clear
<1>4. CASE ClockMoves
  BY <1>4 DEF ClockMoves
<1>5. CASE UNCHANGED seriesVars
  BY <1>5 DEF seriesVars
<1> QED
  BY <1>1, <1>2, <1>3, <1>4, <1>5 DEF SeriesNext

(* However samples are pushed, evicted, cleared and drawn by any number of *)
(* charts, the newest series is marked dirty until a chart has it          *)
(* (ToolTimeSeries.push, get_series_if_dirty).                             *)
THEOREM LatestDrawn == SeriesSpec => []LatestWasDrawn
<1>1. SeriesInit => SeriesInv
  BY DEF SeriesInit, SeriesInv, LatestWasDrawn
<1>2. SeriesInv => LatestWasDrawn
  BY DEF SeriesInv
<1> QED
  BY <1>1, <1>2, SeriesKept, PTL DEF SeriesSpec

-----------------------------------------------------------------------------
(* Dry runs. *)

Revisions == {-1} \cup Nat

(* A record or a running pass of the newest revision is of the program as  *)
(* it is, and records of one revision are of one program.                  *)
PassesInv ==
    /\ revision \in Nat /\ program \in Programs
    /\ \A pass \in passes :
        /\ pass.revision \in Nat /\ pass.revision <= revision
        /\ pass.revision = revision => pass.of = program
    /\ commanded_revision \in Revisions /\ commanded_revision <= revision
    /\ predicted_revision \in Revisions /\ predicted_revision <= revision
    /\ commanded_revision = revision => commanded = program
    /\ predicted_revision = revision => predicted = program
    /\ predicted # NoRecord /\ predicted_revision = commanded_revision => predicted = commanded

(* A pass may land late, but not for another program. *)
LEMMA PassesStep == PassesInv /\ [DryRunNext]_dryRunVars => PassesInv'
<1> SUFFICES ASSUME PassesInv, [DryRunNext]_dryRunVars PROVE PassesInv'
  OBVIOUS
<1> USE DEF PassesInv, Revisions
<1>1. ASSUME NEW source \in Programs, Replan(source) PROVE PassesInv'
  BY <1>1 DEF Replan
<1>2. ASSUME NEW kind \in {"plan", "simulate"}, LaunchPass(kind) PROVE PassesInv'
  BY <1>2 DEF LaunchPass
<1>3. ASSUME NEW pass \in passes, LandPass(pass) PROVE PassesInv'
  <2>1. CASE pass.revision # revision
    BY <1>3, <2>1 DEF LandPass
  <2>2. CASE pass.revision = revision /\ pass.kind = "plan"
    BY <1>3, <2>2 DEF LandPass
  <2>3. CASE pass.revision = revision /\ pass.kind # "plan"
    BY <1>3, <2>3 DEF LandPass
  <2> QED
    BY <2>1, <2>2, <2>3
<1>4. CASE UNCHANGED dryRunVars
  BY <1>4 DEF dryRunVars
<1> QED
  BY <1>1, <1>2, <1>3, <1>4 DEF DryRunNext

(* For any programs and any number of passes, in whichever order they end, *)
(* predicted_current answers the commanded record on screen.               *)
THEOREM PredictionsAnswer == DryRunSpec => []PredictionAnswersPlan
<1>1. DryRunInit => PassesInv
  BY DryRunAssumption DEF DryRunInit, PassesInv, Revisions
<1>2. PassesInv => PredictionAnswersPlan
  BY DEF PassesInv, PredictionAnswersPlan, PredictedCurrent
<1> QED
  BY <1>1, <1>2, PassesStep, PTL DEF DryRunSpec

-----------------------------------------------------------------------------
(* Worlds. *)

Worlds == [program : SUBSET Shapes, attachment_epoch : Epochs]

AllConstructible(shapes) == \A shape \in shapes : Constructible(shape)

(* The context in a world is the one it was read in, none in a file; and   *)
(* every shape, wherever it is, has passed its constructor.                *)
WorldInv ==
    /\ context \in Epochs
    /\ world \in Worlds /\ readIn = world.attachment_epoch
    /\ file \in Worlds /\ file.attachment_epoch = 0
    /\ applied \in SUBSET Shapes /\ drafts \in SUBSET Shapes
    /\ AllConstructible(applied) /\ AllConstructible(drafts)
    /\ AllConstructible(world.program) /\ AllConstructible(file.program)

(* Drafting a shape that its constructor let pass keeps the drafts sound. *)
LEMMA DraftedConstructible ==
    ASSUME WorldInv, NEW shape \in Shapes, Constructible(shape)
    PROVE  Drafted(shape) \in SUBSET Shapes /\ AllConstructible(Drafted(shape))
BY DEF WorldInv, Drafted, AllConstructible

(* Attachments keep the context they were made in. *)
LEMMA WorldKept == WorldInv /\ [WorldNext]_worldVars => WorldInv'
<1> SUFFICES ASSUME WorldInv, [WorldNext]_worldVars PROVE WorldInv'
  OBVIOUS
<1>1. ASSUME NEW shape \in Shapes, Construct(shape) PROVE WorldInv'
  BY <1>1, DraftedConstructible DEF Construct, WorldInv
<1>2. ASSUME NEW shape \in drafts, NEW contacts \in SUBSET Partners, Attach(shape, contacts)
      PROVE  WorldInv'
  <2> DEFINE attached == [shape EXCEPT !.attachment =
                            [epoch |-> world.attachment_epoch, allowed_contacts |-> contacts]]
  <2>1. attached \in Shapes
    BY DEF WorldInv, Worlds, Shapes, Attachments
  <2>2. Constructible(attached) /\ drafts' = Drafted(attached)
        /\ UNCHANGED <<context, applied, world, readIn, file>>
    BY <1>2 DEF Attach
  <2> QED
    BY <2>1, <2>2, DraftedConstructible DEF WorldInv
<1>3. ASSUME NEW shape \in drafts, Detach(shape) PROVE WorldInv'
  <2> DEFINE detached == [shape EXCEPT !.attachment = NoAttachment]
  <2>1. detached \in Shapes /\ Constructible(detached)
    BY DEF WorldInv, Shapes, AllConstructible, Constructible, Attached
  <2>2. drafts' = Drafted(detached) /\ UNCHANGED <<context, applied, world, readIn, file>>
    BY <1>3 DEF Detach
  <2> QED
    BY <2>1, <2>2, DraftedConstructible DEF WorldInv
<1>4. CASE TakeOver
  BY <1>4 DEF TakeOver, WorldInv, Worlds
<1>5. CASE SetShapes
  BY <1>5 DEF SetShapes, WorldInv
<1>6. CASE ReadShapes
  BY <1>6 DEF ReadShapes, WorldInv, Worlds
<1>7. CASE ChangeContext
  BY <1>7, WorldAssumption DEF ChangeContext, WorldInv, Epochs
<1>8. CASE SaveWorld
  BY <1>8, WorldAssumption DEF SaveWorld, WorldInv, Worlds, WorldToDict, Epochs
<1>9. CASE LoadWorld
  BY <1>9 DEF LoadWorld, WorldInv, WorldFromDict
<1>10. CASE UNCHANGED worldVars
  BY <1>10 DEF worldVars, WorldInv
<1> QED
  BY <1>1, <1>2, <1>3, <1>4, <1>5, <1>6, <1>7, <1>8, <1>9, <1>10 DEF WorldNext

(* Whatever shapes are declared, applied, saved and loaded, and however    *)
(* often the controller's context changes: ShapeWorld.attachments_valid    *)
(* holds only of attachments declared in the context the world was read    *)
(* from, and of no world out of a file that has attachments.               *)
THEOREM StaleRefused == WorldSpec => []StaleAttachmentsRefused
<1>1. WorldInit => WorldInv
  BY WorldAssumption DEF WorldInit, WorldInv, Worlds, WorldToDict, Epochs, AllConstructible
<1>2. WorldInv => StaleAttachmentsRefused
  BY DEF WorldInv, StaleAttachmentsRefused, AttachmentsValid, AllConstructible, Constructible
<1> QED
  BY <1>1, <1>2, WorldKept, PTL DEF WorldSpec

-----------------------------------------------------------------------------
(* Listeners. *)

Rounds == [cbs : Seq(Callbacks), next : Nat \ {0}, running : BOOLEAN]

Distinct(list) == \A i, j \in DOMAIN list : list[i] = list[j] => i = j

(* The innermost loop has still to call the callback. *)
YetToCall(cb) ==
    /\ Open
    /\ \E k \in DOMAIN Now.cbs :
        Now.cbs[k] = cb /\ k >= Now.next /\ (Now.running => k # Now.next)

NotifierTypes ==
    /\ listeners \in Seq(Callbacks) /\ version \in Nat /\ rounds \in Seq(Rounds)
    /\ unwinding \in BOOLEAN /\ raised \in BOOLEAN /\ seen \in [Callbacks -> Nat]

(* While no exception ended a loop, a listener that has not read the       *)
(* latest change is still to be called by the innermost loop: a change in  *)
(* a callback starts a loop over all of the listeners, and the loops       *)
(* around it are left when it has called them all.                         *)
NotifierInv ==
    /\ NotifierTypes
    /\ Distinct(listeners) /\ CalledOncePerRound
    /\ ~raised => \A k \in DOMAIN listeners :
                    seen[listeners[k]] = version \/ YetToCall(listeners[k])

(* What is left of a list, in its order, has no element twice either. *)
LEMMA RemainInOrder ==
    ASSUME NEW S, NEW list \in Seq(S), NEW kept \in SUBSET DOMAIN list,
           NEW order \in Orders(kept), NEW rest, rest = [k \in DOMAIN rest |-> rest[k]],
           DOMAIN rest = DOMAIN order, \A k \in DOMAIN order : rest[k] = list[order[k]]
    PROVE  /\ rest \in Seq(S)
           /\ \A k \in DOMAIN rest : \E j \in DOMAIN list : rest[k] = list[j]
           /\ Distinct(list) => Distinct(rest)
<1> DEFINE n == Cardinality(kept)
<1>1. n \in Nat
  <2>1. DOMAIN list = 1..Len(list) /\ Len(list) \in Nat
    BY LenProperties
  <2> HIDE DEF n
  <2>2. 1 \in Int /\ Len(list) \in Int
    BY <2>1
  <2>3. IsFiniteSet(1..Len(list))
    BY <2>2, FS_Interval
  <2> QED
    BY <2>1, <2>3, FS_Subset, FS_CardinalityType DEF n
<1>2. order \in [1..n -> kept] /\ \A i, j \in 1..n : i < j => order[i] < order[j]
  BY DEF Orders
<1> HIDE DEF n
<1>3. DOMAIN rest = 1..n /\ \A k \in 1..n : order[k] \in DOMAIN list /\ rest[k] = list[order[k]]
  <2>1. DOMAIN order = 1..n
    BY <1>2
  <2> QED
    BY <1>2, <2>1
<1>4. rest \in Seq(S)
  <2>1. \A k \in 1..n : rest[k] \in S
    BY <1>3, ElementOfSeq, LenProperties
  <2>2. rest = [k \in 1..n |-> rest[k]]
    BY <1>3
  <2> QED
    BY <1>1, <2>1, <2>2, IsASeq
<1>5. ASSUME Distinct(list) PROVE Distinct(rest)
  <2> SUFFICES ASSUME NEW i \in 1..n, NEW j \in 1..n, rest[i] = rest[j] PROVE i = j
    BY <1>3 DEF Distinct
  <2>1. order[i] = order[j]
    BY <1>3, <1>5 DEF Distinct
  <2>2. order[i] \in Nat /\ order[j] \in Nat
    BY <1>3, LenProperties
  <2> QED
    BY <1>1, <1>2, <2>1, <2>2
<1> QED
  BY <1>3, <1>4, <1>5

(* The innermost loop moves on, or is left. *)
LEMMA SetTop ==
    ASSUME rounds \in Seq(Rounds), CalledOncePerRound, Open,
           NEW round \in Rounds, round.cbs = Now.cbs,
           rounds' = [rounds EXCEPT ![Len(rounds)] = round]
    PROVE  rounds' \in Seq(Rounds) /\ CalledOncePerRound' /\ Open' /\ Now' = round
<1>1. /\ Len(rounds) \in DOMAIN rounds /\ DOMAIN rounds = 1..Len(rounds) /\ Len(rounds) \in Nat
      /\ Now = rounds[Len(rounds)]
  BY LenProperties, EmptySeq DEF Open, Now, Last
<1>2. rounds' \in Seq(Rounds) /\ Len(rounds') = Len(rounds)
  BY <1>1, ExceptSeq
<1>3. /\ rounds'[Len(rounds)] = round /\ DOMAIN rounds' = DOMAIN rounds
      /\ \A d \in DOMAIN rounds : rounds'[d].cbs = rounds[d].cbs
  BY <1>1
<1>4. CalledOncePerRound'
  BY <1>3 DEF CalledOncePerRound
<1> QED
  BY <1>1, <1>2, <1>3, <1>4, EmptySeq DEF Open, Now, Last

(* The loops around the innermost one stay as they are. *)
LEMMA FrontShape ==
    ASSUME rounds \in Seq(Rounds), Open
    PROVE  /\ Front(rounds) \in Seq(Rounds)
           /\ \A d \in DOMAIN Front(rounds) :
                d \in DOMAIN rounds /\ Front(rounds)[d] = rounds[d]
BY LenProperties, EmptySeq, SubSeqProperties DEF Open, Front

(* The invariant of the listeners is inductive. *)
LEMMA NotifierKept ==
    ASSUME NotifierInv, [NotifierNext]_notifierVars PROVE NotifierInv'
<1> USE DEF NotifierInv, NotifierTypes
<1>0. /\ Len(listeners) \in Nat /\ DOMAIN listeners = 1..Len(listeners)
      /\ Len(rounds) \in Nat /\ DOMAIN rounds = 1..Len(rounds)
      /\ Open => Len(rounds) > 0 /\ Now \in Rounds
  BY LenProperties, EmptySeq, ElementOfSeq DEF Open, Now, Last
<1>1. ASSUME NEW cb \in Callbacks, AddListener(cb) PROVE NotifierInv'
  <2>1. listeners' \in Seq(Callbacks) /\ Distinct(listeners')
    BY <1>0, <1>1, AppendProperties DEF AddListener, Contains, Distinct
  <2>2. \A k \in DOMAIN listeners' :
            listeners'[k] = cb \/ \E j \in DOMAIN listeners : listeners'[k] = listeners[j]
    BY <1>0, <1>1, AppendProperties DEF AddListener
  <2>3. \A other \in Callbacks : YetToCall(other)' = YetToCall(other)
    BY <1>1 DEF AddListener, YetToCall, Open, Now
  <2>4. ASSUME ~raised', NEW k \in DOMAIN listeners'
        PROVE  (seen[listeners[k]])' = version' \/ YetToCall(listeners[k])'
    <3>1. listeners'[k] \in Callbacks
      BY <2>1, ElementOfSeq, LenProperties
    <3>2. YetToCall(listeners[k])' <=> YetToCall(listeners'[k])
      BY <1>1 DEF AddListener, YetToCall, Open, Now
    <3> QED
      BY <1>1, <2>2, <2>4, <3>1, <3>2 DEF AddListener
  <2> QED
    BY <1>1, <2>1, <2>4 DEF AddListener, CalledOncePerRound
<1>2. ASSUME NEW cb \in Callbacks, RemoveListener(cb) PROVE NotifierInv'
  <2> DEFINE others == {k \in DOMAIN listeners : listeners[k] # cb}
  <2>0. PICK order \in Orders(others) :
            listeners' = [k \in DOMAIN order |-> listeners[order[k]]]
    BY <1>2 DEF RemoveListener
  <2>a. others \in SUBSET DOMAIN listeners
    OBVIOUS
  <2> HIDE DEF others
  <2>1. /\ listeners' \in Seq(Callbacks) /\ Distinct(listeners')
        /\ \A k \in DOMAIN listeners' : \E j \in DOMAIN listeners : listeners'[k] = listeners[j]
    <3>1. /\ listeners' = [k \in DOMAIN listeners' |-> listeners'[k]]
          /\ DOMAIN listeners' = DOMAIN order
          /\ \A k \in DOMAIN order : listeners'[k] = listeners[order[k]]
      BY <2>0
    <3> QED
      BY <2>a, <3>1, RemainInOrder
  <2>2. UNCHANGED <<version, rounds, unwinding, raised, seen>>
    BY <1>2 DEF RemoveListener
  <2>3. ASSUME ~raised', NEW k \in DOMAIN listeners'
        PROVE  (seen[listeners[k]])' = version' \/ YetToCall(listeners[k])'
    <3>1. PICK j \in DOMAIN listeners : listeners'[k] = listeners[j]
      BY <2>1, <2>3
    <3>2. seen[listeners[j]] = version \/ YetToCall(listeners[j])
      BY <2>2, <2>3
    <3>3. YetToCall(listeners[k])' <=> YetToCall(listeners[j])
      BY <2>2, <3>1 DEF YetToCall, Open, Now
    <3>4. (seen[listeners[k]])' = seen[listeners[j]]
      BY <2>2, <3>1
    <3> QED
      BY <2>2, <3>2, <3>3, <3>4
  <2>4. CalledOncePerRound'
    BY <2>2 DEF CalledOncePerRound
  <2> QED
    BY <2>1, <2>2, <2>3, <2>4
<1>3. CASE Change
  <2> DEFINE round == [cbs |-> listeners, next |-> 1, running |-> FALSE]
  <2>1. /\ rounds' = Append(rounds, round) /\ round \in Rounds
        /\ rounds' \in Seq(Rounds) /\ rounds' # <<>> /\ Last(rounds') = round
        /\ Len(rounds') = Len(rounds) + 1 /\ DOMAIN rounds' = 1..Len(rounds')
        /\ \A d \in DOMAIN rounds' :
            \/ rounds'[d] = round
            \/ d \in DOMAIN rounds /\ rounds'[d] = rounds[d]
    <3>1. rounds' = Append(rounds, round) /\ round \in Rounds
      BY <1>3 DEF Change, Rounds
    <3> HIDE DEF round
    <3> QED
      BY <1>0, <3>1, AppendProperties, LenProperties, EmptySeq DEF Last
  <2>2. CalledOncePerRound'
    <3>1. Distinct(round.cbs)
      OBVIOUS
    <3>2. \A d \in DOMAIN rounds : Distinct(rounds[d].cbs)
      BY DEF CalledOncePerRound, Distinct
    <3> HIDE DEF round
    <3>3. ASSUME NEW d \in DOMAIN rounds' PROVE Distinct(rounds'[d].cbs)
      <4>1. CASE rounds'[d] = round
        BY <3>1, <4>1
      <4>2. CASE d \in DOMAIN rounds /\ rounds'[d] = rounds[d]
        BY <3>2, <4>2
      <4> QED
        BY <2>1, <4>1, <4>2
    <3> QED
      BY <3>3 DEF CalledOncePerRound, Distinct
  <2>3. UNCHANGED <<listeners, unwinding, seen>> /\ version' \in Nat /\ raised' \in BOOLEAN
    BY <1>3 DEF Change
  <2>4. ASSUME NEW k \in DOMAIN listeners' PROVE YetToCall(listeners[k])'
    <3>1. k >= 1 /\ listeners' = listeners
      BY <1>0, <2>3, <2>4
    <3>2. Open' /\ Now' = round
      BY <2>1 DEF Open, Now
    <3> QED
      BY <2>4, <3>1, <3>2 DEF YetToCall
  <2>5. Distinct(listeners)'
    BY <2>3 DEF Distinct
  <2> QED
    BY <2>1, <2>2, <2>3, <2>4, <2>5
<1>4. CASE Call
  <2> DEFINE cb == Now.cbs[Now.next]
             round == [Now EXCEPT !.running = TRUE]
  <2>1. /\ Open /\ Now \in Rounds /\ Now.next \in DOMAIN Now.cbs /\ ~Now.running
        /\ cb \in Callbacks
    BY <1>0, <1>4, ElementOfSeq, LenProperties DEF Call, Rounds
  <2>2. /\ round \in Rounds /\ round.cbs = Now.cbs /\ round.next = Now.next /\ round.running
    BY <2>1 DEF Rounds
  <2>3. rounds' = [rounds EXCEPT ![Len(rounds)] = round]
    BY <1>4 DEF Call, SetNow, Depth
  <2>4. UNCHANGED <<listeners, version, unwinding, raised>> /\ seen' = [seen EXCEPT ![cb] = version]
    BY <1>4 DEF Call
  <2> HIDE DEF round
  <2>5. rounds' \in Seq(Rounds) /\ CalledOncePerRound' /\ Open' /\ Now' = round
    BY <1>0, <2>1, <2>2, <2>3, SetTop
  <2> HIDE DEF cb
  <2>6. ASSUME ~raised', NEW k \in DOMAIN listeners', listeners[k] # cb
        PROVE  (seen[listeners[k]])' = version' \/ YetToCall(listeners[k])'
    <3>1. listeners[k] \in Callbacks /\ listeners' = listeners
      BY <2>4, <2>6, <1>0, ElementOfSeq
    <3>2. seen[listeners[k]] = version \/ YetToCall(listeners[k])
      BY <2>4, <2>6
    <3>3. YetToCall(listeners[k]) => YetToCall(listeners[k])'
      BY <2>1, <2>2, <2>5, <2>6, <3>1 DEF YetToCall, cb
    <3> QED
      BY <2>1, <2>4, <2>6, <3>1, <3>2, <3>3
  <2>7. ASSUME NEW k \in DOMAIN listeners', listeners[k] = cb
        PROVE  (seen[listeners[k]])' = version'
    BY <2>1, <2>4, <2>7
  <2> QED
    BY <2>1, <2>4, <2>5, <2>6, <2>7 DEF Distinct
<1>5. CASE Returned
  <2> DEFINE round == [Now EXCEPT !.running = FALSE, !.next = @ + 1]
  <2>1. Open /\ Now \in Rounds /\ Now.running
    BY <1>0, <1>5 DEF Returned, CallerRuns
  <2>2. /\ round \in Rounds /\ round.cbs = Now.cbs /\ round.next = Now.next + 1 /\ ~round.running
    <3>1. Now.next + 1 \in Nat \ {0} /\ Now.cbs \in Seq(Callbacks)
      BY <2>1 DEF Rounds
    <3>2. DOMAIN Now = {"cbs", "next", "running"}
      BY <2>1 DEF Rounds
    <3>3. /\ round.cbs = Now.cbs /\ round.next = Now.next + 1 /\ round.running = FALSE
          /\ round = [f \in {"cbs", "next", "running"} |-> round[f]]
      BY <3>2
    <3> QED
      BY <3>1, <3>3 DEF Rounds
  <2>3. rounds' = [rounds EXCEPT ![Len(rounds)] = round]
    BY <1>5 DEF Returned, SetNow, Depth
  <2>4. UNCHANGED <<listeners, version, unwinding, raised, seen>>
    BY <1>5 DEF Returned
  <2> HIDE DEF round
  <2>5. rounds' \in Seq(Rounds) /\ CalledOncePerRound' /\ Open' /\ Now' = round
    BY <1>0, <2>1, <2>2, <2>3, SetTop
  <2>6. ASSUME NEW k \in DOMAIN listeners', YetToCall(listeners[k]) PROVE YetToCall(listeners[k])'
    <3>1. PICK j \in DOMAIN Now.cbs :
            Now.cbs[j] = listeners[k] /\ j >= Now.next /\ j # Now.next
      BY <2>1, <2>6 DEF YetToCall
    <3>2. j \in Nat /\ Now.next \in Nat
      BY <2>1, LenProperties DEF Rounds
    <3> QED
      BY <2>1, <2>2, <2>4, <2>5, <3>1, <3>2 DEF YetToCall
  <2> QED
    BY <2>4, <2>5, <2>6 DEF Distinct
<1>6. CASE Raise
  BY <1>0, <1>6, FrontShape DEF Raise, CalledOncePerRound, Distinct
<1>7. CASE Handle
  BY <1>7 DEF Handle, CalledOncePerRound, YetToCall, Open, Now
<1>8. CASE Finish
  <2>1. /\ Open /\ Now \in Rounds /\ ~Now.running /\ Now.next \notin DOMAIN Now.cbs
        /\ rounds' = Front(rounds)
        /\ UNCHANGED <<listeners, version, unwinding, raised, seen>>
    BY <1>0, <1>8 DEF Finish
  <2>2. rounds' \in Seq(Rounds) /\ CalledOncePerRound'
    BY <1>0, <2>1, FrontShape DEF CalledOncePerRound
  <2>3. ASSUME NEW k \in DOMAIN listeners PROVE ~YetToCall(listeners[k])
    BY <2>1, LenProperties DEF YetToCall, Rounds
  <2> QED
    BY <2>1, <2>2, <2>3 DEF Distinct
<1>9. CASE UNCHANGED notifierVars
  BY <1>9 DEF notifierVars, CalledOncePerRound, YetToCall, Open, Now
<1> QED
  BY <1>1, <1>2, <1>3, <1>4, <1>5, <1>6, <1>7, <1>8, <1>9 DEF NotifierNext

(* It holds before anybody listens. *)
LEMMA NotifierStart == NotifierInit => NotifierInv
<1> SUFFICES ASSUME NotifierInit PROVE NotifierInv
  OBVIOUS
<1>1. NotifierTypes
  BY EmptySeq DEF NotifierInit, NotifierTypes
<1>2. DOMAIN listeners = {} /\ DOMAIN rounds = {}
  BY EmptySeq, LenProperties DEF NotifierInit
<1> QED
  BY <1>1, <1>2 DEF NotifierInv, CalledOncePerRound, Distinct

(* However callbacks register, unregister, change the object and notify    *)
(* from within one another's calls, with any number of them open: no loop  *)
(* calls a callback twice, for a callback is listed once                   *)
(* (add_change_listener) and a loop runs over the list it began with.      *)
THEOREM OncePerRound == NotifierSpec => []CalledOncePerRound
<1>1. NotifierInv => CalledOncePerRound
  BY DEF NotifierInv
<1> QED
  BY <1>1, NotifierStart, NotifierKept, PTL DEF NotifierSpec

(* When the outermost notify_changed is over and no callback raised, every *)
(* registered callback has read the latest change.                         *)
THEOREM ListenersCurrent == NotifierSpec => []EveryListenerCurrent
<1>1. NotifierInv => EveryListenerCurrent
  BY DEF NotifierInv, EveryListenerCurrent, YetToCall
<1> QED
  BY <1>1, NotifierStart, NotifierKept, PTL DEF NotifierSpec

-----------------------------------------------------------------------------
(* Open programs. *)

Paths == Files \cup {NoFile}
Tab == [id : Nat, path : Paths, source : Sources, saved : Sources]
Save == [id : Nat, path : Files, content : Sources]

TabTypes ==
    /\ tabs \in Seq(Tab) /\ active_id \in Nat /\ programs \in Nat
    /\ disk \in [Files -> Sources] /\ writing \subseteq Save

(* Programs differ in their ids, and a new one gets a new id. *)
IdsDiffer ==
    /\ \A k \in DOMAIN tabs : tabs[k].id <= programs
    /\ \A j, k \in DOMAIN tabs : tabs[j].id = tabs[k].id => j = k
    /\ \A w \in writing : w.id <= programs

(* A program has one save under way at most, a file one writer, and no     *)
(* other program has a file that is being written.                         *)
WritersAlone ==
    /\ \A v, w \in writing : v.id = w.id \/ v.path = w.path => v = w
    /\ \A w \in writing : \A k \in DOMAIN tabs : tabs[k].path = w.path => tabs[k].id = w.id

PathsDiffer ==
    \A j, k \in DOMAIN tabs : tabs[j].path = tabs[k].path /\ j # k => tabs[j].path = NoFile

(* What a program has as saved is in its file. *)
SavedIsOnDisk ==
    \A k \in DOMAIN tabs :
        tabs[k].path # NoFile /\ tabs[k].id \notin raced => disk[tabs[k].path] = tabs[k].saved

TabsInv == TabTypes /\ IdsDiffer /\ WritersAlone /\ PathsDiffer /\ SavedIsOnDisk

(* The open programs are a sequence of programs. *)
LEMMA TabsShape ==
    ASSUME TabTypes
    PROVE  /\ DOMAIN tabs = 1..Len(tabs) /\ Len(tabs) \in Nat
           /\ \A k \in DOMAIN tabs : tabs[k] \in Tab
BY LenProperties, ElementOfSeq DEF TabTypes

(* get finds the program that is open, *)
LEMMA TabAtFinds ==
    ASSUME TabTypes, NEW id
    PROVE  /\ IsOpen(id) => TabAt(id) \in DOMAIN tabs /\ tabs[TabAt(id)].id = id
           /\ ~IsOpen(id) => TabAt(id) = 0
<1> DEFINE I == {k \in 1..Len(tabs) : tabs[k].id = id}
<1>1. TabAt(id) = IF I # {} THEN Min(I) ELSE 0
  BY DEF TabAt, SelectInSeq
<1>2. DOMAIN tabs = 1..Len(tabs) /\ Len(tabs) \in Nat
  BY LenProperties DEF TabTypes
<1>3. I # {} => Min(I) \in I
  BY <1>2, MinIsMember
<1>4. IsOpen(id) <=> I # {}
  BY <1>2 DEF IsOpen
<1> QED
  BY <1>1, <1>2, <1>3, <1>4

(* and find_by_path the one that has the file. *)
LEMMA PathFinds ==
    ASSUME TabTypes, NEW path, path # NoFile
    PROVE  /\ FindByPath(path) # 0
                => FindByPath(path) \in DOMAIN tabs /\ tabs[FindByPath(path)].path = path
           /\ FindByPath(path) = 0 => \A k \in DOMAIN tabs : tabs[k].path # path
<1> DEFINE I == {k \in 1..Len(tabs) : tabs[k].path = path}
<1>1. FindByPath(path) = IF I # {} THEN Min(I) ELSE 0
  BY DEF FindByPath, SelectInSeq
<1>2. DOMAIN tabs = 1..Len(tabs) /\ Len(tabs) \in Nat
  BY LenProperties DEF TabTypes
<1>3. I # {} => Min(I) \in I
  BY <1>2, MinIsMember
<1>4. I # {} <=> \E k \in DOMAIN tabs : tabs[k].path = path
  BY <1>2
<1> QED
  BY <1>1, <1>2, <1>3, <1>4

(* The program that the host shows. *)
LEMMA ActiveOpen ==
    ASSUME TabTypes, IdsDiffer, Active # NoProgram
    PROVE  \E k \in DOMAIN tabs : tabs[k] = Active /\ tabs[k].id = active_id
<1>1. TabAt(active_id) # 0 /\ Active = tabs[TabAt(active_id)]
  BY DEF Active, GetTab
<1> QED
  BY <1>1, TabAtFinds

(* One open program changes, and keeps its id. *)
LEMMA SetShape ==
    ASSUME TabTypes, IdsDiffer, NEW k \in DOMAIN tabs, NEW p \in Tab, p.id = tabs[k].id,
           tabs' = SetTab(p)
    PROVE  /\ tabs' \in Seq(Tab) /\ DOMAIN tabs' = DOMAIN tabs /\ tabs'[k] = p
           /\ \A j \in DOMAIN tabs : /\ j # k => tabs'[j] = tabs[j]
                                     /\ tabs'[j].id = tabs[j].id
<1>1. DOMAIN tabs = 1..Len(tabs) /\ Len(tabs) \in Nat /\ \A j \in DOMAIN tabs : tabs[j] \in Tab
  BY LenProperties, ElementOfSeq DEF TabTypes
<1>2. tabs' = [j \in DOMAIN tabs |-> IF tabs[j].id = p.id THEN p ELSE tabs[j]]
  BY DEF SetTab
<1>3. DOMAIN tabs' = DOMAIN tabs /\ tabs'[k] = p
      /\ \A j \in DOMAIN tabs : j # k => tabs'[j] = tabs[j]
  BY <1>2 DEF IdsDiffer
<1>4. tabs' \in Seq(Tab)
  <2>1. \A j \in 1..Len(tabs) : tabs'[j] \in Tab
    BY <1>1, <1>3
  <2>2. tabs' = [j \in 1..Len(tabs) |-> tabs'[j]]
    BY <1>1, <1>2
  <2> QED
    BY <1>1, <2>1, <2>2, IsASeq
<1> QED
  BY <1>3, <1>4

(* A program is closed. *)
LEMMA CloseShape ==
    ASSUME TabTypes, IdsDiffer, NEW at \in DOMAIN tabs, tabs' = RemoveAt(tabs, at)
    PROVE  /\ tabs' \in Seq(Tab)
           /\ \E was \in [DOMAIN tabs' -> DOMAIN tabs] :
                \A j, k \in DOMAIN tabs' : tabs'[k] = tabs[was[k]] /\ (was[j] = was[k] => j = k)
<1> DEFINE n == Len(tabs)
           before == SubSeq(tabs, 1, at - 1)
           after == SubSeq(tabs, at + 1, n)
<1>1. DOMAIN tabs = 1..n /\ n \in Nat /\ \A j \in 1..n : tabs[j] \in Tab
  BY LenProperties, ElementOfSeq DEF TabTypes
<1>2. at \in 1..n
  BY <1>1
<1> HIDE DEF n
<1>3. /\ before \in Seq(Tab) /\ Len(before) = at - 1
      /\ \A j \in 1..(at - 1) : before[j] = tabs[j]
  <2>1. \A j \in 1..(at - 1) : tabs[j] \in Tab
    BY <1>1, <1>2
  <2>2. at - 1 \in Int /\ 1 \in Int
    BY <1>2
  <2> QED
    BY <1>2, <2>1, <2>2, SubSeqProperties
<1>4. /\ after \in Seq(Tab) /\ Len(after) = n - at
      /\ \A j \in 1..(n - at) : after[j] = tabs[at + j]
  <2>1. \A j \in (at + 1)..n : tabs[j] \in Tab
    BY <1>1, <1>2
  <2>2. at + 1 \in Int /\ n \in Int
    BY <1>1, <1>2
  <2> QED
    BY <1>1, <1>2, <2>1, <2>2, SubSeqProperties
<1>5. tabs' = before \o after
  BY DEF RemoveAt, n
<1> HIDE DEF before, after
<1>6. /\ tabs' \in Seq(Tab) /\ DOMAIN tabs' = 1..(n - 1)
      /\ \A j \in 1..(n - 1) : tabs'[j] = IF j < at THEN tabs[j] ELSE tabs[j + 1]
  <2>1. tabs' \in Seq(Tab) /\ Len(tabs') = n - 1
    <3>1. tabs' \in Seq(Tab) /\ Len(tabs') = Len(before) + Len(after)
      BY <1>3, <1>4, <1>5, ConcatProperties
    <3>2. (at - 1) + (n - at) = n - 1
      BY <1>1, <1>2
    <3> QED
      BY <1>3, <1>4, <3>1, <3>2
  <2>2. DOMAIN tabs' = 1..(n - 1)
    <3>1. DOMAIN tabs' = 1..Len(tabs')
      BY <2>1, LenProperties
    <3> QED
      BY <2>1, <3>1
  <2>3. \A j \in 1..(n - 1) :
            tabs'[j] = IF j <= Len(before) THEN before[j] ELSE after[j - Len(before)]
    <3>1. \A j \in 1..(Len(before) + Len(after)) :
            tabs'[j] = IF j <= Len(before) THEN before[j] ELSE after[j - Len(before)]
      BY <1>3, <1>4, <1>5, ConcatProperties
    <3>2. Len(before) + Len(after) = n - 1
      BY <1>1, <1>2, <1>3, <1>4
    <3> QED
      BY <3>1, <3>2
  <2>4. ASSUME NEW j \in 1..(n - 1) PROVE tabs'[j] = IF j < at THEN tabs[j] ELSE tabs[j + 1]
    <3>1. CASE j < at
      BY <1>2, <1>3, <2>3, <3>1
    <3>2. CASE ~(j < at)
      <4>1. j - (at - 1) \in 1..(n - at) /\ at + (j - (at - 1)) = j + 1 /\ ~(j <= at - 1)
        BY <1>1, <1>2, <3>2
      <4> QED
        BY <1>3, <1>4, <2>3, <3>2, <4>1
    <3> QED
      BY <3>1, <3>2
  <2> QED
    BY <2>1, <2>2, <2>4
<1>7. DEFINE was == [j \in 1..(n - 1) |-> IF j < at THEN j ELSE j + 1]
<1>8. /\ was \in [DOMAIN tabs' -> DOMAIN tabs]
      /\ \A j, k \in DOMAIN tabs' : tabs'[k] = tabs[was[k]] /\ (was[j] = was[k] => j = k)
  BY <1>1, <1>2, <1>6
<1> QED
  BY <1>6, <1>8

(* A program is added: new, or read from a file that nobody has. *)
LEMMA AddStep ==
    ASSUME TabsInv, NEW p \in Tab, AddTab(p),
           p.path # NoFile => /\ \A k \in DOMAIN tabs : tabs[k].path # p.path
                              /\ ~Written(p.path) /\ disk[p.path] = p.saved
    PROVE  TabsInv'
<1> USE DEF TabsInv, TabTypes
<1> DEFINE new == [p EXCEPT !.id = programs + 1]
<1>1. /\ programs' = programs + 1 /\ active_id' = programs + 1 /\ tabs' = Append(tabs, new)
      /\ UNCHANGED <<disk, writing, raced>>
  BY DEF AddTab
<1>2. new \in Tab /\ new.id = programs + 1 /\ new.path = p.path /\ new.saved = p.saved
  BY DEF Tab
<1> HIDE DEF new
<1>3. DOMAIN tabs = 1..Len(tabs) /\ Len(tabs) \in Nat
  BY LenProperties
<1>4. /\ tabs' \in Seq(Tab) /\ DOMAIN tabs' = 1..(Len(tabs) + 1)
      /\ tabs'[Len(tabs) + 1] = new /\ \A k \in DOMAIN tabs : tabs'[k] = tabs[k]
  BY <1>1, <1>2, <1>3, AppendProperties, LenProperties
<1>5. \A k \in DOMAIN tabs' :
        \/ k = Len(tabs) + 1 /\ tabs'[k] = new
        \/ k \in DOMAIN tabs /\ tabs'[k] = tabs[k]
  BY <1>3, <1>4
<1>6. TabTypes'
  BY <1>1, <1>4
<1>7. IdsDiffer'
  <2>1. \A k \in DOMAIN tabs : tabs[k].id \in Nat /\ tabs[k].id <= programs
    BY TabsShape DEF Tab, IdsDiffer
  <2>2. \A w \in writing : w.id \in Nat /\ w.id <= programs
    BY DEF Save, IdsDiffer
  <2>3. \A k \in DOMAIN tabs' : /\ tabs'[k].id <= programs'
                                /\ tabs'[k].id = new.id => k = Len(tabs) + 1
    BY <1>1, <1>2, <1>5, <2>1
  <2>4. ASSUME NEW j \in DOMAIN tabs', NEW k \in DOMAIN tabs', tabs'[j].id = tabs'[k].id
        PROVE  j = k
    BY <1>5, <2>3, <2>4 DEF IdsDiffer
  <2>5. \A w \in writing' : w.id <= programs'
    BY <1>1, <2>2
  <2> QED
    BY <2>3, <2>4, <2>5 DEF IdsDiffer
<1>8. WritersAlone'
  <2>1. ASSUME NEW w \in writing, NEW k \in DOMAIN tabs', tabs'[k].path = w.path
        PROVE  tabs'[k].id = w.id
    <3>1. w.path # NoFile
      BY TabsAssumption DEF Save
    <3> QED
      BY <1>2, <1>5, <2>1, <3>1 DEF WritersAlone, Written
  <2> QED
    BY <1>1, <2>1 DEF WritersAlone
<1>9. PathsDiffer'
  BY <1>2, <1>5 DEF PathsDiffer
<1>10. SavedIsOnDisk'
  BY <1>1, <1>2, <1>5 DEF SavedIsOnDisk
<1> QED
  BY <1>6, <1>7, <1>8, <1>9, <1>10

(* The source, or what is saved, of the active program changes. *)
LEMMA ChangeStep ==
    ASSUME TabsInv, NEW k \in DOMAIN tabs, NEW p \in Tab,
           p.id = tabs[k].id, p.path = tabs[k].path, tabs' = SetTab(p),
           UNCHANGED <<active_id, disk, writing, programs>>,
           \A j \in DOMAIN tabs : j # k => (tabs[j].id \in raced' <=> tabs[j].id \in raced),
           p.path # NoFile /\ p.id \notin raced' => disk[p.path] = p.saved
    PROVE  TabsInv'
<1> USE DEF TabsInv
<1>1. /\ tabs' \in Seq(Tab) /\ DOMAIN tabs' = DOMAIN tabs /\ tabs'[k] = p
      /\ \A j \in DOMAIN tabs : /\ j # k => tabs'[j] = tabs[j]
                                /\ tabs'[j].id = tabs[j].id
                                /\ tabs'[j].path = tabs[j].path
  BY SetShape
<1>2. TabTypes'
  BY <1>1 DEF TabTypes
<1>3. IdsDiffer' /\ WritersAlone' /\ PathsDiffer'
  BY <1>1 DEF IdsDiffer, WritersAlone, PathsDiffer
<1>4. SavedIsOnDisk'
  BY <1>1 DEF SavedIsOnDisk
<1> QED
  BY <1>2, <1>3, <1>4

(* A closed program leaves the others in their order. *)
LEMMA CloseStep == ASSUME TabsInv, NEW id, CloseTab(id) PROVE TabsInv'
<1> USE DEF TabsInv
<1>1. /\ TabAt(id) \in DOMAIN tabs /\ tabs' = RemoveAt(tabs, TabAt(id))
      /\ UNCHANGED <<active_id, disk, writing, programs, raced>>
  BY TabAtFinds DEF CloseTab
<1>2. tabs' \in Seq(Tab)
  BY <1>1, CloseShape
<1>3. PICK was \in [DOMAIN tabs' -> DOMAIN tabs] :
        \A j, k \in DOMAIN tabs' : tabs'[k] = tabs[was[k]] /\ (was[j] = was[k] => j = k)
  BY <1>1, CloseShape
<1>4. \A k \in DOMAIN tabs' : was[k] \in DOMAIN tabs /\ tabs'[k] = tabs[was[k]]
  BY <1>3
<1>5. TabTypes' /\ WritersAlone' /\ SavedIsOnDisk'
  <2>1. TabTypes'
    BY <1>1, <1>2 DEF TabTypes
  <2>2. WritersAlone'
    BY <1>1, <1>4 DEF WritersAlone
  <2>3. SavedIsOnDisk'
    BY <1>1, <1>4 DEF SavedIsOnDisk
  <2> QED
    BY <2>1, <2>2, <2>3
<1>6. IdsDiffer'
  BY <1>1, <1>3, <1>4 DEF IdsDiffer
<1>7. PathsDiffer'
  BY <1>3, <1>4 DEF PathsDiffer
<1> QED
  BY <1>5, <1>6, <1>7

(* A save begins: nobody else has the file, or is to have it. *)
LEMMA BeginStep == ASSUME TabsInv, NEW path \in Files, BeginSave(path) PROVE TabsInv'
<1> USE DEF TabsInv
<1> DEFINE new == [id |-> active_id, path |-> path, content |-> Active.source]
<1>1. /\ Active # NoProgram /\ ~Written(path) /\ \A w \in writing : w.id # active_id
      /\ FindByPath(path) # 0 => tabs[FindByPath(path)].id = active_id
      /\ writing' = writing \cup {new} /\ UNCHANGED <<tabs, active_id, disk, programs, raced>>
  BY DEF BeginSave
<1>2. PICK k \in DOMAIN tabs : tabs[k] = Active /\ tabs[k].id = active_id
  BY <1>1, ActiveOpen
<1>3. new \in Save /\ new.id <= programs
  <2>1. Active \in Tab /\ active_id \in Nat /\ active_id <= programs
    BY <1>2, TabsShape DEF TabTypes, IdsDiffer
  <2> QED
    BY <2>1 DEF Save, Tab
<1>4. \A j \in DOMAIN tabs : tabs[j].path = path => tabs[j].id = active_id
  <2>1. path # NoFile
    BY TabsAssumption
  <2>2. FindByPath(path) # 0
        => FindByPath(path) \in DOMAIN tabs /\ tabs[FindByPath(path)].path = path
    BY <2>1, PathFinds
  <2>3. FindByPath(path) = 0 => \A j \in DOMAIN tabs : tabs[j].path # path
    BY <2>1, PathFinds
  <2> QED
    BY <1>1, <2>1, <2>2, <2>3 DEF PathsDiffer
<1>5. TabTypes' /\ IdsDiffer'
  BY <1>1, <1>3 DEF TabTypes, IdsDiffer
<1>6. WritersAlone'
  BY <1>1, <1>4 DEF WritersAlone, Written
<1> QED
  BY <1>1, <1>5, <1>6 DEF PathsDiffer, SavedIsOnDisk

(* A save ends: the program, if it is open still, has the file now. *)
LEMMA EndStep == ASSUME TabsInv, NEW w \in writing, EndSave(w) PROVE TabsInv'
<1> USE DEF TabsInv
<1>1. /\ w \in Save /\ w.path \in Files /\ w.path # NoFile /\ w.content \in Sources
      /\ writing' = writing \ {w} /\ disk' = [disk EXCEPT ![w.path] = w.content]
      /\ UNCHANGED <<active_id, programs>>
  BY TabsAssumption DEF EndSave, TabTypes, Save
<1>2. /\ disk' \in [Files -> Sources] /\ disk'[w.path] = w.content
      /\ \A path \in Files : path # w.path => disk'[path] = disk[path]
      /\ writing' \subseteq Save
  BY <1>1 DEF TabTypes
<1>3. \A v \in writing' : v.id # w.id /\ v.path # w.path
  BY <1>1 DEF WritersAlone
<1>4. CASE ~IsOpen(w.id)
  <2>1. UNCHANGED <<tabs, raced>>
    BY <1>4 DEF EndSave
  <2>2. \A k \in DOMAIN tabs : tabs[k].path # w.path
    BY <1>4 DEF IsOpen, WritersAlone
  <2>3. SavedIsOnDisk'
    BY <1>2, <2>1, <2>2, TabsShape DEF SavedIsOnDisk, Tab, Paths
  <2> QED
    BY <1>1, <1>2, <2>1, <2>3 DEF TabTypes, IdsDiffer, WritersAlone, PathsDiffer
<1>5. CASE IsOpen(w.id)
  <2> DEFINE k == TabAt(w.id)
             renamed == [tabs[k] EXCEPT !.path = w.path]
             p == MarkSaved(renamed)
  <2>1. k \in DOMAIN tabs /\ tabs[k].id = w.id /\ tabs[k] \in Tab
    BY <1>5, TabAtFinds, TabsShape
  <2>2. k # 0
    BY <2>1, TabsShape
  <2>3. GetTab(w.id) = tabs[k]
    BY <2>2 DEF GetTab
  <2>4. /\ tabs' = SetTab(p)
        /\ raced' = IF renamed.source = w.content THEN raced \ {w.id} ELSE raced \cup {w.id}
    BY <1>5, <2>3 DEF EndSave
  <2>5. /\ p \in Tab /\ p.id = w.id /\ p.path = w.path /\ p.saved = renamed.source
        /\ renamed.source \in Sources
    BY <1>1, <2>1 DEF MarkSaved, Tab, Paths
  <2> HIDE DEF k, renamed, p
  <2>6. /\ tabs' \in Seq(Tab) /\ DOMAIN tabs' = DOMAIN tabs /\ tabs'[k] = p
        /\ \A j \in DOMAIN tabs : /\ j # k => tabs'[j] = tabs[j]
                                  /\ tabs'[j].id = tabs[j].id
    BY <2>1, <2>4, <2>5, SetShape
  <2>7. \A j \in DOMAIN tabs : j # k => tabs[j].path # w.path /\ tabs[j].id # w.id
    BY <2>1 DEF WritersAlone, IdsDiffer
  <2>8. TabTypes'
    BY <1>1, <1>2, <2>6 DEF TabTypes
  <2>9. IdsDiffer'
    BY <1>1, <2>6 DEF IdsDiffer
  <2>10. WritersAlone'
    <3>1. ASSUME NEW v \in writing', NEW j \in DOMAIN tabs', tabs'[j].path = v.path
          PROVE  tabs'[j].id = v.id
      <4>1. j # k
        BY <1>3, <2>5, <2>6, <3>1
      <4> QED
        BY <1>1, <2>6, <3>1, <4>1 DEF WritersAlone
    <3> QED
      BY <1>1, <3>1 DEF WritersAlone
  <2>11. PathsDiffer'
    BY <2>5, <2>6, <2>7 DEF PathsDiffer
  <2>12. SavedIsOnDisk'
    <3>1. ASSUME NEW j \in DOMAIN tabs', j # k, tabs'[j].path # NoFile, tabs'[j].id \notin raced'
          PROVE  disk'[tabs'[j].path] = tabs'[j].saved
      <4>1. tabs'[j] = tabs[j] /\ tabs[j].path \in Files /\ tabs[j].path # w.path
        BY <2>6, <2>7, <3>1, TabsShape DEF Tab, Paths
      <4>2. tabs[j].id \notin raced
        BY <2>4, <2>6, <2>7, <3>1
      <4> QED
        BY <1>2, <2>6, <3>1, <4>1, <4>2 DEF SavedIsOnDisk
    <3>2. tabs'[k].id \notin raced' => disk'[tabs'[k].path] = tabs'[k].saved
      BY <1>2, <2>4, <2>5, <2>6
    <3> QED
      BY <3>1, <3>2 DEF SavedIsOnDisk
  <2> QED
    BY <2>8, <2>9, <2>10, <2>11, <2>12
<1> QED
  BY <1>4, <1>5

(* The invariant of the open programs is inductive. *)
LEMMA TabsKept == TabsInv /\ [TabsNext]_tabVars => TabsInv'
<1> SUFFICES ASSUME TabsInv, [TabsNext]_tabVars PROVE TabsInv'
  OBVIOUS
<1> USE DEF TabsInv
<1>1. ASSUME NEW source \in Sources, NewTab(source) PROVE TabsInv'
  BY <1>1, AddStep, TabsAssumption DEF NewTab, Tab, Paths
<1>2. ASSUME NEW source \in Sources, EditTab(source) PROVE TabsInv'
  <2>1. PICK k \in DOMAIN tabs : tabs[k] = Active
    BY <1>2, ActiveOpen DEF EditTab
  <2> DEFINE p == [Active EXCEPT !.source = source]
  <2>2. p \in Tab /\ p.id = tabs[k].id /\ p.path = tabs[k].path /\ p.saved = tabs[k].saved
    BY <2>1, TabsShape DEF Tab
  <2>3. tabs' = SetTab(p) /\ UNCHANGED <<active_id, disk, writing, programs, raced>>
    BY <1>2 DEF EditTab
  <2>4. p.path # NoFile /\ p.id \notin raced' => disk[p.path] = p.saved
    BY <2>2, <2>3 DEF SavedIsOnDisk
  <2> HIDE DEF p
  <2> QED
    BY <2>2, <2>3, <2>4, ChangeStep
<1>3. ASSUME NEW id, SwitchTab(id) PROVE TabsInv'
  <2>1. active_id' \in Nat /\ UNCHANGED <<tabs, disk, writing, programs, raced>>
    BY <1>3, TabsShape DEF SwitchTab, IsOpen, Tab
  <2> QED
    BY <2>1 DEF TabTypes, IdsDiffer, WritersAlone, PathsDiffer, SavedIsOnDisk
<1>4. ASSUME NEW path \in Files, OpenTab(path) PROVE TabsInv'
  <2>1. CASE FindByPath(path) # 0
    BY <1>3, <1>4, <2>1 DEF OpenTab
  <2>2. CASE FindByPath(path) = 0
    <3> DEFINE p == MarkSaved([id |-> 0, path |-> path, source |-> disk[path],
                               saved |-> EmptySource])
    <3>1. AddTab(p) /\ ~Written(path)
      BY <1>4, <2>2 DEF OpenTab
    <3>2. p \in Tab /\ p.path = path /\ p.saved = disk[path]
      BY DEF MarkSaved, Tab, Paths, TabTypes
    <3>3. \A k \in DOMAIN tabs : tabs[k].path # path
      BY <2>2, PathFinds, TabsAssumption
    <3> HIDE DEF p
    <3> QED
      BY <3>1, <3>2, <3>3, AddStep
  <2> QED
    BY <2>1, <2>2
<1>5. ASSUME NEW path \in Files, BeginSave(path) PROVE TabsInv'
  BY <1>5, BeginStep
<1>6. ASSUME NEW id, CloseTab(id) PROVE TabsInv'
  BY <1>6, CloseStep
<1>7. ASSUME NEW w \in writing, EndSave(w) PROVE TabsInv'
  BY <1>7, EndStep
<1>8. ASSUME NEW w \in writing, FailSave(w) PROVE TabsInv'
  <2>1. writing' \subseteq writing /\ UNCHANGED <<tabs, active_id, disk, programs, raced>>
    BY <1>8 DEF FailSave
  <2>2. TabTypes' /\ IdsDiffer' /\ WritersAlone'
    BY <2>1 DEF TabTypes, IdsDiffer, WritersAlone
  <2> QED
    BY <2>1, <2>2 DEF PathsDiffer, SavedIsOnDisk
<1>9. CASE ReloadTab
  <2>1. PICK k \in DOMAIN tabs : tabs[k] = Active /\ tabs[k].id = active_id
    BY <1>9, ActiveOpen DEF ReloadTab
  <2> DEFINE p == MarkSaved([Active EXCEPT !.source = disk[Active.path]])
  <2>2. Active \in Tab /\ Active.path \in Files
    BY <1>9, <2>1, TabsShape DEF ReloadTab, Tab, Paths
  <2>3. /\ p \in Tab /\ p.id = tabs[k].id /\ p.path = tabs[k].path
        /\ p.saved = disk[p.path]
    BY <2>1, <2>2 DEF MarkSaved, Tab, TabTypes
  <2>4. /\ tabs' = SetTab(p) /\ raced' = raced \ {active_id}
        /\ UNCHANGED <<active_id, disk, writing, programs>>
    BY <1>9 DEF ReloadTab
  <2>5. \A j \in DOMAIN tabs : j # k => (tabs[j].id \in raced' <=> tabs[j].id \in raced)
    BY <2>1, <2>4 DEF IdsDiffer
  <2> HIDE DEF p
  <2> QED
    BY <2>3, <2>4, <2>5, ChangeStep
<1>10. CASE UNCHANGED tabVars
  BY <1>10 DEF tabVars, TabTypes, IdsDiffer, WritersAlone, PathsDiffer, SavedIsOnDisk
<1> QED
  BY <1>1, <1>2, <1>3, <1>4, <1>5, <1>6, <1>7, <1>8, <1>9, <1>10 DEF TabsNext

(* However many programs are opened, closed, edited, reloaded and saved,   *)
(* with saves that end or fail at any later time: a program without        *)
(* unsaved edits is what its file contains, and no two have one file --    *)
(* unless it was edited while it was being written (Program.mark_saved).   *)
THEOREM CleanTabsOnDisk == TabsSpec => []CleanIsOnDisk
<1>1. TabsInit => TabsInv
  <2> SUFFICES ASSUME TabsInit PROVE TabsInv
    OBVIOUS
  <2>1. TabTypes
    BY EmptySeq DEF TabsInit, TabTypes
  <2>2. DOMAIN tabs = {} /\ writing = {}
    BY EmptySeq, LenProperties DEF TabsInit
  <2> QED
    BY <2>1, <2>2 DEF TabsInv, IdsDiffer, WritersAlone, PathsDiffer, SavedIsOnDisk
<1>2. TabsInv => CleanIsOnDisk
  BY DEF TabsInv, CleanIsOnDisk, PathsDiffer, SavedIsOnDisk, IsDirty
<1> QED
  BY <1>1, <1>2, TabsKept, PTL DEF TabsSpec

-----------------------------------------------------------------------------
(* Synchronous tools. *)

(* What the code leaves to its type checker: an override of a coroutine is *)
(* a coroutine, and no tool is both an electric and a pneumatic gripper.   *)
OverridesAgree ==
    \A cls \in DOMAIN Backends : \A c, d \in ToSet(MroOf(cls)) :
        \A name \in DOMAIN Body(c) \cap DOMAIN Body(d) : Body(c)[name] = Body(d)[name]
OneGripper ==
    \A cls \in DOMAIN Backends :
        ~({"ElectricGripperTool", "PneumaticGripperTool"} \subseteq ToSet(MroOf(cls)))

Bases(cls) == ToSet(MroOf(cls))

(* A wrapper that may be handed out is registered with the bases of the    *)
(* class it stands for, and with no other class.                           *)
StandsFor(w, cls) ==
    /\ cls \in DOMAIN Backends /\ w \in 1..made
    /\ \A c : <<c, w>> \in registered <=> c \in Bases(cls)

(* One that is being made, with those it has behind it.                    *)
MadeFor(work) ==
    /\ work.cls \in DOMAIN Backends /\ work.wrapper \in 1..made
    /\ work.left \in Seq(Classes) /\ ToSet(work.left) \subseteq Bases(work.cls)
    /\ \A c : <<c, work.wrapper>> \in registered => c \in Bases(work.cls)
    /\ \A c \in Bases(work.cls) : <<c, work.wrapper>> \in registered \/ c \in ToSet(work.left)

Constructions == [cls : DOMAIN Backends, wrapper : Nat, left : Seq(Classes)]

SyncTypes ==
    /\ made \in Nat
    /\ making \in [Threads -> Constructions \cup {Idle}]
    /\ wrappers \in [DOMAIN Backends -> Nat \cup {NoWrapper}]
    /\ handles \subseteq [cls : DOMAIN Backends, wrapper : Nat]

(* No other thread, and nobody else, has a wrapper that is being made.     *)
NobodyElse(t) ==
    /\ \A u \in Threads : making[u] # Idle /\ making[u].wrapper = making[t].wrapper => u = t
    /\ \A cls \in DOMAIN Backends : wrappers[cls] # making[t].wrapper
    /\ \A handle \in handles : handle.wrapper # making[t].wrapper

SyncInv ==
    /\ SyncTypes
    /\ \A c, w : <<c, w>> \in registered => w \in 1..made
    /\ \A cls \in DOMAIN Backends : wrappers[cls] # NoWrapper => StandsFor(wrappers[cls], cls)
    /\ \A handle \in handles : StandsFor(handle.wrapper, handle.cls)
    /\ \A t \in Threads : making[t] # Idle => MadeFor(making[t]) /\ NobodyElse(t)

-----------------------------------------------------------------------------
(* The bases of a class, of waldoctl or of a backend. *)
LEMMA BasesOf ==
    /\ Bases("ToolSpec") = {"ToolSpec"}
    /\ Bases("GripperTool") = {"GripperTool", "ToolSpec"}
    /\ Bases("PneumaticGripperTool") = {"PneumaticGripperTool", "GripperTool", "ToolSpec"}
    /\ Bases("ElectricGripperTool") = {"ElectricGripperTool", "GripperTool", "ToolSpec"}
<1>1. /\ MroOf("ToolSpec") = <<"ToolSpec">>
      /\ MroOf("GripperTool") = <<"GripperTool", "ToolSpec">>
      /\ MroOf("PneumaticGripperTool") = <<"PneumaticGripperTool", "GripperTool", "ToolSpec">>
      /\ MroOf("ElectricGripperTool") = <<"ElectricGripperTool", "GripperTool", "ToolSpec">>
  BY DEF MroOf, Mro
<1>2. \A a : ToSet(<<a>>) = {a}
  BY DEF ToSet
<1>3. \A a, b : ToSet(<<a, b>>) = {a, b}
  BY DEF ToSet
<1>4. \A a, b, c : ToSet(<<a, b, c>>) = {a, b, c}
  BY DEF ToSet
<1> QED
  BY <1>1, <1>2, <1>3, <1>4 DEF Bases

(* What the assumption says, in terms of sets. *)
LEMMA BackendBases ==
    ASSUME NEW cls \in DOMAIN Backends
    PROVE  /\ MroOf(cls) \in Seq(Classes) /\ Bases(cls) \subseteq Classes
           /\ cls \in Bases(cls) /\ "ToolSpec" \in Bases(cls)
           /\ \A base \in Bases(cls) : Bases(base) \subseteq Bases(cls)
<1>1. /\ MroOf(cls) \in Seq(Classes)
      /\ Contains(MroOf(cls), cls) /\ Contains(MroOf(cls), "ToolSpec")
      /\ \A base \in ToSet(MroOf(cls)) : ToSet(MroOf(base)) \subseteq ToSet(MroOf(cls))
  BY SyncAssumption
<1>2. DOMAIN MroOf(cls) = 1..Len(MroOf(cls)) /\ \A k \in DOMAIN MroOf(cls) : MroOf(cls)[k] \in Classes
  BY <1>1, LenProperties, ElementOfSeq
<1> QED
  BY <1>1, <1>2 DEF Bases, Contains, ToSet

(* The search in an MRO finds its members. *)
LEMMA BasesContain ==
    ASSUME NEW cls \in Classes, NEW c PROVE Contains(MroOf(cls), c) <=> c \in Bases(cls)
<1>1. MroOf(cls) \in Seq(Classes)
  <2>1. CASE cls \in DOMAIN Backends
    BY <2>1, BackendBases
  <2>2. CASE cls \in DOMAIN Mro
    <3>1. {"ToolSpec", "GripperTool", "PneumaticGripperTool", "ElectricGripperTool"} \subseteq Classes
      BY DEF Classes, Mro
    <3>2. /\ <<"ToolSpec">> \in Seq(Classes) /\ <<"GripperTool", "ToolSpec">> \in Seq(Classes)
          /\ <<"PneumaticGripperTool", "GripperTool", "ToolSpec">> \in Seq(Classes)
          /\ <<"ElectricGripperTool", "GripperTool", "ToolSpec">> \in Seq(Classes)
      <4> HIDE DEF Classes
      <4> QED
        BY <3>1
    <3>3. /\ DOMAIN Mro = {"ToolSpec", "GripperTool", "PneumaticGripperTool", "ElectricGripperTool"}
          /\ Mro["ToolSpec"] = <<"ToolSpec">> /\ Mro["GripperTool"] = <<"GripperTool", "ToolSpec">>
          /\ Mro["PneumaticGripperTool"] = <<"PneumaticGripperTool", "GripperTool", "ToolSpec">>
          /\ Mro["ElectricGripperTool"] = <<"ElectricGripperTool", "GripperTool", "ToolSpec">>
      BY DEF Mro
    <3>4. MroOf(cls) = Mro[cls]
      BY <2>2 DEF MroOf
    <3> HIDE DEF Classes
    <3> QED
      BY <2>2, <3>2, <3>3, <3>4
  <2> QED
    BY <2>1, <2>2 DEF Classes
<1>2. DOMAIN MroOf(cls) = 1..Len(MroOf(cls))
  BY <1>1, LenProperties
<1> QED
  BY <1>2 DEF Bases, Contains, ToSet

(* Every class is among its own bases. *)
LEMMA HasItself == ASSUME NEW cls \in Classes PROVE cls \in Bases(cls)
BY BackendBases, BasesOf DEF Classes, Mro

(* isinstance answers as it does for the tool. *)
LEMMA AnswersAsTheTool ==
    ASSUME NEW w, NEW own_cls, StandsFor(w, own_cls), NEW cls \in Classes
    PROVE  IsInstance(w, cls) <=> Contains(MroOf(own_cls), cls)
<1>1. own_cls \in DOMAIN Backends /\ own_cls \in Classes
  BY DEF StandsFor, Classes
<1>2. Contains(MroOf(own_cls), cls) <=> cls \in Bases(own_cls)
  BY <1>1, BasesContain
<1>3. ASSUME cls \in Bases(own_cls) PROVE IsInstance(w, cls)
  BY <1>3, HasItself, BasesContain DEF StandsFor, IsInstance
<1>4. ASSUME IsInstance(w, cls) PROVE cls \in Bases(own_cls)
  BY <1>1, <1>4, BackendBases, BasesContain DEF StandsFor, IsInstance
<1> QED
  BY <1>2, <1>3, <1>4

-----------------------------------------------------------------------------
(* What a class of waldoctl declares, and its typed wrapper. *)
LEMMA Bodies ==
    /\ Body("ToolSpec") = ToolSpec /\ Body("GripperTool") = GripperTool
    /\ Body("PneumaticGripperTool") = PneumaticGripperTool
    /\ Body("ElectricGripperTool") = ElectricGripperTool
BY DEF Body

(* The typed wrapper of a class of waldoctl declares what that class does. *)
Behind == [
    SyncTool |-> "ToolSpec", SyncGripperTool |-> "GripperTool",
    SyncPneumaticGripperTool |-> "PneumaticGripperTool",
    SyncElectricGripperTool |-> "ElectricGripperTool"]

(* Its verbs are coroutines of that class, its attributes are not. *)
LEMMA VerbsRun ==
    \A s \in DOMAIN Behind :
        /\ \A name \in Verbs[s] :
            name \in DOMAIN Body(Behind[s]) /\ Body(Behind[s])[name] = "async"
        /\ \A name \in Attributes[s] :
            name \in DOMAIN Body(Behind[s]) /\ Body(Behind[s])[name] = "own"
<1>1. /\ \A name \in ToolVerbs : name \in DOMAIN ToolSpec /\ ToolSpec[name] = "async"
      /\ \A name \in ToolAttributes : name \in DOMAIN ToolSpec /\ ToolSpec[name] = "own"
  BY DEF ToolVerbs, ToolAttributes, ToolSpec, ToolReadings
<1>2. /\ \A name \in {"set_position", "open", "close", "calibrate"} :
            name \in DOMAIN GripperTool /\ GripperTool[name] = "async"
      /\ "gripper_type" \in DOMAIN GripperTool /\ GripperTool["gripper_type"] = "own"
  BY DEF GripperTool
<1>3. "io_port" \in DOMAIN PneumaticGripperTool /\ PneumaticGripperTool["io_port"] = "own"
  BY DEF PneumaticGripperTool
<1>4. /\ \A name \in {"set_position", "open", "close", "stop", "release"} :
            name \in DOMAIN ElectricGripperTool /\ ElectricGripperTool[name] = "async"
      /\ \A name \in {"position_range", "speed_range", "current_range"} :
            name \in DOMAIN ElectricGripperTool /\ ElectricGripperTool[name] = "own"
  BY DEF ElectricGripperTool
<1>5. /\ Verbs["SyncTool"] = ToolVerbs /\ Attributes["SyncTool"] = ToolAttributes
      /\ Verbs["SyncGripperTool"] = {"set_position", "open", "close", "calibrate"}
      /\ Attributes["SyncGripperTool"] = {"gripper_type"}
      /\ Verbs["SyncPneumaticGripperTool"] = {}
      /\ Attributes["SyncPneumaticGripperTool"] = {"io_port"}
      /\ Verbs["SyncElectricGripperTool"] = {"set_position", "open", "close", "stop", "release"}
      /\ Attributes["SyncElectricGripperTool"]
            = {"position_range", "speed_range", "current_range"}
  BY DEF Verbs, Attributes
<1>6. /\ Behind["SyncTool"] = "ToolSpec" /\ Behind["SyncGripperTool"] = "GripperTool"
      /\ Behind["SyncPneumaticGripperTool"] = "PneumaticGripperTool"
      /\ Behind["SyncElectricGripperTool"] = "ElectricGripperTool"
      /\ DOMAIN Behind = {"SyncTool", "SyncGripperTool", "SyncPneumaticGripperTool",
                          "SyncElectricGripperTool"}
  BY DEF Behind
<1> SUFFICES ASSUME NEW s \in DOMAIN Behind
             PROVE  /\ \A name \in Verbs[s] :
                        name \in DOMAIN Body(Behind[s]) /\ Body(Behind[s])[name] = "async"
                    /\ \A name \in Attributes[s] :
                        name \in DOMAIN Body(Behind[s]) /\ Body(Behind[s])[name] = "own"
  OBVIOUS
<1>7. CASE s = "SyncTool"
  BY <1>1, <1>5, <1>6, <1>7, Bodies
<1>8. CASE s = "SyncGripperTool"
  BY <1>2, <1>5, <1>6, <1>8, Bodies
<1>9. CASE s = "SyncPneumaticGripperTool"
  BY <1>3, <1>5, <1>6, <1>9, Bodies
<1>10. CASE s = "SyncElectricGripperTool"
  BY <1>4, <1>5, <1>6, <1>10, Bodies
<1> QED
  BY <1>6, <1>7, <1>8, <1>9, <1>10

(* Which one is chosen. *)
LEMMA TypedOf ==
    ASSUME NEW cls \in DOMAIN Backends
    PROVE  TypedFor(cls) =
            IF "ElectricGripperTool" \in Bases(cls) THEN "SyncElectricGripperTool"
            ELSE IF "PneumaticGripperTool" \in Bases(cls) THEN "SyncPneumaticGripperTool"
            ELSE IF "GripperTool" \in Bases(cls) THEN "SyncGripperTool" ELSE "SyncTool"
<1> DEFINE I == {k \in 1..Len(Typed) : Contains(MroOf(cls), Typed[k][1])}
<1>1. /\ Len(Typed) = 4
      /\ Typed[1] = <<"ElectricGripperTool", "SyncElectricGripperTool">>
      /\ Typed[2] = <<"PneumaticGripperTool", "SyncPneumaticGripperTool">>
      /\ Typed[3] = <<"GripperTool", "SyncGripperTool">>
      /\ Typed[4] = <<"ToolSpec", "SyncTool">>
  BY DEF Typed
<1>2. TypedFor(cls) = Typed[IF I # {} THEN Min(I) ELSE 0][2]
  BY DEF TypedFor, SelectInSeq
<1>3. \A k \in {1, 2, 3, 4} : k \in I <=> Typed[k][1] \in Bases(cls)
  <2>1. \A c : Contains(MroOf(cls), c) <=> c \in Bases(cls)
    <3>1. cls \in Classes
      BY DEF Classes
    <3> QED
      BY <3>1, BasesContain
  <2>2. 1..Len(Typed) = {1, 2, 3, 4}
    BY <1>1
  <2> QED
    BY <2>1, <2>2
<1>4. 4 \in I /\ I \subseteq {1, 2, 3, 4}
  <2>1. I \subseteq {1, 2, 3, 4}
    BY <1>1
  <2>2. "ToolSpec" \in Bases(cls)
    BY BackendBases
  <2> HIDE DEF I
  <2> QED
    BY <1>1, <1>3, <2>1, <2>2
<1>5. Min(I) \in I /\ \A k \in I : Min(I) <= k
  <2>1. I # {} /\ I \subseteq Nat
    BY <1>4
  <2> HIDE DEF I
  <2> QED
    BY <2>1, MinIsMember
<1>6. TypedFor(cls) = Typed[Min(I)][2]
  BY <1>2, <1>4
<1> HIDE DEF I
<1>7. Min(I) = IF 1 \in I THEN 1 ELSE IF 2 \in I THEN 2 ELSE IF 3 \in I THEN 3 ELSE 4
  <2> DEFINE least == Min(I)
  <2>1. least \in I /\ (\A k \in I : least <= k) /\ I \subseteq {1, 2, 3, 4}
    BY <1>4, <1>5
  <2> HIDE DEF least
  <2>2. least \in {1, 2, 3, 4}
    BY <2>1
  <2>3. least = IF 1 \in I THEN 1 ELSE IF 2 \in I THEN 2 ELSE IF 3 \in I THEN 3 ELSE 4
    BY <2>1, <2>2
  <2> QED
    BY <2>3 DEF least
<1> QED
  BY <1>1, <1>3, <1>6, <1>7

(* The nearest class that declares a name settles what it is. *)
LEMMA MemberOf ==
    ASSUME OverridesAgree, NEW cls \in DOMAIN Backends, NEW c \in Bases(cls),
           NEW name \in DOMAIN Body(c)
    PROVE  Member(cls, name) = Body(c)[name]
<1> DEFINE mro == MroOf(cls)
           I == {k \in 1..Len(mro) : name \in DOMAIN Body(mro[k])}
<1>1. DOMAIN mro = 1..Len(mro) /\ Len(mro) \in Nat
  BY BackendBases, LenProperties
<1>2. Member(cls, name) = Body(mro[IF I # {} THEN Min(I) ELSE 0])[name]
  BY DEF Member, SelectInSeq
<1>3. PICK k \in 1..Len(mro) : mro[k] = c
  BY <1>1 DEF Bases, ToSet
<1>4. k \in I /\ I \subseteq Nat
  BY <1>3
<1>5. Min(I) \in I
  <2> HIDE DEF I
  <2> QED
    BY <1>4, MinIsMember
<1>6. name \in DOMAIN Body(mro[Min(I)]) /\ mro[Min(I)] \in Bases(cls)
  BY <1>1, <1>5 DEF Bases, ToSet
<1>7. Member(cls, name) = Body(mro[Min(I)])[name]
  BY <1>2, <1>4
<1> HIDE DEF I, mro
<1> QED
  BY <1>6, <1>7 DEF OverridesAgree, Bases

(* It declares nothing that the tool is not. *)
LEMMA DeclaredBehind ==
    ASSUME NEW cls \in DOMAIN Backends
    PROVE  \A s \in SyncMro[TypedFor(cls)] : s \in DOMAIN Behind /\ Behind[s] \in Bases(cls)
<1>1. /\ SyncMro["SyncTool"] = {"SyncTool"}
      /\ SyncMro["SyncGripperTool"] = {"SyncGripperTool", "SyncTool"}
      /\ SyncMro["SyncPneumaticGripperTool"]
            = {"SyncPneumaticGripperTool", "SyncGripperTool", "SyncTool"}
      /\ SyncMro["SyncElectricGripperTool"]
            = {"SyncElectricGripperTool", "SyncGripperTool", "SyncTool"}
  BY DEF SyncMro
<1>2. /\ Behind["SyncTool"] = "ToolSpec" /\ Behind["SyncGripperTool"] = "GripperTool"
      /\ Behind["SyncPneumaticGripperTool"] = "PneumaticGripperTool"
      /\ Behind["SyncElectricGripperTool"] = "ElectricGripperTool"
      /\ DOMAIN Behind = {"SyncTool", "SyncGripperTool", "SyncPneumaticGripperTool",
                          "SyncElectricGripperTool"}
  BY DEF Behind
<1>3. /\ "ToolSpec" \in Bases(cls)
      /\ "ElectricGripperTool" \in Bases(cls) => "GripperTool" \in Bases(cls)
      /\ "PneumaticGripperTool" \in Bases(cls) => "GripperTool" \in Bases(cls)
  BY BackendBases, BasesOf
<1> QED
  BY <1>1, <1>2, <1>3, TypedOf

(* And everything that waldoctl declares of it. *)
LEMMA TypedAsFar ==
    ASSUME OneGripper, NEW cls \in DOMAIN Backends, NEW entry \in ToSet(Typed),
           Contains(MroOf(cls), entry[1])
    PROVE  entry[2] \in SyncMro[TypedFor(cls)]
<1>1. ToSet(Typed) = {<<"ElectricGripperTool", "SyncElectricGripperTool">>,
                      <<"PneumaticGripperTool", "SyncPneumaticGripperTool">>,
                      <<"GripperTool", "SyncGripperTool">>, <<"ToolSpec", "SyncTool">>}
  BY DEF Typed, ToSet
<1>2. entry[1] \in Bases(cls)
  BY BasesContain DEF Classes
<1>3. ~("ElectricGripperTool" \in Bases(cls) /\ "PneumaticGripperTool" \in Bases(cls))
  BY DEF OneGripper, Bases
<1>4. /\ SyncMro["SyncTool"] = {"SyncTool"}
      /\ SyncMro["SyncGripperTool"] = {"SyncGripperTool", "SyncTool"}
      /\ SyncMro["SyncPneumaticGripperTool"]
            = {"SyncPneumaticGripperTool", "SyncGripperTool", "SyncTool"}
      /\ SyncMro["SyncElectricGripperTool"]
            = {"SyncElectricGripperTool", "SyncGripperTool", "SyncTool"}
  BY DEF SyncMro
<1>5. CASE entry = <<"ElectricGripperTool", "SyncElectricGripperTool">>
  BY <1>2, <1>4, <1>5, TypedOf
<1>6. CASE entry = <<"PneumaticGripperTool", "SyncPneumaticGripperTool">>
  BY <1>2, <1>3, <1>4, <1>6, TypedOf
<1>7. CASE entry = <<"GripperTool", "SyncGripperTool">>
  BY <1>2, <1>4, <1>7, TypedOf
<1>8. CASE entry = <<"ToolSpec", "SyncTool">>
  BY <1>4, <1>8, TypedOf
<1> QED
  BY <1>1, <1>5, <1>6, <1>7, <1>8

(* So a coroutine of the tool never comes back as one. *)
LEMMA NothingUnawaited ==
    ASSUME OverridesAgree, NEW cls \in DOMAIN Backends, NEW name \in Members(cls)
    PROVE  Access(cls, name) = "runs" <=> Member(cls, name) = "async"
<1> DEFINE declared == SyncMro[TypedFor(cls)]
<1>1. Access(cls, name) = IF \E s \in declared : name \in Verbs[s] THEN "runs"
                          ELSE IF \E s \in declared : name \in Attributes[s] THEN "own"
                          ELSE IF Member(cls, name) = "async" THEN "runs" ELSE "own"
  BY DEF Access, Forward
<1>2. \A s \in declared : s \in DOMAIN Behind /\ Behind[s] \in Bases(cls)
  BY DeclaredBehind
<1> HIDE DEF declared
<1>3. ASSUME NEW s \in declared, name \in Verbs[s] PROVE Member(cls, name) = "async"
  BY <1>2, <1>3, VerbsRun, MemberOf
<1>4. ASSUME NEW s \in declared, name \in Attributes[s] PROVE Member(cls, name) = "own"
  BY <1>2, <1>4, VerbsRun, MemberOf
<1> QED
  BY <1>1, <1>3, <1>4

-----------------------------------------------------------------------------
(* A wrapper that is found stands for the class; a new one is new. *)
LEMMA LookUpStep ==
    ASSUME SyncInv, NEW t \in Threads, NEW cls \in DOMAIN Backends, LookUp(t, cls)
    PROVE  SyncInv'
<1> USE DEF SyncInv
<1>1. CASE wrappers[cls] # NoWrapper
  <2>1. /\ handles' = handles \cup {[cls |-> cls, wrapper |-> wrappers[cls]]}
        /\ UNCHANGED <<wrappers, registered, making, made>>
    BY <1>1 DEF LookUp, HandOut
  <2>2. StandsFor(wrappers[cls], cls)
    BY <1>1
  <2>3. SyncTypes'
    BY <1>1, <2>1 DEF SyncTypes
  <2>4. ASSUME NEW u \in Threads, making[u] # Idle PROVE NobodyElse(u)'
    BY <2>1, <2>4 DEF NobodyElse
  <2>5. \A handle \in handles' : StandsFor(handle.wrapper, handle.cls)
    BY <2>1, <2>2
  <2>6. /\ \A w, c : StandsFor(w, c)' <=> StandsFor(w, c)
        /\ \A work : MadeFor(work) => MadeFor(work)'
    BY <2>1 DEF StandsFor, MadeFor
  <2> QED
    BY <2>1, <2>3, <2>4, <2>5, <2>6
<1>2. CASE wrappers[cls] = NoWrapper
  <2>1. PICK work : work = [cls |-> cls, wrapper |-> made + 1, left |-> MroOf(cls)]
    OBVIOUS
  <2>2. /\ work \in Constructions /\ work # Idle /\ work.wrapper = made + 1 /\ work.cls = cls
        /\ work.left = MroOf(cls)
    <3>1. MroOf(cls) \in Seq(Classes) /\ made + 1 \in Nat /\ MroOf(cls) # <<>>
      BY BackendBases DEF SyncTypes, Bases, ToSet
    <3> QED
      BY <2>1, <3>1 DEF Constructions, Idle
  <2>3. /\ making' = [making EXCEPT ![t] = work] /\ made' = made + 1
        /\ UNCHANGED <<wrappers, registered, handles>>
    BY <1>2, <2>1 DEF LookUp
  <2>4. made \in Nat /\ made' \in Nat /\ made < made'
    BY <2>3 DEF SyncTypes
  <2>5. SyncTypes'
    BY <2>2, <2>3, <2>4 DEF SyncTypes
  <2>6. \A w, c : StandsFor(w, c) => StandsFor(w, c)' /\ w # made + 1
    BY <2>3, <2>4 DEF StandsFor
  <2>7. \A u \in Threads : /\ u # t => making'[u] = making[u]
                           /\ u = t => making'[u] = work
    BY <2>3 DEF SyncTypes
  <2>8. \A v \in Threads : making[v] # Idle => making[v].wrapper # made + 1
    BY <2>4 DEF MadeFor
  <2>9. ASSUME NEW u \in Threads, making'[u] # Idle PROVE MadeFor(making[u])' /\ NobodyElse(u)'
    <3>1. CASE u = t
      <4>1. MadeFor(work)'
        <5>1. \A c : <<c, made + 1>> \notin registered'
          BY <2>3, <2>4
        <5> QED
          BY <2>2, <2>3, <2>4, <5>1, BackendBases DEF MadeFor, Bases
      <4>2. making'[u] = work
        BY <2>7, <3>1
      <4>3. MadeFor(making[u])'
        BY <4>1, <4>2 DEF MadeFor
      <4>4. NobodyElse(u)'
        <5>1. \A v \in Threads : making'[v] # Idle /\ v # t => making'[v].wrapper # made + 1
          BY <2>7, <2>8
        <5>2. \A c \in DOMAIN Backends : wrappers[c] # made + 1
          BY <2>4, <2>6, SyncAssumption
        <5>3. \A handle \in handles : handle.wrapper # made + 1
          BY <2>6
        <5> QED
          BY <2>2, <2>3, <3>1, <4>2, <5>1, <5>2, <5>3 DEF NobodyElse
      <4> QED
        BY <4>3, <4>4
    <3>2. CASE u # t
      <4>1. MadeFor(making[u]) /\ making[u] # Idle /\ making'[u] = making[u]
        BY <2>7, <2>9, <3>2
      <4>2. MadeFor(making[u])'
        BY <2>3, <2>4, <4>1 DEF MadeFor
      <4>3. NobodyElse(u)'
        BY <2>2, <2>3, <2>7, <2>8, <4>1 DEF NobodyElse
      <4> QED
        BY <4>2, <4>3
    <3> QED
      BY <3>1, <3>2
  <2>10. \A c, w : <<c, w>> \in registered' => w \in 1..made'
    BY <2>3, <2>4
  <2> QED
    BY <2>3, <2>5, <2>6, <2>9, <2>10
<1> QED
  BY <1>1, <1>2

(* One more base is behind it. *)
LEMMA RegisterStep ==
    ASSUME SyncInv, NEW t \in Threads, RegisterWith(t)
    PROVE  SyncInv'
<1> USE DEF SyncInv
<1>1. PICK work : work = making[t]
  OBVIOUS
<1>2. work # Idle /\ work \in Constructions /\ MadeFor(work) /\ NobodyElse(t)
  BY <1>1 DEF RegisterWith, Idle, SyncTypes
<1>3. PICK c \in Classes, left \in Seq(Classes) :
        /\ c = Head(work.left) /\ left = Tail(work.left)
        /\ ToSet(work.left) = {c} \cup ToSet(left)
  <2>1. work.left \in Seq(Classes) /\ work.left # <<>>
    BY <1>1, <1>2 DEF RegisterWith, Constructions
  <2> DEFINE s == work.left
  <2>2. /\ Head(s) \in Classes /\ Tail(s) \in Seq(Classes) /\ Head(s) = s[1]
        /\ DOMAIN s = 1..Len(s) /\ Len(s) \in Nat \ {0} /\ DOMAIN Tail(s) = 1..(Len(s) - 1)
        /\ \A k \in 1..(Len(s) - 1) : Tail(s)[k] = s[k + 1]
    <3> HIDE DEF Classes
    <3> QED
      BY <2>1, HeadTailProperties
  <2>3. ToSet(s) = {Head(s)} \cup ToSet(Tail(s))
    <3>1. ASSUME NEW k \in DOMAIN s PROVE s[k] \in {Head(s)} \cup ToSet(Tail(s))
      <4>1. CASE k = 1
        BY <2>2, <4>1
      <4>2. CASE k # 1
        <5>1. k - 1 \in DOMAIN Tail(s) /\ Tail(s)[k - 1] = s[k]
          BY <2>2, <4>2
        <5> QED
          BY <5>1 DEF ToSet
      <4> QED
        BY <4>1, <4>2
    <3>2. ASSUME NEW k \in DOMAIN Tail(s) PROVE Tail(s)[k] \in ToSet(s)
      BY <2>2 DEF ToSet
    <3>3. Head(s) \in ToSet(s)
      BY <2>2 DEF ToSet
    <3> QED
      BY <3>1, <3>2, <3>3 DEF ToSet
  <2> QED
    BY <2>2, <2>3
<1>4. PICK rest : rest = [work EXCEPT !.left = left]
  OBVIOUS
<1>5. /\ rest \in Constructions /\ rest.cls = work.cls /\ rest.wrapper = work.wrapper
      /\ rest.left = left
  BY <1>2, <1>3, <1>4 DEF Constructions
<1>6. /\ registered' = registered \cup {<<c, work.wrapper>>}
      /\ making' = [making EXCEPT ![t] = rest]
      /\ UNCHANGED <<wrappers, made, handles>>
  BY <1>1, <1>3, <1>4 DEF RegisterWith
<1>7. \A u \in Threads : making'[u] = IF u = t THEN rest ELSE making[u]
  BY <1>6 DEF SyncTypes
<1>8. SyncTypes'
  BY <1>5, <1>6 DEF SyncTypes
<1>9. work.wrapper \in 1..made
  BY <1>2 DEF MadeFor
<1>10. ASSUME NEW w, w # work.wrapper
       PROVE  \A d : <<d, w>> \in registered' <=> <<d, w>> \in registered
  BY <1>6, <1>10
<1>11. ASSUME NEW cls \in DOMAIN Backends, wrappers'[cls] # NoWrapper
       PROVE  StandsFor(wrappers[cls], cls)'
  BY <1>1, <1>2, <1>6, <1>10, <1>11 DEF StandsFor, NobodyElse
<1>12. ASSUME NEW handle \in handles' PROVE StandsFor(handle.wrapper, handle.cls)'
  BY <1>1, <1>2, <1>6, <1>10, <1>12 DEF StandsFor, NobodyElse
<1>13. ASSUME NEW u \in Threads, making'[u] # Idle PROVE MadeFor(making[u])' /\ NobodyElse(u)'
  <2>1. \A v \in Threads : making'[v] # Idle =>
            making[v] # Idle /\ making'[v].wrapper = making[v].wrapper
    BY <1>1, <1>2, <1>5, <1>7
  <2>2. NobodyElse(u)'
    <3>1. NobodyElse(u) /\ making'[u].wrapper = making[u].wrapper
      BY <1>13, <2>1
    <3> QED
      BY <1>6, <2>1, <3>1 DEF NobodyElse
  <2>3. CASE u = t
    <3>1. making'[u] = rest
      BY <1>7, <2>3
    <3>2. MadeFor(rest)'
      BY <1>2, <1>3, <1>5, <1>6 DEF MadeFor
    <3>3. MadeFor(making[u])'
      BY <3>1, <3>2 DEF MadeFor
    <3> QED
      BY <2>2, <3>3
  <2>4. CASE u # t
    <3>1. making'[u] = making[u] /\ MadeFor(making[u]) /\ making[u].wrapper # work.wrapper
      BY <1>1, <1>2, <1>7, <1>13, <2>1, <2>4 DEF NobodyElse
    <3>2. \A d : <<d, making[u].wrapper>> \in registered'
                    <=> <<d, making[u].wrapper>> \in registered
      BY <1>10, <3>1
    <3>3. MadeFor(making[u])'
      BY <1>6, <3>1, <3>2 DEF MadeFor
    <3> QED
      BY <2>2, <3>3
  <2> QED
    BY <2>3, <2>4
<1>14. \A d, w : <<d, w>> \in registered' => w \in 1..made'
  BY <1>6, <1>9
<1> QED
  BY <1>8, <1>11, <1>12, <1>13, <1>14

(* With none left it stands for the class. *)
LEMMA KeepStep ==
    ASSUME SyncInv, NEW t \in Threads, Keep(t)
    PROVE  SyncInv'
<1> USE DEF SyncInv
<1>1. PICK work : work = making[t]
  OBVIOUS
<1>2. work # Idle /\ work \in Constructions /\ MadeFor(work) /\ NobodyElse(t) /\ work.left = <<>>
  BY <1>1 DEF Keep, SyncTypes
<1>3. /\ wrappers' = [wrappers EXCEPT ![work.cls] = work.wrapper]
      /\ handles' = handles \cup {[cls |-> work.cls, wrapper |-> work.wrapper]}
      /\ making' = [making EXCEPT ![t] = Idle]
      /\ UNCHANGED <<registered, made>>
  BY <1>1 DEF Keep, HandOut
<1>4. SyncTypes'
  BY <1>2, <1>3 DEF SyncTypes, Constructions
<1>5. StandsFor(work.wrapper, work.cls)
  BY <1>2 DEF StandsFor, MadeFor, ToSet
<1>6. \A w, c : StandsFor(w, c) => StandsFor(w, c)'
  BY <1>3 DEF StandsFor
<1>7. \A cls \in DOMAIN Backends :
        wrappers'[cls] = IF cls = work.cls THEN work.wrapper ELSE wrappers[cls]
  BY <1>3 DEF SyncTypes
<1>8. ASSUME NEW cls \in DOMAIN Backends, wrappers'[cls] # NoWrapper
      PROVE  StandsFor(wrappers[cls], cls)'
  <2>1. StandsFor(wrappers'[cls], cls)
    BY <1>5, <1>7, <1>8
  <2> QED
    BY <1>3, <2>1 DEF StandsFor
<1>9. ASSUME NEW handle \in handles' PROVE StandsFor(handle.wrapper, handle.cls)'
  BY <1>3, <1>5, <1>6, <1>9
<1>10. ASSUME NEW u \in Threads, making'[u] # Idle PROVE MadeFor(making[u])' /\ NobodyElse(u)'
  <2>1. u # t /\ making'[u] = making[u] /\ making[u] # Idle
    BY <1>3, <1>10 DEF SyncTypes
  <2>2. MadeFor(making[u]) /\ NobodyElse(u) /\ making[u].wrapper # work.wrapper
    BY <1>1, <1>2, <2>1 DEF NobodyElse
  <2>3. MadeFor(making[u])'
    BY <1>3, <2>1, <2>2 DEF MadeFor
  <2>4. \A v \in Threads : making'[v] # Idle => making'[v] = making[v]
    BY <1>3 DEF SyncTypes
  <2>5. NobodyElse(u)'
    BY <1>3, <1>7, <2>1, <2>2, <2>4 DEF NobodyElse
  <2> QED
    BY <2>3, <2>5
<1> QED
  BY <1>3, <1>4, <1>8, <1>9, <1>10

(* No other step matters. *)
LEMMA SyncKept == SyncInv /\ [SyncNext]_syncVars => SyncInv'
<1> SUFFICES ASSUME SyncInv, [SyncNext]_syncVars PROVE SyncInv'
  OBVIOUS
<1>1. ASSUME NEW t \in Threads, NEW cls \in DOMAIN Backends, LookUp(t, cls) PROVE SyncInv'
  BY <1>1, LookUpStep
<1>2. ASSUME NEW t \in Threads, RegisterWith(t) PROVE SyncInv'
  BY <1>2, RegisterStep
<1>3. ASSUME NEW t \in Threads, Keep(t) PROVE SyncInv'
  BY <1>3, KeepStep
<1>4. CASE UNCHANGED syncVars
  BY <1>4 DEF syncVars, SyncInv, SyncTypes, StandsFor, MadeFor, NobodyElse
<1> QED
  BY <1>1, <1>2, <1>3, <1>4 DEF SyncNext

(* Whichever threads wrap tools of whatever classes, isinstance answers    *)
(* as it does for the tool, the stand-in has the typed verbs of the tool's *)
(* classes, and no coroutine comes back un-awaited (_wrapper_for): if an   *)
(* override of a coroutine is one, and no tool is of both gripper kinds.   *)
THEOREM StandInsAnswer ==
    ASSUME OverridesAgree, OneGripper PROVE SyncSpec => []SyncStandsIn
<1>1. SyncInit => SyncInv
  BY DEF SyncInit, SyncInv, SyncTypes, Constructions
<1>2. SyncInv => SyncStandsIn
  <2> SUFFICES ASSUME SyncInv, NEW handle \in handles
               PROVE  /\ \A cls \in Classes :
                            IsInstance(handle.wrapper, cls) <=> Contains(MroOf(handle.cls), cls)
                      /\ \A entry \in ToSet(Typed) :
                            Contains(MroOf(handle.cls), entry[1])
                                => entry[2] \in SyncMro[TypedFor(handle.cls)]
                      /\ \A name \in Members(handle.cls) :
                            Access(handle.cls, name) = "runs" <=> Member(handle.cls, name) = "async"
    BY Zenon DEF SyncStandsIn
  <2>1. StandsFor(handle.wrapper, handle.cls) /\ handle.cls \in DOMAIN Backends
    BY DEF SyncInv, StandsFor
  <2> QED
    BY <2>1, AnswersAsTheTool, TypedAsFar, NothingUnawaited
<1> QED
  BY <1>1, <1>2, SyncKept, PTL DEF SyncSpec

-----------------------------------------------------------------------------
(* The parts beside each other. *)

(* Side by side, every part behaves as it does on its own: a step of one   *)
(* leaves what the methods of the others work on alone.                    *)
THEOREM EveryPartItself ==
    HostSpec => /\ SeriesSpec /\ DryRunSpec /\ WorldSpec /\ TabsSpec /\ NotifierSpec /\ SyncSpec
                /\ CommandsSpec
<1> USE DEF HostNext, hostVars, ValuesStep, SeriesStep, DryRunStep, WorldStep, TabsStep,
            NotifierStep, SyncStep, CommandsStep
<1>1. HostInit => /\ SeriesInit /\ DryRunInit /\ WorldInit /\ TabsInit /\ NotifierInit /\ SyncInit
                  /\ CommandsInit
  BY DEF HostInit
<1>2. [HostNext]_hostVars => [SeriesNext]_seriesVars
  BY Zenon
<1>3. [HostNext]_hostVars => [DryRunNext]_dryRunVars
  BY Zenon
<1>4. [HostNext]_hostVars => [WorldNext]_worldVars
  BY Zenon
<1>5. [HostNext]_hostVars => [TabsNext]_tabVars
  BY Zenon
<1>6. [HostNext]_hostVars => [NotifierNext]_notifierVars
  BY Zenon
<1>7. [HostNext]_hostVars => [SyncNext]_syncVars
  BY Zenon
<1>8. [HostNext]_hostVars => [CommandsNext]_<<lifecycleVars, commandVars>>
  BY Zenon
<1> QED
  BY <1>1, <1>2, <1>3, <1>4, <1>5, <1>6, <1>7, <1>8, PTL
  DEF HostSpec, SeriesSpec, DryRunSpec, WorldSpec, TabsSpec, NotifierSpec, SyncSpec, CommandsSpec

(* A part with state of its own is exercised, and no value is built. *)
Apart == subject.of \in Parts

PromisesOfValues ==
    /\ ReplayTruthful /\ SpansReplayable /\ RowsMatched /\ SkillsUnambiguous /\ PluginsShown
    /\ OrientationKept /\ SnapshotsTruthful /\ SignalsSeparate /\ ClientsSeenThrough

(* Then nothing is said of values. *)
LEMMA ApartPromises == Apart => PromisesOfValues
  BY DEF Apart, Parts, PromisesOfValues, Is, ReplayTruthful, LossesCounted, ReplayedAtRate,
         SpansReplayable, Recorded, RowsMatched, SameCommandCompared, RowOfItsTime,
         SkillsUnambiguous, PluginsShown, PanelsShownOnce, ToolsFindable, Registered,
         OrientationKept, Rotated, SnapshotsTruthful, SignalsSeparate, ReadingsTold,
         WritesReadBack, ClientsSeenThrough

(* Whatever a host builds and drives on its own, side by side, keeps what  *)
(* it promises: all invariants of the run but the one of synchronous       *)
(* tools, which follows from EveryPartItself and StandInsAnswer.           *)
THEOREM HostKeepsPromises ==
    HostSpec => [](/\ PromisesOfValues
                   /\ LatestWasDrawn /\ PredictionAnswersPlan /\ StaleAttachmentsRefused
                   /\ EveryListenerCurrent /\ CalledOncePerRound /\ CleanIsOnDisk
                   /\ ArmAtRest /\ PreviewAgrees)
<1>1. HostInit => SubjectsInit \/ Apart
  <2> SUFFICES ASSUME HostInit PROVE SubjectsInit \/ Apart
    OBVIOUS
  <2>1. subject \in [of : Kinds \cup Parts, items : {<<>>}]
    BY DEF HostInit
  <2> QED
    BY <2>1 DEF SubjectsInit, Apart
<1>2. Apart /\ [HostNext]_hostVars => Apart'
  <2> SUFFICES ASSUME Apart, [HostNext]_hostVars PROVE Apart'
    OBVIOUS
  <2>1. ~SubjectsNext
    BY DEF SubjectsNext, Record, Execute, Register, Rotate, Bind, Wrap, Assemble, Is, Apart, Parts
  <2>2. UNCHANGED subject
    BY <2>1, Zenon DEF HostNext, hostVars, ValuesStep, SeriesStep, DryRunStep, WorldStep, TabsStep,
                       NotifierStep, SyncStep, CommandsStep
  <2> QED
    BY <2>2 DEF Apart
<1>3. [HostNext]_hostVars => [SubjectsNext]_subject
  BY Zenon DEF HostNext, hostVars, ValuesStep, SeriesStep, DryRunStep, WorldStep, TabsStep,
               NotifierStep, SyncStep, CommandsStep
<1>4. SubjectsSpec => []PromisesOfValues
  BY ReplayMayBeTrusted, SpansMayBeReplayed, RowsAreMatched, SkillsAreUnambiguous, PluginsAreShown,
     PosesKeepOrientation, SnapshotsTellTheTruth, SignalsKeptApart, ClientsAnswerThrough, PTL
  DEF PromisesOfValues
<1>5. HostSpec => []PromisesOfValues
  BY <1>1, <1>2, <1>3, <1>4, ApartPromises, PTL DEF HostSpec, SubjectsSpec
<1> QED
  BY <1>5, EveryPartItself, LatestDrawn, PredictionsAnswer, StaleRefused, ListenersCurrent,
     OncePerRound, CleanTabsOnDisk, ArmComesToRest, WrapperAgrees, PTL
=============================================================================

------------------------------ MODULE Subjects ------------------------------
(***************************************************************************)
(* What the values of waldoctl promise: recordings, tick-indexed records,  *)
(* the plug-ins that are discovered, rotations, logical signals, what a    *)
(* client is asked before it is used, and the values of skill records.     *)
(* They hold no state of their own, so the machine below only lists them:  *)
(* it builds one subject, item by item, as its class accepts it.           *)
(***************************************************************************)
EXTENDS Demonstrations, TickRecords, PluginDiscovery, EulerPoses, Signals, SkillGates,
        RecordValues

CONSTANTS
    Times,        \* the sequence numbers and ticks of recorded samples
    Counts,       \* the numbers of rows of a command
    Names,        \* names and values of entry points
    Ids,          \* what an entry point may offer
    Banks,        \* the sizes of the input and the output bank
    Keys,         \* the keys of mappings
    MaxCommands, MaxEntries, MaxSignals, MaxLayers, MaxNodes

ASSUME SubjectsAssumption ==
    /\ {MaxCommands, MaxEntries, MaxSignals, MaxLayers, MaxNodes} \subseteq Nat
    /\ Times \cup Counts \cup Names \subseteq Nat /\ Banks \subseteq Nat \X Nat
    /\ \A key \in Keys : key.string \in BOOLEAN /\ key.secret \in {"no", "head", "tail"}

VARIABLE subject   \* what is looked at and the items it consists of

Kinds == {"recording", "run", "plugins", "rotation", "signals", "client", "value"}

Is(kind) == subject.of = kind

SubjectsInit == subject \in [of : Kinds, items : {<<>>}]

Extend(item) == subject' = [subject EXCEPT !.items = Append(@, item)]

Sample == [seq : Times, observed : Times, received : Times, joints : {6, 7}]

Record ==
    /\ Is("recording")
    /\ \E s \in Sample : Accepts(Append(subject.items, s)) /\ Extend(s)

(* The rows of a command in the plan and in the run, and whether the run   *)
(* spends a row between it and the next command.                           *)
Execute ==
    /\ Is("run") /\ Len(subject.items) < MaxCommands
    /\ \E c \in [planned : Counts, ran : Counts, between : 0..1] : Extend(c)

Register ==
    /\ Is("plugins") /\ Len(subject.items) < MaxEntries
    /\ \E ep \in [name : Names, value : Names, offers : Ids \cup {Broken}] : Extend(ep)

Rotate ==
    /\ Is("rotation") /\ Len(subject.items) < 3
    /\ \E q \in Quarters : Extend(q)

(* Signals on the banks of one controller. *)
Bind ==
    /\ Is("signals") /\ Len(subject.items) < MaxSignals
    /\ \E banks \in IF subject.items = <<>> THEN Banks
                   ELSE {<<subject.items[1].inputs, subject.items[1].outputs>>} :
       \E s \in [direction : {"input", "output"}, index : 0..(banks[1] + banks[2]),
                inputs : {banks[1]}, outputs : {banks[2]}, active_high : BOOLEAN] :
        SignalAccepted(s) /\ Extend(s)

Wrap ==
    /\ Is("client") /\ Len(subject.items) < MaxLayers
    /\ IF subject.items = <<>>
       THEN \E base \in [of : {"live", "preview"}, bound : BOOLEAN,
                         features : {NoRobot} \cup SUBSET Features] : Extend(base)
       ELSE \E layer \in {"wrapper", "open", "closed", "cancelled"} : Extend(layer)

(* The nodes that may come after others: a container refers to them or to  *)
(* itself, a wrapper to one of them.  The keys of a mapping differ in the  *)
(* part that is kept.                                                      *)
Containing(here, n) == [1..n -> 1..here]
DistinctHeads(n) ==
    {keys \in [1..n -> Keys] : \A j, k \in 1..n : keys[j].head = keys[k].head => j = k}

Lists(here, n) == {Node("list", <<>>, to) : to \in Containing(here, n)}
Mappings(here, n) ==
    {Node("mapping", m.keys, m.to) : m \in [keys : DistinctHeads(n), to : Containing(here, n)]}

Nodes(here) ==
    {Node(kind, <<>>, <<>>) : kind \in {"plain", "object"}}
    \cup {Node("wrapper", <<>>, <<at>>) : at \in 1..(here - 1)}
    \cup UNION ({Lists(here, n) : n \in 0..(MaxItems + 1)}
                \cup {Mappings(here, n) : n \in 0..MaxItems})

Assemble ==
    /\ Is("value") /\ Len(subject.items) < MaxNodes
    /\ \E node \in Nodes(Len(subject.items) + 1) : Extend(node)

SubjectsNext == Record \/ Execute \/ Register \/ Rotate \/ Bind \/ Wrap \/ Assemble

SubjectsSpec == SubjectsInit /\ [][SubjectsNext]_subject

-----------------------------------------------------------------------------
(* Recordings. *)

samples == subject.items

Recorded == Is("recording") /\ samples # <<>>

(* The publications between the first and the last sample that were not    *)
(* recorded are as many as the gaps of the recording say                   *)
(* (Demonstration.gaps).                                                   *)
LossesCounted ==
    Recorded =>
        LET first == samples[1].seq  last == samples[Len(samples)].seq
            seen == {samples[k].seq : k \in DOMAIN samples}
        IN  MapThenSumSet(LAMBDA g : g.missing, Gaps(samples))
                = Cardinality((first .. last) \ seen)

(* A span given out by select is a recording, and it may be replayed       *)
(* exactly if it has two samples and none of the gaps of the whole         *)
(* recording ends within it after its first sample.                        *)
SpansReplayable ==
    Recorded =>
        \A start, stop \in 0..Len(samples) :
            Selectable(samples, start, stop) =>
                LET span == Select(samples, start, stop)
                    broken == {g \in Gaps(samples) : g.index \in (start + 1) .. (stop - 1)}
                IN  /\ Accepts(span)
                    /\ Continuous(span) <=> stop - start >= 2 /\ broken = {}

(* A recording that may be replayed misses no publication and its          *)
(* observed_rate_hz is at least one sample in GapThreshold.                *)
ReplayedAtRate ==
    Recorded /\ Continuous(samples) =>
        LET first == samples[1]  last == samples[Len(samples)]
        IN  /\ last.seq - first.seq = Len(samples) - 1
            /\ Elapsed(first, last) > 0
            /\ last.observed - first.observed <= GapThreshold * (Len(samples) - 1)

(* What Demonstration says of a recording is true of it: its losses, and   *)
(* what may be replayed and how fast.                                      *)
ReplayTruthful == LossesCounted /\ ReplayedAtRate

-----------------------------------------------------------------------------
(* The two records of a program. *)

RowsBefore(k, spent) == FoldLeft(LAMBDA n, m : n + m, 0, SubSeq(spent, 1, k - 1))

(* The record of commands that have rows and spend spent rows each.        *)
RecordOf(rows, spent) ==
    [rows |-> RowsBefore(Len(spent) + 1, spent),
     blocks |-> [k \in DOMAIN rows |-> Block(k, RowsBefore(k, spent), rows[k])]]

Commanded ==
    LET planned == [k \in DOMAIN subject.items |-> subject.items[k].planned]
    IN  RecordOf(planned, planned)

Predicted ==
    RecordOf([k \in DOMAIN subject.items |-> subject.items[k].ran],
             [k \in DOMAIN subject.items |-> subject.items[k].ran + subject.items[k].between])

(* align_rows leads every row of the run to a row of the plan, and the row *)
(* of a command that the plan has rows for to one that block_at gives to   *)
(* the same command, as far into it as the plan goes; following_error of a *)
(* record and itself is "zero everywhere".                                 *)
SameCommandCompared ==
    Is("run") /\ Commanded.rows > 0 =>
        \A row \in 0..(Predicted.rows - 1) :
            LET positions == [r \in 0..(Predicted.rows - 1) |-> r]
                at == AlignRows(Predicted, Commanded)[row]
                k == BlockAt(Predicted, row)
            IN  /\ FollowingError(Predicted, Predicted, positions, positions)[row] = 0
                /\ at \in 0..(Commanded.rows - 1)
                /\ k # 0 /\ Commanded.blocks[k].rows > 0 =>
                    /\ BlockAt(Commanded, at) = k
                    /\ LET into == at - Commanded.blocks[k].start
                           ran == row - Predicted.blocks[k].start
                       IN  into = ran \/ (into < ran /\ into = Commanded.blocks[k].rows - 1)

(* row_at shows the row whose time it is, the first one before the record  *)
(* begins and the last one after it has ended.                             *)
RowOfItsTime ==
    Is("run") =>
        \A t \in -RowTime .. (Predicted.rows + 1) * RowTime :
            LET row == RowAt(Predicted, t)
            IN  IF Predicted.rows = 0 \/ t < 0 THEN row = 0
                ELSE /\ row \in 0..(Predicted.rows - 1)
                     /\ row * RowTime <= t
                     /\ t < (row + 1) * RowTime \/ row = Predicted.rows - 1

(* A row of the run is shown at its time, and against the row of the plan  *)
(* that is the same command's.                                             *)
RowsMatched == SameCommandCompared /\ RowOfItsTime

-----------------------------------------------------------------------------
(* Plug-ins. *)

entries == subject.items

Registered == Is("plugins")

Working == {k \in DOMAIN entries : Works(entries[k])}

(* discover_skills: "All providers of a duplicated skill id are excluded,  *)
(* independent of entry point ordering.  A broken provider does not        *)
(* prevent unrelated skills loading."                                      *)
SkillsUnambiguous ==
    Registered =>
        DiscoverSkills(entries) =
            {entries[k] : k \in {k \in Working :
                \A j \in Working \ {k} : entries[j].offers # entries[k].offers}}

(* iter_plugin_panels: of the working panels, no two of one name or id are *)
(* shown, in order of name; and however many others are broken, the id of  *)
(* one whose name nobody else has is shown, by it or by one before it.     *)
PanelsShownOnce ==
    Registered =>
        LET shown == PluginPanels(entries)
            undisputed == {k \in Working :
                \A j \in DOMAIN entries \ {k} : entries[j].name # entries[k].name}
        IN  /\ ToSet(shown) \subseteq {entries[k] : k \in Working}
            /\ \A j, k \in DOMAIN shown : j < k =>
                    shown[j].name < shown[k].name /\ shown[j].offers # shown[k].offers
            /\ \A k \in undisputed : \E ep \in ToSet(shown) :
                    ep.offers = entries[k].offers /\ ep.name <= entries[k].name

(* iter_plugin_panels: "one broken plugin must not prevent others from     *)
(* loading", so that without the broken ones the same panels are shown.    *)
BrokenPanelsHideNone ==
    Registered => PluginPanels(entries) = PluginPanels(SelectSeq(entries, Works))

Native(ids) == [k \in DOMAIN ids |-> [name |-> 0, value |-> 0, offers |-> ids[k]]]

(* ComposedToolsSpec: the native tools come first and keep their keys and  *)
(* their default; every other key of a plug-in is found, and every tool    *)
(* that is available is the one its key finds.                             *)
ToolsFindable ==
    Registered =>
        \A ids \in UNION {[1..n -> Ids] : n \in 1..MaxEntries} : IsInjective(ids) =>
            LET native == Native(ids)
                plugins == PluginTools(entries)
                tools == RobotTools(native, entries)
            IN  /\ \A k \in DOMAIN tools : ToolFor(tools, tools[k].offers) = tools[k]
                /\ SubSeq(tools, 1, Len(native)) = native
                /\ KeysOf(tools) = KeysOf(native) \cup KeysOf(plugins)
                /\ \A t \in ToSet(native) : DefaultOf(tools, t.offers) = t

(* What the discovery of panels and tools shows, and what a name loads:    *)
(* the panels and tools that are listed are those that their names load,   *)
(* also where a name was registered twice.                                 *)
PluginsShown ==
    /\ PanelsShownOnce /\ ToolsFindable
    /\ Registered => \A ep \in ToSet(PluginPanels(entries)) \cup ToSet(PluginTools(entries)) :
        LoadByName(entries, ep.name) = ep

-----------------------------------------------------------------------------
(* Rotations. *)

Rotated == Is("rotation") /\ Len(subject.items) = 3

turn == Turn(subject.items[1], subject.items[2], subject.items[3])

(* Pose.from_matrix finds angles of the same orientation, also where roll  *)
(* and yaw turn about one axis; and the matrix that shapes.pose_matrix     *)
(* writes out entry by entry is that of the same three turns, about the    *)
(* world's axes: x, then y, then z.                                        *)
OrientationKept ==
    Rotated =>
        /\ Rotation(FromMatrix(Rotation(turn))) = Rotation(turn)
        /\ PoseMatrix(turn) = Mul(RotZ(turn.yaw), Mul(RotY(turn.pitch), RotX(turn.roll)))

-----------------------------------------------------------------------------
(* Signals. *)

(* A signal is decoded from the controller's vectors and from nothing      *)
(* shorter, longer or with another value in it, and the E-stop makes no    *)
(* difference to it.                                                       *)
ReadingsTold ==
    Is("signals") =>
        \A s \in ToSet(subject.items) :
            LET estop == s.inputs + s.outputs + 1
                vectors == Vectors(s.inputs, s.outputs)
            IN  /\ \A n \in 0..(estop + 1) : \A levels \in [1..n -> BitValues] :
                    Decodable(s, levels) <=> levels \in vectors
                /\ \A levels \in vectors :
                    Decode(s, [levels EXCEPT ![estop] = 1 - @]) = Decode(s, levels)

(* Every value of every output may be written; and whatever encode lets    *)
(* through is what is read back from the controller's vector, for either   *)
(* polarity, and changes no other channel and not the E-stop.              *)
WritesReadBack ==
    Is("signals") =>
        \A s, t \in ToSet(subject.items), value \in BOOLEAN \cup {Stray} :
            LET channel(u) == <<u.direction, u.index>>
                estop == s.inputs + s.outputs + 1
            IN  /\ s.direction = "output" /\ value # Stray => Encodable(s, value)
                /\ Encodable(s, value) => \A levels \in Vectors(s.inputs, s.outputs) :
                    LET after == WriteIO(s, Encode(s, value), levels)
                    IN  /\ Decodable(s, after) /\ Decode(s, after) = value
                        /\ after[estop] = levels[estop]
                        /\ channel(t) # channel(s) => Decode(t, after) = Decode(t, levels)

(* Signals keep to their own bit of the vector, whether they are read or   *)
(* written, and refuse what is none (DigitalSignal.decode, encode).        *)
SignalsSeparate == ReadingsTold /\ WritesReadBack

-----------------------------------------------------------------------------
(* Clients. *)

Client == subject.items

Unshut == \A k \in 2..Len(Client) : Client[k] \notin {"closed", "cancelled"}

(* Through any wrappers and running skills, is_dry_run "asks the way a     *)
(* call would", also before a tool is selected; and a skill runs exactly   *)
(* on the clients whose own backend reports all that it requires, however  *)
(* deep its call is nested -- and on none whose skill has ended.           *)
ClientsSeenThrough ==
    Is("client") /\ Client # <<>> =>
        \A required \in SUBSET Features, api \in 1..2 :
            LET robot == Client[1].features
                admitted == Admission(Client, required, api) = "runs"
            IN  /\ Unshut => /\ IsDryRun(Client) = "yes" <=> Client[1].of = "preview"
                             /\ IsDryRun(Client) # "cancelled"
                /\ admitted <=> /\ Unshut /\ api = RuntimeApi
                                /\ required = {} \/ (robot # NoRobot /\ required \subseteq robot)

(* is_dry_run(client) answers "whether the client it was handed previews   *)
(* or drives".                                                             *)
LiveIsNotPreview ==
    Is("client") /\ Client # <<>> /\ IsDryRun(Client) = "yes" => Client[1].of = "preview"

-----------------------------------------------------------------------------
(* Values for the records of skills. *)

(* What snapshot_value copies stood there in the value, and nothing is     *)
(* shown that stands behind the name of a credential, at any depth; and if *)
(* the copy does not say that it was truncated, everything is in it that   *)
(* may be shown, also in values that share or contain themselves.  Routes  *)
(* of MaxDepth + 1 nodes and once through all nodes lead everywhere.  A    *)
(* mapping has at most MaxItems items here: of a longer one the code may   *)
(* drop the rest without saying so, if some items are redacted.            *)
SnapshotsTruthful ==
    Is("value") =>
        \A root \in DOMAIN subject.items :
            LET copy == Snapshot(subject.items, root)
                routes(n) == OpenRoutes(subject.items, root, n)
            IN  /\ copy.shown \subseteq routes(MaxDepth + 1)
                /\ ~copy.truncated => routes(MaxDepth + 1 + Len(subject.items)) \subseteq copy.shown
=============================================================================

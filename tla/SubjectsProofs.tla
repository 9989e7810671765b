--------------------------- MODULE SubjectsProofs ---------------------------
(***************************************************************************)
(* What Subjects states of signals, wrapped clients, recordings, tick      *)
(* records, discovered plug-ins, rotations and the values of skill         *)
(* records, whatever their size.  A subject is built item by item:         *)
(* SubjectOK says what it then consists of, and the properties are facts   *)
(* about any value of that form.                                           *)
(***************************************************************************)
EXTENDS Subjects, FoldLemmas

-----------------------------------------------------------------------------
(* What a subject of each kind consists of. *)

ClientBases == [of : {"live", "preview"}, bound : BOOLEAN, features : {NoRobot} \cup SUBSET Features]
Layers == {"wrapper", "open", "closed", "cancelled"}
RunCommands == [planned : Counts, ran : Counts, between : 0..1]
Entries == [name : Names, value : Names, offers : Ids \cup {Broken}]
AllSignals == [direction : {"input", "output"}, index : Nat,
               inputs : Nat, outputs : Nat, active_high : BOOLEAN]

NodeKinds == {"plain", "object", "wrapper", "list", "mapping"}
NodesTo(n) == [kind : NodeKinds, keys : Seq(Keys), to : Seq(1..n)]

(* A node as a value has it whose nodes are 1..n. *)
NodeFits(node, n) ==
    /\ node \in NodesTo(n)
    /\ node.kind \in {"plain", "object"} => node.to = <<>>
    /\ node.kind = "wrapper" => Len(node.to) = 1
    /\ node.kind = "mapping" => Len(node.keys) = Len(node.to) /\ Len(node.to) <= MaxItems

ValueFits(nodes) ==
    /\ nodes \in Seq(NodesTo(Len(nodes)))
    /\ \A at \in 1..Len(nodes) : NodeFits(nodes[at], Len(nodes))

Recording(items) == items \in Seq(Sample) /\ (items # <<>> => Accepts(items))

(* All signals are on the banks of one controller. *)
SignalsBound(items) ==
    /\ items \in Seq(AllSignals)
    /\ \A k \in 1..Len(items) :
        /\ SignalAccepted(items[k])
        /\ items[k].inputs = items[1].inputs /\ items[k].outputs = items[1].outputs

Wrapped(items) ==
    /\ items \in Seq(ClientBases \cup Layers)
    /\ \A k \in 1..Len(items) : IF k = 1 THEN items[k] \in ClientBases ELSE items[k] \in Layers

SubjectOK ==
    /\ subject = [of |-> subject.of, items |-> subject.items]
    /\ Is("recording") => Recording(subject.items)
    /\ Is("run") => subject.items \in Seq(RunCommands)
    /\ Is("plugins") => subject.items \in Seq(Entries)
    /\ Is("rotation") => subject.items \in Seq(Quarters)
    /\ Is("signals") => SignalsBound(subject.items)
    /\ Is("client") => Wrapped(subject.items)
    /\ Is("value") => ValueFits(subject.items)

(* A step adds one item, and leaves the kind alone. *)
LEMMA Extended ==
    ASSUME SubjectOK, NEW item, Extend(item)
    PROVE  /\ subject'.of = subject.of /\ subject'.items = Append(subject.items, item)
           /\ subject' = [of |-> subject'.of, items |-> subject'.items]
<1>1. subject = [of |-> subject.of, items |-> subject.items]
  BY DEF SubjectOK
<1> DEFINE o == subject.of
           i == subject.items
<1>2. subject = [of |-> o, items |-> i]
  BY <1>1
<1>3. subject' = [subject EXCEPT !.items = Append(i, item)]
  BY DEF Extend
<1> HIDE DEF o, i
<1>4. subject' = [of |-> o, items |-> Append(i, item)]
  BY <1>2, <1>3
<1> QED
  BY <1>4 DEF o, i

(* A node more, that refers to nodes before it or to itself. *)
LEMMA NodeFollows ==
    ASSUME NEW nodes, ValueFits(nodes), NEW node \in Nodes(Len(nodes) + 1)
    PROVE  ValueFits(Append(nodes, node))
<1> DEFINE n == Len(nodes)
           here == n + 1
<1>1. n \in Nat /\ nodes \in Seq(NodesTo(n))
  BY LenProperties DEF ValueFits
<1>2. NodeFits(node, here)
  <2> HIDE DEF n
  <2>1. <<>> \in Seq(Keys) /\ <<>> \in Seq(1..here) /\ Len(<<>>) = 0
    BY EmptySeq
  <2>2. \A m \in Nat : \A to \in Containing(here, m) : to \in Seq(1..here) /\ Len(to) = m
    BY <1>1, TableIsSeq DEF Containing
  <2>3. \A m \in Nat : \A keys \in DistinctHeads(m) : keys \in Seq(Keys) /\ Len(keys) = m
    <3>1. \A m \in Nat : \A keys \in DistinctHeads(m) : keys \in [1..m -> Keys]
      BY DEF DistinctHeads
    <3> QED
      BY <3>1, TableIsSeq
  <2>4. CASE node \in {Node(kind, <<>>, <<>>) : kind \in {"plain", "object"}}
    <3>1. PICK kind \in {"plain", "object"} : node = Node(kind, <<>>, <<>>)
      BY <2>4
    <3> QED
      BY <2>1, <3>1 DEF Node, NodeFits, NodesTo, NodeKinds
  <2>5. CASE node \in {Node("wrapper", <<>>, <<at>>) : at \in 1..(here - 1)}
    <3>1. PICK at \in 1..(here - 1) : node = Node("wrapper", <<>>, <<at>>)
      BY <2>5
    <3>2. at \in 1..here
      BY <1>1
    <3>3. <<at>> \in Seq(1..here) /\ Len(<<at>>) = 1
      BY <3>2
    <3> QED
      BY <2>1, <3>1, <3>3 DEF Node, NodeFits, NodesTo, NodeKinds
  <2>6. CASE \E m \in 0..(MaxItems + 1) : node \in Lists(here, m)
    <3>1. PICK m \in 0..(MaxItems + 1) : node \in Lists(here, m)
      BY <2>6
    <3>2. PICK to \in Containing(here, m) : node = Node("list", <<>>, to)
      BY <3>1, Zenon DEF Lists
    <3>3. m \in Nat
      OBVIOUS
    <3>4. to \in Seq(1..here)
      BY <2>2, <3>3
    <3> QED
      BY <2>1, <3>2, <3>4 DEF Node, NodeFits, NodesTo, NodeKinds
  <2>7. CASE \E m \in 0..MaxItems : node \in Mappings(here, m)
    <3>1. PICK m \in 0..MaxItems : node \in Mappings(here, m)
      BY <2>7
    <3>2. PICK both \in [keys : DistinctHeads(m), to : Containing(here, m)] :
            node = Node("mapping", both.keys, both.to)
      BY <3>1 DEF Mappings
    <3>3. m \in Nat /\ m <= MaxItems
      BY SnapshotAssumption
    <3>4. both.to \in Seq(1..here) /\ Len(both.to) = m
          /\ both.keys \in Seq(Keys) /\ Len(both.keys) = m
      <4>1. both.keys \in DistinctHeads(m) /\ both.to \in Containing(here, m)
        BY <3>2
      <4> QED
        BY <2>2, <2>3, <3>3, <4>1
    <3> QED
      BY <3>2, <3>3, <3>4 DEF Node, NodeFits, NodesTo, NodeKinds
  <2> HIDE DEF here
  <2>8. node \in Nodes(here)
    BY DEF here, n
  <2>9. \/ node \in {Node(kind, <<>>, <<>>) : kind \in {"plain", "object"}}
        \/ node \in {Node("wrapper", <<>>, <<at>>) : at \in 1..(here - 1)}
        \/ \E m \in 0..(MaxItems + 1) : node \in Lists(here, m)
        \/ \E m \in 0..MaxItems : node \in Mappings(here, m)
    BY <2>8 DEF Nodes
  <2> QED
    BY <2>4, <2>5, <2>6, <2>7, <2>9
<1>3. NodesTo(n) \subseteq NodesTo(here)
  <2>1. 1..n \subseteq 1..here
    BY <1>1
  <2>2. Seq(1..n) \subseteq Seq(1..here)
    BY <2>1
  <2> QED
    BY <2>2 DEF NodesTo
<1>4. nodes \in Seq(NodesTo(here))
  BY <1>1, <1>3
<1>5. node \in NodesTo(here)
  BY <1>2 DEF NodeFits
<1> DEFINE more == Append(nodes, node)
<1>6. /\ more \in Seq(NodesTo(here)) /\ Len(more) = here /\ more[here] = node
      /\ \A k \in 1..n : more[k] = nodes[k]
  <2> HIDE DEF here
  <2>1. more \in Seq(NodesTo(here)) /\ Len(more) = n + 1 /\ more[n + 1] = node
        /\ \A k \in 1..n : more[k] = nodes[k]
    BY <1>4, <1>5, AppendProperties
  <2> QED
    BY <2>1 DEF here
<1>7. ASSUME NEW at \in 1..here PROVE NodeFits(more[at], here)
  <2>1. CASE at = here
    BY <1>2, <1>6, <2>1
  <2>2. CASE at # here
    <3>1. at \in 1..n
      BY <1>1, <2>2
    <3>2. NodeFits(nodes[at], n)
      BY <3>1 DEF ValueFits
    <3> HIDE DEF here, n
    <3>3. NodeFits(nodes[at], here)
      BY <1>3, <3>2 DEF NodeFits
    <3> QED
      BY <1>6, <3>1, <3>3
  <2> QED
    BY <2>1, <2>2
<1> HIDE DEF more, here, n
<1> QED
  BY <1>6, <1>7 DEF ValueFits, more

(* A subject begins empty, *)
LEMMA SubjectStart == SubjectsInit => SubjectOK
<1> SUFFICES ASSUME SubjectsInit PROVE SubjectOK
  OBVIOUS
<1>1. subject.of \in Kinds /\ subject.items = <<>>
      /\ subject = [of |-> subject.of, items |-> subject.items]
  BY DEF SubjectsInit
<1>2. Len(<<>>) = 0 /\ \A S : <<>> \in Seq(S)
  BY EmptySeq
<1>3. 1..0 = {}
  OBVIOUS
<1>4. Recording(<<>>) /\ SignalsBound(<<>>) /\ Wrapped(<<>>) /\ ValueFits(<<>>)
  BY <1>2, <1>3 DEF Recording, SignalsBound, Wrapped, ValueFits
<1> QED
  BY <1>1, <1>2, <1>4 DEF SubjectOK

(* and every item its class accepts keeps it in form. *)
LEMMA SubjectStep == SubjectOK /\ [SubjectsNext]_subject => SubjectOK'
<1> SUFFICES ASSUME SubjectOK, [SubjectsNext]_subject PROVE SubjectOK'
  OBVIOUS
<1> DEFINE items == subject.items
           more(item) == Append(items, item)
<1>1. CASE UNCHANGED subject
  BY <1>1 DEF SubjectOK, Is
<1>2. ASSUME NEW s \in Sample, Is("recording"), Accepts(more(s)), Extend(s)
      PROVE  SubjectOK'
  <2>1. items \in Seq(Sample)
    BY <1>2 DEF SubjectOK, Recording
  <2>2. more(s) \in Seq(Sample)
    BY <2>1, AppendProperties
  <2>3. Recording(more(s))
    BY <1>2, <2>2 DEF Recording
  <2> HIDE DEF more
  <2> QED
    BY <1>2, <2>3, Extended DEF SubjectOK, Is, more
<1>3. ASSUME NEW q \in Quarters, Is("rotation"), Extend(q) PROVE SubjectOK'
  <2>1. items \in Seq(Quarters)
    BY <1>3 DEF SubjectOK
  <2>2. more(q) \in Seq(Quarters)
    BY <2>1, AppendProperties
  <2> HIDE DEF more
  <2> QED
    BY <1>3, <2>2, Extended DEF SubjectOK, Is, more
<1>10. ASSUME NEW c \in RunCommands, Is("run"), Extend(c) PROVE SubjectOK'
  <2>1. items \in Seq(RunCommands)
    BY <1>10 DEF SubjectOK
  <2>2. more(c) \in Seq(RunCommands)
    BY <2>1, AppendProperties
  <2> HIDE DEF more
  <2> QED
    BY <1>10, <2>2, Extended DEF SubjectOK, Is, more
<1>4. ASSUME NEW ep \in Entries, Is("plugins"), Extend(ep) PROVE SubjectOK'
  <2>1. items \in Seq(Entries)
    BY <1>4 DEF SubjectOK
  <2>2. more(ep) \in Seq(Entries)
    BY <2>1, AppendProperties
  <2> HIDE DEF more
  <2> QED
    BY <1>4, <2>2, Extended DEF SubjectOK, Is, more
<1>5. CASE Bind
  <2>1. PICK banks \in IF items = <<>> THEN Banks ELSE {<<items[1].inputs, items[1].outputs>>} :
         \E s \in [direction : {"input", "output"}, index : 0..(banks[1] + banks[2]),
                   inputs : {banks[1]}, outputs : {banks[2]}, active_high : BOOLEAN] :
            SignalAccepted(s) /\ Extend(s)
    BY <1>5, Zenon DEF Bind
  <2>2. PICK s \in [direction : {"input", "output"}, index : 0..(banks[1] + banks[2]),
                    inputs : {banks[1]}, outputs : {banks[2]}, active_high : BOOLEAN] :
            SignalAccepted(s) /\ Extend(s)
    BY <2>1
  <2>3. SignalsBound(items)
    BY <1>5 DEF SubjectOK, Bind
  <2>4. items \in Seq(AllSignals) /\ Len(items) \in Nat
    BY <2>3, LenProperties DEF SignalsBound
  <2>5. items # <<>> => 1 \in 1..Len(items) /\ items[1] \in AllSignals
    BY <2>4, EmptySeq, ElementOfSeq
  <2>6. banks[1] \in Nat /\ banks[2] \in Nat
    BY <2>1, <2>5, SubjectsAssumption DEF AllSignals
  <2>7. s \in AllSignals /\ s.inputs = banks[1] /\ s.outputs = banks[2]
    BY <2>2, <2>6 DEF AllSignals
  <2>8. /\ more(s) \in Seq(AllSignals) /\ Len(more(s)) = Len(items) + 1
        /\ more(s)[Len(items) + 1] = s /\ \A k \in 1..Len(items) : more(s)[k] = items[k]
    BY <2>4, <2>7, AppendProperties
  <2> HIDE DEF more
  <2>9. ASSUME NEW k \in 1..Len(more(s))
        PROVE  /\ SignalAccepted(more(s)[k])
               /\ more(s)[k].inputs = more(s)[1].inputs
               /\ more(s)[k].outputs = more(s)[1].outputs
    <3>1. CASE items = <<>>
      <4>1. k = 1 /\ more(s)[k] = s
        BY <2>4, <2>8, <3>1, EmptySeq
      <4> QED
        BY <2>2, <4>1
    <3>2. CASE items # <<>>
      <4>1. s.inputs = items[1].inputs /\ s.outputs = items[1].outputs
        BY <2>1, <2>7, <3>2
      <4>2. more(s)[1] = items[1]
        BY <2>5, <2>8, <3>2
      <4>3. CASE k \in 1..Len(items)
        BY <2>3, <2>8, <4>2, <4>3 DEF SignalsBound
      <4>4. CASE k = Len(items) + 1
        BY <2>2, <2>8, <4>1, <4>2, <4>4
      <4> QED
        BY <2>4, <2>8, <4>3, <4>4
    <3> QED
      BY <3>1, <3>2
  <2>10. SignalsBound(more(s))
    BY <2>8, <2>9 DEF SignalsBound
  <2>11. Is("signals")
    BY <1>5 DEF Bind
  <2> QED
    BY <2>2, <2>10, <2>11, Extended DEF SubjectOK, Is, more
<1>6. CASE Wrap
  <2>1. PICK layer : Extend(layer) /\ IF items = <<>> THEN layer \in ClientBases ELSE layer \in Layers
    BY <1>6, Zenon DEF Wrap, ClientBases, Layers
  <2>2. Is("client") /\ Wrapped(items)
    BY <1>6 DEF SubjectOK, Wrap
  <2>3. items \in Seq(ClientBases \cup Layers) /\ Len(items) \in Nat
        /\ (items = <<>> <=> Len(items) = 0)
    BY <2>2, LenProperties, EmptySeq DEF Wrapped
  <2>4. layer \in ClientBases \cup Layers
    BY <2>1
  <2>5. /\ more(layer) \in Seq(ClientBases \cup Layers) /\ Len(more(layer)) = Len(items) + 1
        /\ more(layer)[Len(items) + 1] = layer
        /\ \A k \in 1..Len(items) : more(layer)[k] = items[k]
    BY <2>3, <2>4, AppendProperties
  <2> HIDE DEF more
  <2>6. Wrapped(more(layer))
    BY <2>1, <2>2, <2>3, <2>5 DEF Wrapped
  <2> QED
    BY <2>1, <2>2, <2>6, Extended DEF SubjectOK, Is, more
<1>7. Record => \E s \in Sample : Is("recording") /\ Accepts(more(s)) /\ Extend(s)
  BY DEF Record
<1>8. Register => \E ep \in Entries : Is("plugins") /\ Extend(ep)
  BY DEF Register, Entries
<1>9. Rotate => \E q \in Quarters : Is("rotation") /\ Extend(q)
  BY Zenon DEF Rotate
<1>11. Execute => \E c \in RunCommands : Is("run") /\ Extend(c)
  BY DEF Execute, RunCommands
<1>12. ASSUME NEW node \in Nodes(Len(items) + 1), Is("value"), Extend(node) PROVE SubjectOK'
  <2>1. ValueFits(items)
    BY <1>12 DEF SubjectOK
  <2>2. ValueFits(more(node))
    BY <2>1, NodeFollows
  <2> HIDE DEF more
  <2> QED
    BY <1>12, <2>2, Extended DEF SubjectOK, Is, more
<1>13. Assemble => \E node \in Nodes(Len(items) + 1) : Is("value") /\ Extend(node)
  BY DEF Assemble
<1> QED
  BY <1>1, <1>2, <1>3, <1>4, <1>5, <1>6, <1>7, <1>8, <1>9, <1>10, <1>11, <1>12, <1>13
  DEF SubjectsNext

(* So every subject is of its form, however many items it has. *)
LEMMA SubjectInvariant == SubjectsSpec => []SubjectOK
BY SubjectStart, SubjectStep, PTL DEF SubjectsSpec

-----------------------------------------------------------------------------
(* Numbers and finite sets. *)

(* Adding up the elements of finite disjoint sets counts their union. *)
Joined(S, parts) == UNION {parts[x] : x \in S}

(* Taking one of the sets away takes its elements from the count. *)
LEMMA PartsAddUp ==
    ASSUME NEW S, NEW parts, NEW U, IsFiniteSet(U), \A x \in S : parts[x] \subseteq U,
           \A x, y \in S : x # y => parts[x] \cap parts[y] = {}
    PROVE  /\ Cardinality(Joined({}, parts)) = 0
           /\ \A s \in SUBSET S : Cardinality(Joined(s, parts)) \in Nat
           /\ \A s \in SUBSET S : \A x \in s :
                Cardinality(Joined(s, parts))
                    = Cardinality(parts[x]) + Cardinality(Joined(s \ {x}, parts))
<1>1. Cardinality(Joined({}, parts)) = 0
  <2>1. Joined({}, parts) = {}
    BY DEF Joined
  <2> QED
    BY <2>1, FS_EmptySet
<1>2. ASSUME NEW s \in SUBSET S
      PROVE  IsFiniteSet(Joined(s, parts)) /\ Cardinality(Joined(s, parts)) \in Nat
  <2>1. Joined(s, parts) \subseteq U
    BY DEF Joined
  <2> QED
    BY <2>1, FS_Subset, FS_CardinalityType
<1>3. ASSUME NEW s \in SUBSET S, NEW x \in s
      PROVE  Cardinality(Joined(s, parts))
                = Cardinality(parts[x]) + Cardinality(Joined(s \ {x}, parts))
  <2>1. Joined(s, parts) = parts[x] \cup Joined(s \ {x}, parts)
    BY DEF Joined
  <2>2. parts[x] \cap Joined(s \ {x}, parts) = {}
    BY DEF Joined
  <2>3. IsFiniteSet(parts[x]) /\ Cardinality(parts[x]) \in Nat
    BY FS_Subset, FS_CardinalityType
  <2>4. s \ {x} \in SUBSET S
    OBVIOUS
  <2>5. IsFiniteSet(Joined(s \ {x}, parts)) /\ Cardinality(Joined(s \ {x}, parts)) \in Nat
    BY <1>2, <2>4
  <2>6. Cardinality({}) = 0
    BY FS_EmptySet
  <2>7. Cardinality(parts[x] \cup Joined(s \ {x}, parts))
            = Cardinality(parts[x]) + Cardinality(Joined(s \ {x}, parts))
              - Cardinality(parts[x] \cap Joined(s \ {x}, parts))
    BY <2>3, <2>5, FS_Union
  <2> QED
    <3>1. Cardinality(parts[x] \cap Joined(s \ {x}, parts)) = 0
      BY <2>2, <2>6
    <3>2. \A m, n \in Nat : m + n - 0 = m + n
      OBVIOUS
    <3> QED
      BY <2>1, <2>3, <2>5, <2>7, <3>1, <3>2
<1> QED
  BY <1>1, <1>2, <1>3

-----------------------------------------------------------------------------
(* Signals. *)

SignalsOn(inputs, outputs) ==
    {s \in AllSignals : SignalAccepted(s) /\ s.inputs = inputs /\ s.outputs = outputs}

(* A signal reads one bit, which is never the E-stop's. *)
LEMMA BitRead ==
    ASSUME NEW inputs \in Nat, NEW outputs \in Nat, NEW s \in SignalsOn(inputs, outputs)
    PROVE  /\ s.inputs = inputs /\ s.outputs = outputs /\ s.index \in Nat
           /\ s.active_high \in BOOLEAN
           /\ Offset(s) + s.index + 1 \in 1..(inputs + outputs)
           /\ s.direction = "output" => Offset(s) + s.index + 1 = s.inputs + s.index + 1
BY DEF SignalsOn, AllSignals, SignalAccepted, Offset

(* Of everything that may stand in a sequence, a signal is decoded from a  *)
(* vector of the controller only.                                          *)
LEMMA VectorsDecoded ==
    ASSUME NEW inputs \in Nat, NEW outputs \in Nat, NEW s \in SignalsOn(inputs, outputs),
           NEW levels \in Seq(BitValues)
    PROVE  Decodable(s, levels) <=> levels \in Vectors(inputs, outputs)
<1> DEFINE n == inputs + outputs + 1
<1>1. n \in Nat /\ s.inputs + s.outputs + 1 = n
  BY DEF SignalsOn
<1>2. Len(levels) \in Nat /\ levels \in [1..Len(levels) -> BitValues]
  BY LenProperties
<1>3. ASSUME Len(levels) = n, \A k \in DOMAIN levels : levels[k] \in 0..1
      PROVE  levels \in [1..n -> 0..1]
  BY <1>2, <1>3
<1> HIDE DEF n
<1>4. ASSUME levels \in [1..n -> 0..1]
      PROVE  Len(levels) = n /\ \A k \in DOMAIN levels : levels[k] \in 0..1
  <2>1. levels \in Seq(0..1) /\ Len(levels) = n
    BY <1>1, <1>4
  <2> QED
    BY <1>4, <2>1
<1> QED
  BY <1>1, <1>3, <1>4 DEF n, Decodable, Vectors

(* The E-stop makes no difference to what a signal reads. *)
LEMMA EStopApart ==
    ASSUME NEW inputs \in Nat, NEW outputs \in Nat, NEW s \in SignalsOn(inputs, outputs),
           NEW levels \in Vectors(inputs, outputs)
    PROVE  Decode(s, [levels EXCEPT ![inputs + outputs + 1] = 1 - @]) = Decode(s, levels)
<1> DEFINE estop == inputs + outputs + 1
           read == Offset(s) + s.index + 1
           after == [levels EXCEPT ![estop] = 1 - @]
<1>1. read \in 1..(inputs + outputs)
  BY BitRead
<1>2. read # estop /\ read \in 1..estop
  BY <1>1
<1>3. levels \in [1..estop -> 0..1]
  BY DEF Vectors
<1> HIDE DEF read, estop
<1>4. after[read] = levels[read]
  BY <1>2, <1>3
<1> HIDE DEF after
<1>5. Decode(s, after) = ((after[read] = 1) = s.active_high)
      /\ Decode(s, levels) = ((levels[read] = 1) = s.active_high)
  BY DEF Decode, read
<1> QED
  BY <1>4, <1>5 DEF after, estop

(* A written output reads back as written and changes no other. *)
LEMMA OutputsReadBack ==
    ASSUME NEW inputs \in Nat, NEW outputs \in Nat,
           NEW s \in SignalsOn(inputs, outputs), NEW t \in SignalsOn(inputs, outputs),
           s.direction = "output", NEW value \in BOOLEAN,
           NEW levels \in Vectors(inputs, outputs)
    PROVE  LET after == WriteIO(s, Encode(s, value), levels)
           IN  /\ Decode(s, after) = value
               /\ after[inputs + outputs + 1] = levels[inputs + outputs + 1]
               /\ <<t.direction, t.index>> # <<s.direction, s.index>>
                    => Decode(t, after) = Decode(t, levels)
<1> DEFINE bit == s.inputs + s.index + 1
           level == Encode(s, value)
           after == WriteIO(s, level, levels)
<1>1. /\ s.inputs = inputs /\ s.index \in Nat /\ s.index < outputs
      /\ s.active_high \in BOOLEAN
      /\ bit \in 1..(inputs + outputs)
  BY DEF SignalsOn, AllSignals, SignalAccepted
<1>2. level \in 0..1 /\ (level = 1 <=> value = s.active_high)
  BY DEF Encode
<1>3. /\ after[bit] = level
      /\ \A k \in 1..(inputs + outputs + 1) : k # bit => after[k] = levels[k]
  <2> HIDE DEF level
  <2> QED
    BY <1>1, <1>2 DEF WriteIO, Vectors
<1>4. Decode(s, after) = value
  <2>1. (after[bit] = 1) = (value = s.active_high)
    BY <1>2, <1>3
  <2>2. Decode(s, after) = ((after[bit] = 1) = s.active_high)
    BY DEF Decode, Offset
  <2>3. ((value = s.active_high) = s.active_high) = value
    BY <1>1
  <2> QED
    BY <2>1, <2>2, <2>3, Zenon
<1>5. after[inputs + outputs + 1] = levels[inputs + outputs + 1]
  BY <1>1, <1>3
<1>6. ASSUME t.direction # "output" \/ t.index # s.index
      PROVE  Decode(t, after) = Decode(t, levels)
  <2> DEFINE read == Offset(t) + t.index + 1
  <2>1. read \in 1..(inputs + outputs) /\ read # bit
    BY <1>1, <1>6 DEF SignalsOn, AllSignals, SignalAccepted, Offset
  <2>2. after[read] = levels[read]
    BY <1>1, <1>3, <2>1
  <2> QED
    BY <2>2, Zenon DEF Decode
<1> QED
  BY <1>4, <1>5, <1>6

(* A signal that is looked at is one on the banks of its controller. *)
LEMMA SignalsOnBanks ==
    ASSUME SubjectOK, Is("signals"), NEW s \in ToSet(subject.items), NEW t \in ToSet(subject.items)
    PROVE  /\ s.inputs \in Nat /\ s.outputs \in Nat
           /\ s \in SignalsOn(s.inputs, s.outputs) /\ t \in SignalsOn(s.inputs, s.outputs)
<1>1. SignalsBound(subject.items)
  BY DEF SubjectOK
<1>2. subject.items \in Seq(AllSignals) /\ DOMAIN subject.items = 1..Len(subject.items)
  BY <1>1, LenProperties DEF SignalsBound
<1>3. PICK j \in 1..Len(subject.items), k \in 1..Len(subject.items) :
        s = subject.items[j] /\ t = subject.items[k]
  BY <1>2 DEF ToSet
<1>4. s \in AllSignals /\ t \in AllSignals
  BY <1>2, <1>3, ElementOfSeq
<1>5. SignalAccepted(s) /\ SignalAccepted(t) /\ t.inputs = s.inputs /\ t.outputs = s.outputs
  BY <1>1, <1>3 DEF SignalsBound
<1> QED
  BY <1>4, <1>5 DEF SignalsOn, AllSignals

(* A signal is decoded from the controller's vectors and from no other     *)
(* sequence, of whatever length and values.                                *)
OthersRefused ==
    Is("signals") =>
        \A s \in ToSet(subject.items), levels \in Seq(BitValues) :
            Decodable(s, levels) <=> levels \in Vectors(s.inputs, s.outputs)

(* For banks of any sizes, a logical output reads back as it was written,  *)
(* changes no other channel and not the E-stop, which no signal reads; an  *)
(* input is not written; and whatever is not a vector of the controller,   *)
(* of any length, is refused (DigitalSignal.encode, decode).               *)
THEOREM SignalsKeptApart == SubjectsSpec => [](SignalsSeparate /\ OthersRefused)
<1>1. SubjectOK => OthersRefused
  <2> SUFFICES ASSUME SubjectOK, Is("signals"),
                      NEW s \in ToSet(subject.items), NEW levels \in Seq(BitValues)
               PROVE  Decodable(s, levels) <=> levels \in Vectors(s.inputs, s.outputs)
    BY Zenon DEF OthersRefused
  <2> QED
    BY SignalsOnBanks, VectorsDecoded
<1>2. SubjectOK => ReadingsTold
  <2> SUFFICES ASSUME SubjectOK, Is("signals"), NEW s \in ToSet(subject.items)
               PROVE  LET estop == s.inputs + s.outputs + 1
                          vectors == Vectors(s.inputs, s.outputs)
                      IN  /\ \A n \in 0..(estop + 1) : \A levels \in [1..n -> BitValues] :
                              Decodable(s, levels) <=> levels \in vectors
                          /\ \A levels \in vectors :
                              Decode(s, [levels EXCEPT ![estop] = 1 - @]) = Decode(s, levels)
    BY Zenon DEF ReadingsTold
  <2>1. s.inputs \in Nat /\ s.outputs \in Nat /\ s \in SignalsOn(s.inputs, s.outputs)
    BY SignalsOnBanks
  <2>2. ASSUME NEW n \in 0..(s.inputs + s.outputs + 1 + 1), NEW levels \in [1..n -> BitValues]
        PROVE  Decodable(s, levels) <=> levels \in Vectors(s.inputs, s.outputs)
    <3>1. n \in Nat
      BY <2>1
    <3>2. levels \in Seq(BitValues)
      BY <3>1
    <3> QED
      BY <2>1, <3>2, VectorsDecoded
  <2>3. \A levels \in Vectors(s.inputs, s.outputs) :
            Decode(s, [levels EXCEPT ![s.inputs + s.outputs + 1] = 1 - @]) = Decode(s, levels)
    BY <2>1, EStopApart
  <2> QED
    BY <2>2, <2>3
<1>3. SubjectOK => WritesReadBack
  <2> SUFFICES ASSUME SubjectOK, Is("signals"),
                      NEW s \in ToSet(subject.items), NEW t \in ToSet(subject.items),
                      NEW value \in BOOLEAN \cup {Stray}
               PROVE  LET channel(u) == <<u.direction, u.index>>
                          estop == s.inputs + s.outputs + 1
                      IN  /\ s.direction = "output" /\ value # Stray => Encodable(s, value)
                          /\ Encodable(s, value) => \A levels \in Vectors(s.inputs, s.outputs) :
                              LET after == WriteIO(s, Encode(s, value), levels)
                              IN  /\ Decodable(s, after) /\ Decode(s, after) = value
                                  /\ after[estop] = levels[estop]
                                  /\ channel(t) # channel(s) => Decode(t, after) = Decode(t, levels)
    BY Zenon DEF WritesReadBack
  <2>1. s.direction = "output" /\ value # Stray => Encodable(s, value)
    BY DEF Encodable
  <2>2. ASSUME Encodable(s, value), NEW levels \in Vectors(s.inputs, s.outputs)
        PROVE  LET after == WriteIO(s, Encode(s, value), levels)
               IN  /\ Decodable(s, after) /\ Decode(s, after) = value
                   /\ after[s.inputs + s.outputs + 1] = levels[s.inputs + s.outputs + 1]
                   /\ <<t.direction, t.index>> # <<s.direction, s.index>>
                        => Decode(t, after) = Decode(t, levels)
    <3> DEFINE after == WriteIO(s, Encode(s, value), levels)
    <3>1. s.direction = "output" /\ value \in BOOLEAN
      BY <2>2 DEF Encodable
    <3>2. /\ s.inputs \in Nat /\ s.outputs \in Nat
          /\ s \in SignalsOn(s.inputs, s.outputs) /\ t \in SignalsOn(s.inputs, s.outputs)
      BY SignalsOnBanks
    <3>3. after \in Vectors(s.inputs, s.outputs)
      <4> DEFINE level == Encode(s, value)
                 bits == 1..(s.inputs + s.outputs + 1)
      <4>1. level \in 0..1
        BY DEF Encode
      <4>2. levels \in [bits -> 0..1]
        BY DEF Vectors
      <4> HIDE DEF level, bits
      <4>3. [levels EXCEPT ![s.inputs + s.index + 1] = level] \in [bits -> 0..1]
        BY <4>1, <4>2
      <4> QED
        BY <4>3 DEF Vectors, WriteIO, level, bits
    <3>4. after \in Seq(BitValues)
      BY <3>2, <3>3 DEF Vectors, BitValues
    <3>5. Decodable(s, after)
      BY <3>2, <3>3, <3>4, VectorsDecoded
    <3> HIDE DEF after
    <3>6. /\ Decode(s, after) = value
          /\ after[s.inputs + s.outputs + 1] = levels[s.inputs + s.outputs + 1]
          /\ <<t.direction, t.index>> # <<s.direction, s.index>>
               => Decode(t, after) = Decode(t, levels)
      BY <3>1, <3>2, OutputsReadBack DEF after
    <3> QED
      BY <3>5, <3>6 DEF after
  <2> QED
    BY <2>1, <2>2, Zenon
<1>4. SubjectOK => SignalsSeparate
  BY <1>2, <1>3 DEF SignalsSeparate
<1> QED
  BY <1>1, <1>4, SubjectInvariant, PTL

-----------------------------------------------------------------------------
(* Clients. *)

ShutLayers(client) == {k \in 2..Len(client) : client[k] \in {"closed", "cancelled"}}

(* An attribute is that of the backend's client, unless a guard is shut.   *)
LEMMA AttrThrough ==
    ASSUME NEW client, NEW name
    PROVE  /\ ShutLayers(client) = {} => Attr(client, name) = BaseAttr(client[1], name)
           /\ ShutLayers(client) # {} => Attr(client, name) \in {"CancelledError", "RuntimeError"}
BY Zenon DEF Attr, ShutLayers

(* is_dry_run asks the backend's client, and says no if shut out. *)
LEMMA PreviewsAnswer ==
    ASSUME NEW client, client[1] \in ClientBases, ShutLayers(client) = {}
    PROVE  /\ IsDryRun(client) = "yes" <=> client[1].of = "preview"
           /\ IsDryRun(client) # "cancelled"
<1> DEFINE I == {k \in 1..Len(Protocol) : Attr(client, Protocol[k]) \in {"AttributeError", "CancelledError"}}
           first == IF I # {} THEN Min(I) ELSE 0
<1>1. Len(Protocol) = 14 /\ Protocol[3] = "program_length"
  BY DEF Protocol
<1>2. client[1].of \in {"live", "preview"}
  BY DEF ClientBases
<1>3. \A name : Attr(client, name) = BaseAttr(client[1], name)
  BY AttrThrough
<1>4. IsDryRun(client) = IF first = 0 THEN "yes"
                         ELSE IF Attr(client, Protocol[first]) = "AttributeError" THEN "no"
                         ELSE "cancelled"
  BY Zenon DEF IsDryRun, SelectInSeq
<1>5. \A name : BaseAttr(client[1], name) # "CancelledError"
  BY DEF BaseAttr
<1>6. CASE client[1].of = "preview"
  <2>1. \A name : BaseAttr(client[1], name) # "AttributeError"
    BY <1>6 DEF BaseAttr
  <2>2. I = {}
    BY <1>3, <1>5, <2>1
  <2> QED
    BY <1>4, <1>6, <2>2
<1>7. CASE client[1].of = "live"
  <2>1. 3 \in I
    <3>1. BaseAttr(client[1], Protocol[3]) = "AttributeError"
      BY <1>1, <1>7 DEF BaseAttr, PreviewOnly
    <3> QED
      BY <1>1, <1>3, <3>1
  <2>2. I \subseteq Nat
    BY <1>1
  <2>3. first \in I
    <3> HIDE DEF I
    <3> QED
      BY <2>1, <2>2, MinIsMember
  <2>4. first # 0
    BY <1>1, <2>3
  <2>5. Attr(client, Protocol[first]) = "AttributeError"
    BY <1>3, <1>5, <2>3
  <2> HIDE DEF first
  <2>6. IsDryRun(client) = "no"
    BY <1>4, <2>4, <2>5
  <2> QED
    BY <1>7, <2>6
<1> QED
  BY <1>2, <1>6, <1>7

(* The start of async_call admits what the backend can do. *)
LEMMA SkillsAdmitted ==
    ASSUME NEW client, NEW required, NEW api, NEW n \in Nat, n = Len(client), n # 0
    PROVE  Admission(client, required, api) = "runs" <=>
              /\ ShutLayers(client) = {} /\ api = RuntimeApi
              /\ required = {} \/ (client[1].features # NoRobot /\ required \subseteq client[1].features)
<1> DEFINE robot == client[1].features
<1>1. n > 1 /\ Last(client) \in {"closed", "cancelled"} => ShutLayers(client) # {}
  BY DEF Last, ShutLayers
<1>2. MissingFrom(required, RobotOf(client)) = {} <=>
        required = {} \/ (robot # NoRobot /\ required \subseteq robot)
  BY DEF MissingFrom, RobotOf
<1>3. Attr(client, "robot") = "value" <=> ShutLayers(client) = {}
  <2>1. BaseAttr(client[1], "robot") = "value"
    BY DEF BaseAttr, PreviewOnly
  <2> QED
    BY <2>1, AttrThrough
<1>4. Attr(client, "robot") # "runs"
  <2>1. BaseAttr(client[1], "robot") # "runs"
    BY DEF BaseAttr
  <2> QED
    BY <2>1, AttrThrough
<1> QED
  BY <1>1, <1>2, <1>3, <1>4 DEF Admission

(* Through any number of wrappers and open guards, is_dry_run answers for  *)
(* the backend, and async_call runs a skill exactly where the backend has  *)
(* all that it requires, and on no client whose skill has ended.           *)
THEOREM ClientsAnswerThrough == SubjectsSpec => []ClientsSeenThrough
<1>1. SubjectOK => ClientsSeenThrough
  <2> SUFFICES ASSUME SubjectOK, Is("client"), Client # <<>>,
                      NEW required \in SUBSET Features, NEW api \in 1..2
               PROVE  /\ Unshut => /\ IsDryRun(Client) = "yes" <=> Client[1].of = "preview"
                                   /\ IsDryRun(Client) # "cancelled"
                      /\ Admission(Client, required, api) = "runs" <=>
                            /\ Unshut /\ api = RuntimeApi
                            /\ required = {} \/ (Client[1].features # NoRobot
                                                 /\ required \subseteq Client[1].features)
    BY Zenon DEF ClientsSeenThrough
  <2>1. Wrapped(Client)
    BY DEF SubjectOK, Client
  <2>2. Len(Client) \in Nat /\ Len(Client) # 0
    BY <2>1, LenProperties, EmptySeq DEF Wrapped
  <2>3. Client[1] \in ClientBases
    BY <2>1, <2>2 DEF Wrapped
  <2>4. Unshut <=> ShutLayers(Client) = {}
    BY DEF Unshut, ShutLayers
  <2> QED
    BY <2>2, <2>3, <2>4, PreviewsAnswer, SkillsAdmitted
<1> QED
  BY <1>1, SubjectInvariant, PTL

-----------------------------------------------------------------------------
(* Recordings. *)

Torn(items, k) == GapAt(items, k).missing # 0 \/ GapAt(items, k).elapsed > GapThreshold

(* A recording is continuous if none of its intervals is a gap. *)
LEMMA GapsAreTorn ==
    ASSUME NEW items, NEW n, n = Len(items)
    PROVE  /\ Gaps(items) = {GapAt(items, k) : k \in {j \in 2..n : Torn(items, j)}}
           /\ Gaps(items) = {} <=> \A k \in 2..n : ~Torn(items, k)
           /\ \A k \in 2..n : GapAt(items, k).index = k - 1
<1>1. Gaps(items) = {GapAt(items, k) : k \in {j \in 2..n : Torn(items, j)}}
  BY DEF Gaps, Torn
<1>2. \A k \in 2..n : GapAt(items, k).index = k - 1
  BY DEF GapAt
<1> QED
  BY <1>1, <1>2

(* A span holds the samples from its start up to its stop, shifted. *)
LEMMA SpanShape ==
    ASSUME NEW items \in Seq(Sample), NEW start \in Nat, NEW stop \in Nat,
           start < stop, stop <= Len(items)
    PROVE  LET span == Select(items, start, stop)
           IN  /\ span \in Seq(Sample) /\ Len(span) = stop - start
               /\ DOMAIN span = 1..(stop - start)
               /\ \A k \in 1..(stop - start) : span[k] = items[start + k]
<1> DEFINE m == start + 1
           span == SubSeq(items, m, stop)
<1>1. Len(items) \in Nat /\ \A k \in 1..Len(items) : items[k] \in Sample
  BY LenProperties, ElementOfSeq
<1>2. m \in Int /\ stop \in Int /\ m <= stop /\ \A k \in m..stop : items[k] \in Sample
  BY <1>1
<1>3. stop - m + 1 = stop - start
  OBVIOUS
<1>4. \A k \in 1..(stop - start) : m + k - 1 = start + k
  OBVIOUS
<1> HIDE DEF m
<1>5. /\ span \in Seq(Sample) /\ Len(span) = stop - m + 1
      /\ \A k \in 1..(stop - m + 1) : span[k] = items[m + k - 1]
  BY <1>2, SubSeqProperties
<1>6. DOMAIN span = 1..Len(span)
  BY <1>5, LenProperties
<1> HIDE DEF span
<1>7. /\ span \in Seq(Sample) /\ Len(span) = stop - start
      /\ DOMAIN span = 1..(stop - start)
      /\ \A k \in 1..(stop - start) : span[k] = items[start + k]
  BY <1>3, <1>4, <1>5, <1>6
<1> QED
  BY <1>7 DEF Select, span, m

(* A span of a recording is a recording, *)
LEMMA SpanIsRecording ==
    ASSUME NEW items \in Seq(Sample), Accepts(items), NEW start \in Nat, NEW stop \in Nat,
           start < stop, stop <= Len(items)
    PROVE  Accepts(Select(items, start, stop))
<1> DEFINE span == Select(items, start, stop)
           n == Len(items)
<1>1. n \in Nat /\ DOMAIN items = 1..n
  BY LenProperties
<1>2. /\ Len(span) = stop - start /\ DOMAIN span = 1..(stop - start)
      /\ \A k \in 1..(stop - start) : span[k] = items[start + k]
  BY SpanShape
<1>3. /\ n \in 1..MaxRecordingSamples
      /\ \A k \in 1..n : /\ items[k].joints = items[1].joints
                         /\ k > 1 => InOrder(items[k - 1], items[k])
  BY <1>1 DEF Accepts
<1> HIDE DEF span, n
<1>4. Len(span) \in 1..MaxRecordingSamples
  BY <1>2, <1>3, RecordingAssumption DEF n
<1>5. ASSUME NEW k \in 1..(stop - start)
      PROVE  span[k].joints = span[1].joints /\ (k > 1 => InOrder(span[k - 1], span[k]))
  <2>1. /\ start + k \in 1..n /\ start + 1 \in 1..n /\ 1 \in 1..(stop - start)
        /\ k > 1 => k - 1 \in 1..(stop - start) /\ start + k > 1
                    /\ start + (k - 1) = (start + k) - 1
    BY <1>1 DEF n
  <2>2. span[k] = items[start + k] /\ span[1] = items[start + 1]
        /\ (k > 1 => span[k - 1] = items[(start + k) - 1])
    BY <1>2, <2>1
  <2>3. items[start + k].joints = items[1].joints /\ items[start + 1].joints = items[1].joints
    BY <1>3, <2>1
  <2>4. k > 1 => InOrder(items[(start + k) - 1], items[start + k])
    BY <1>3, <2>1
  <2> QED
    BY <2>2, <2>3, <2>4
<1> QED
  BY <1>2, <1>4, <1>5 DEF Accepts, span

(* and has just those gaps of the whole that end within it. *)
LEMMA SpanContinuous ==
    ASSUME NEW items \in Seq(Sample), NEW start \in Nat, NEW stop \in Nat,
           start < stop, stop <= Len(items)
    PROVE  Continuous(Select(items, start, stop)) <=>
              /\ stop - start >= 2
              /\ {g \in Gaps(items) : g.index \in (start + 1) .. (stop - 1)} = {}
<1> DEFINE span == Select(items, start, stop)
           n == Len(items)
           broken == {g \in Gaps(items) : g.index \in (start + 1) .. (stop - 1)}
<1>1. n \in Nat /\ DOMAIN items = 1..n
  BY LenProperties
<1>2. /\ Len(span) = stop - start
      /\ \A k \in 1..(stop - start) : span[k] = items[start + k]
  BY SpanShape
<1> HIDE DEF span
<1>3. ASSUME NEW k \in 2..(stop - start) PROVE Torn(span, k) <=> Torn(items, start + k)
  <2>1. k \in 1..(stop - start) /\ k - 1 \in 1..(stop - start) /\ start + (k - 1) = (start + k) - 1
    OBVIOUS
  <2>2. span[k] = items[start + k] /\ span[k - 1] = items[(start + k) - 1]
    BY <1>2, <2>1
  <2> QED
    BY <2>2 DEF Torn, GapAt, Elapsed
<1>4. broken = {} <=> \A j \in (start + 2)..stop : ~Torn(items, j)
  <2>1. ASSUME NEW j \in (start + 2)..stop, Torn(items, j) PROVE broken # {}
    <3>1. j \in 2..n /\ j - 1 \in (start + 1)..(stop - 1)
      BY <1>1
    <3>2. j \in {i \in 2..n : Torn(items, i)}
      BY <2>1, <3>1
    <3>3. GapAt(items, j) \in {GapAt(items, k) : k \in {i \in 2..n : Torn(items, i)}}
      BY Zenon, <3>2
    <3>5. Gaps(items) = {GapAt(items, k) : k \in {i \in 2..n : Torn(items, i)}}
      BY GapsAreTorn
    <3>4. GapAt(items, j).index = j - 1
      BY <3>1 DEF GapAt
    <3> QED
      BY <3>1, <3>3, <3>4, <3>5
  <2>2. ASSUME NEW g \in broken PROVE \E j \in (start + 2)..stop : Torn(items, j)
    <3>1. g \in Gaps(items) /\ g.index \in (start + 1)..(stop - 1)
      OBVIOUS
    <3>2. PICK j \in 2..n : Torn(items, j) /\ g = GapAt(items, j)
      BY <3>1, GapsAreTorn
    <3>3. g.index = j - 1
      BY <3>2, GapsAreTorn
    <3>4. j \in (start + 2)..stop
      BY <1>1, <3>1, <3>3
    <3> QED
      BY <3>2, <3>4
  <2> HIDE DEF broken
  <2> QED
    BY <2>1, <2>2
<1> HIDE DEF broken
<1>5. (\A k \in 2..(stop - start) : ~Torn(span, k)) <=> \A j \in (start + 2)..stop : ~Torn(items, j)
  <2>1. ASSUME \A k \in 2..(stop - start) : ~Torn(span, k), NEW j \in (start + 2)..stop
        PROVE  ~Torn(items, j)
    <3>1. j - start \in 2..(stop - start) /\ start + (j - start) = j
      OBVIOUS
    <3> QED
      BY <1>3, <2>1, <3>1
  <2>2. ASSUME \A j \in (start + 2)..stop : ~Torn(items, j), NEW k \in 2..(stop - start)
        PROVE  ~Torn(span, k)
    <3>1. start + k \in (start + 2)..stop
      OBVIOUS
    <3> QED
      BY <1>3, <2>2, <3>1
  <2> QED
    BY <2>1, <2>2
<1>6. Gaps(span) = {} <=> \A k \in 2..(stop - start) : ~Torn(span, k)
  BY <1>2, GapsAreTorn
<1>7. Continuous(span) <=> stop - start >= 2 /\ Gaps(span) = {}
  BY <1>2 DEF Continuous
<1> QED
  BY <1>4, <1>5, <1>6, <1>7 DEF span, broken

(* Every span that Demonstration.select gives out is a recording, and      *)
(* require_continuous accepts it exactly if it has two samples and no gap  *)
(* of the whole recording ends within it, for recordings of any length.    *)
THEOREM SpansMayBeReplayed == SubjectsSpec => []SpansReplayable
<1>1. SubjectOK => SpansReplayable
  <2> SUFFICES ASSUME SubjectOK, Recorded,
                      NEW start \in 0..Len(samples), NEW stop \in 0..Len(samples),
                      Selectable(samples, start, stop)
               PROVE  /\ Accepts(Select(samples, start, stop))
                      /\ Continuous(Select(samples, start, stop)) <=>
                            /\ stop - start >= 2
                            /\ {g \in Gaps(samples) : g.index \in (start + 1) .. (stop - 1)} = {}
    BY Zenon DEF SpansReplayable
  <2>1. samples \in Seq(Sample) /\ Accepts(samples)
    BY DEF SubjectOK, Recording, Recorded, samples
  <2>2. start \in Nat /\ stop \in Nat /\ start < stop /\ stop <= Len(samples)
    BY <2>1, LenProperties DEF Selectable
  <2> QED
    BY <2>1, <2>2, SpanIsRecording, SpanContinuous
<1> QED
  BY <1>1, SubjectInvariant, PTL

(* A sum over the elements of a finite set, in the order they are chosen.  *)
Summed(S, size, iter) ==
    iter = [s \in SUBSET S |->
              IF s = {} THEN 0
              ELSE size[CHOOSE x \in s : TRUE] + iter[s \ {CHOOSE x \in s : TRUE}]]

(* It is the number of the elements, in whatever order it adds up. *)
LEMMA SumOfParts ==
    ASSUME NEW S, IsFiniteSet(S), NEW parts, NEW U, IsFiniteSet(U),
           \A x \in S : parts[x] \subseteq U,
           \A x, y \in S : x # y => parts[x] \cap parts[y] = {},
           NEW size, \A x \in S : size[x] = Cardinality(parts[x])
    PROVE  (CHOOSE iter : Summed(S, size, iter))[S] = Cardinality(Joined(S, parts))
<1> DEFINE count(s) == Cardinality(Joined(s, parts))
           table == [s \in SUBSET S |-> count(s)]
           iter == CHOOSE f : Summed(S, size, f)
           T == {s \in SUBSET S : iter[s] = count(s)}
<1>1. /\ count({}) = 0
      /\ \A s \in SUBSET S : count(s) \in Nat
      /\ \A s \in SUBSET S : \A x \in s : count(s) = size[x] + count(s \ {x})
  <2>1. /\ Cardinality(Joined({}, parts)) = 0
        /\ \A s \in SUBSET S : Cardinality(Joined(s, parts)) \in Nat
        /\ \A s \in SUBSET S : \A x \in s :
              Cardinality(Joined(s, parts))
                  = Cardinality(parts[x]) + Cardinality(Joined(s \ {x}, parts))
    BY PartsAddUp
  <2>2. ASSUME NEW s \in SUBSET S, NEW x \in s PROVE count(s) = size[x] + count(s \ {x})
    <3>1. size[x] = Cardinality(parts[x])
      OBVIOUS
    <3> QED
      BY <2>1, <3>1
  <2> QED
    BY <2>1, <2>2
<1> HIDE DEF count
<1>2. \A s \in SUBSET S : s # {} => (CHOOSE x \in s : TRUE) \in s
  OBVIOUS
<1>3. Summed(S, size, table)
  <2>1. ASSUME NEW s \in SUBSET S, s # {}
        PROVE  table[s] = size[CHOOSE x \in s : TRUE] + table[s \ {CHOOSE x \in s : TRUE}]
    <3> DEFINE x == CHOOSE y \in s : TRUE
    <3>1. x \in s /\ s \ {x} \in SUBSET S
      BY <1>2, <2>1
    <3> HIDE DEF x
    <3>2. table[s] = size[x] + table[s \ {x}]
      BY <1>1, <3>1
    <3> QED
      BY <3>2 DEF x
  <2>2. table[{}] = 0
    BY <1>1
  <2>3. table = [s \in SUBSET S |-> table[s]]
    OBVIOUS
  <2> HIDE DEF table
  <2> QED
    BY <2>1, <2>2, <2>3 DEF Summed
<1>4. Summed(S, size, iter)
  BY <1>3
<1> HIDE DEF iter, table
<1>5. {} \in T
  BY <1>1, <1>4 DEF Summed
<1>6. ASSUME NEW s \in SUBSET S, s # {} PROVE \E x \in s : s \ {x} \in T => s \in T
  <2> DEFINE x == CHOOSE y \in s : TRUE
  <2>1. iter[s] = size[x] + iter[s \ {x}]
    BY <1>4, <1>6 DEF Summed
  <2>2. x \in s
    BY <1>2, <1>6
  <2> HIDE DEF x
  <2>3. s \ {x} \in T => s \in T
    BY <1>1, <2>1, <2>2
  <2> HIDE DEF T
  <2> QED
    BY <2>2, <2>3
<1>7. S \in T
  <2> HIDE DEF T
  <2> QED
    BY <1>5, <1>6, TakenApart
<1> QED
  BY <1>7 DEF iter, count

(* The samples of a recording are in order, not only neighbours. *)
LEMMA SamplesOrdered ==
    ASSUME NEW items \in Seq(Sample), Accepts(items)
    PROVE  \A j, k \in 1..Len(items) : j < k =>
                items[j].seq < items[k].seq /\ items[j].observed < items[k].observed
<1> DEFINE n == Len(items)
<1>1. n \in Nat /\ \A k \in 1..n : items[k] \in Sample
  BY LenProperties, ElementOfSeq
<1>2. \A k \in 1..n : items[k].seq \in Nat /\ items[k].observed \in Nat
  BY <1>1, SubjectsAssumption DEF Sample
<1>3. \A k \in 2..n : /\ items[k - 1].seq < items[k].seq
                      /\ items[k - 1].observed < items[k].observed
  BY <1>1, LenProperties DEF Accepts, InOrder
<1> HIDE DEF n
<1>4. ASSUME NEW j \in 1..n
      PROVE  \A k \in 1..n : j < k => items[j].seq < items[k].seq
                                        /\ items[j].observed < items[k].observed
  <2> DEFINE S == {d \in 0..(n - j) : d > 0 => /\ items[j].seq < items[j + d].seq
                                             /\ items[j].observed < items[j + d].observed}
  <2>1. 0 \in S
    BY <1>1
  <2>2. ASSUME NEW d \in 1..(n - j), d - 1 \in S PROVE d \in S
    <3>1. j + d \in 2..n /\ j + d \in 1..n /\ (j + d) - 1 \in 1..n /\ j + (d - 1) = (j + d) - 1
          /\ d \in 0..(n - j) /\ (d = 1 => (j + d) - 1 = j)
      BY <1>1
    <3>2. /\ items[(j + d) - 1].seq < items[j + d].seq
          /\ items[(j + d) - 1].observed < items[j + d].observed
      BY <1>3, <3>1
    <3>3. d - 1 > 0 => /\ items[j].seq < items[(j + d) - 1].seq
                       /\ items[j].observed < items[(j + d) - 1].observed
      BY <2>2, <3>1
    <3>4. /\ items[j].seq < items[j + d].seq
          /\ items[j].observed < items[j + d].observed
      <4>1. CASE d = 1
        BY <3>1, <3>2, <4>1
      <4>2. CASE d # 1
        BY <1>2, <3>1, <3>2, <3>3, <4>2
      <4> QED
        BY <4>1, <4>2
    <3> QED
      BY <3>1, <3>4
  <2>3. n - j \in Nat
    BY <1>1
  <2>4. \A d \in 0..(n - j) : d \in S
    <3> HIDE DEF S
    <3> QED
      BY <2>1, <2>2, <2>3, CountUp
  <2>5. ASSUME NEW k \in 1..n, j < k
        PROVE  items[j].seq < items[k].seq /\ items[j].observed < items[k].observed
    <3>1. k - j \in 0..(n - j) /\ k - j > 0 /\ j + (k - j) = k
      BY <1>1, <2>5
    <3> QED
      BY <2>4, <3>1
  <2> QED
    BY <2>5
<1> QED
  BY <1>4 DEF n

(* The publications that were not recorded before the sample at the end of *)
(* a gap.                                                                  *)
LostIn(items) ==
    [g \in Gaps(items) |-> (items[g.index].seq + 1) .. (items[g.index + 1].seq - 1)]

(* A recording has finitely many gaps. *)
LEMMA GapsFinite ==
    ASSUME NEW items \in Seq(Sample) PROVE IsFiniteSet(Gaps(items))
<1> DEFINE n == Len(items)
           torn == {j \in 2..n : Torn(items, j)}
           gap == [k \in torn |-> GapAt(items, k)]
<1>1. n \in Nat
  BY LenProperties
<1>2. Gaps(items) = {GapAt(items, k) : k \in torn}
  BY GapsAreTorn
<1>3. IsFiniteSet(torn)
  <2>1. IsFiniteSet(2..n)
    BY <1>1, FS_Interval
  <2>2. torn \subseteq 2..n
    OBVIOUS
  <2> QED
    BY <2>1, <2>2, FS_Subset
<1> HIDE DEF torn
<1>4. gap \in Surjection(torn, Gaps(items))
  BY <1>2 DEF Surjection
<1> HIDE DEF gap
<1> QED
  BY <1>3, <1>4, FS_Surjection

(* The gaps of a recording, and the samples they lie between. *)
LEMMA GapsBetween ==
    ASSUME NEW items \in Seq(Sample), Accepts(items), NEW g \in Gaps(items)
    PROVE  /\ g.index \in 1..(Len(items) - 1) /\ g.index \in 1..Len(items)
           /\ g.index + 1 \in 1..Len(items)
           /\ items[g.index].seq \in Nat /\ items[g.index + 1].seq \in Nat
           /\ items[g.index].seq < items[g.index + 1].seq
           /\ g.missing = items[g.index + 1].seq - items[g.index].seq - 1
           /\ g = GapAt(items, g.index + 1)
<1> DEFINE n == Len(items)
<1>1. n \in Nat /\ \A k \in 1..n : items[k].seq \in Nat
  <2>1. n \in Nat /\ \A k \in 1..n : items[k] \in Sample
    BY LenProperties, ElementOfSeq
  <2> QED
    BY <2>1, SubjectsAssumption DEF Sample
<1>2. PICK k \in 2..n : g = GapAt(items, k)
  <2>1. Gaps(items) = {GapAt(items, k) : k \in {j \in 2..n : Torn(items, j)}}
    BY GapsAreTorn
  <2>2. g \in {GapAt(items, k) : k \in {j \in 2..n : Torn(items, j)}}
    BY <2>1
  <2> QED
    BY Zenon, <2>2
<1>3. g.index = k - 1 /\ g.missing = items[k].seq - items[k - 1].seq - 1
  BY <1>2 DEF GapAt
<1>4. k - 1 \in 1..(n - 1) /\ k - 1 \in 1..n /\ k \in 1..n /\ (k - 1) + 1 = k /\ k - 1 < k
  BY <1>1, <1>2
<1>5. items[k - 1].seq < items[k].seq
  BY <1>4, SamplesOrdered
<1> QED
  BY <1>1, <1>2, <1>3, <1>4, <1>5

(* No sample of the recording is lost in a gap, *)
LEMMA LostInPlace ==
    ASSUME NEW items \in Seq(Sample), Accepts(items), NEW g \in Gaps(items),
           NEW x \in LostIn(items)[g]
    PROVE  /\ x \in Nat /\ items[g.index].seq < x /\ x < items[g.index + 1].seq
           /\ \A k \in 1..Len(items) : items[k].seq # x
           /\ \A k \in 1..g.index : items[k].seq < x
           /\ \A k \in (g.index + 1)..Len(items) : x < items[k].seq
<1> DEFINE n == Len(items)
           i == g.index
<1>1. n \in Nat /\ \A k \in 1..n : items[k].seq \in Nat
  <2>1. n \in Nat /\ \A k \in 1..n : items[k] \in Sample
    BY LenProperties, ElementOfSeq
  <2> QED
    BY <2>1, SubjectsAssumption DEF Sample
<1>2. i \in 1..n /\ i + 1 \in 1..n
  BY GapsBetween
<1>3. x \in (items[i].seq + 1)..(items[i + 1].seq - 1)
  BY DEF LostIn
<1> HIDE DEF i, n
<1>4. x \in Nat /\ items[i].seq < x /\ x < items[i + 1].seq
  <2>1. items[i].seq \in Nat /\ items[i + 1].seq \in Nat
    BY <1>1, <1>2
  <2> QED
    BY <1>3, <2>1
<1>5. \A j, k \in 1..n : j < k => items[j].seq < items[k].seq
  BY SamplesOrdered DEF n
<1>6. ASSUME NEW k \in 1..i PROVE items[k].seq < x
  <2>1. k \in 1..n /\ (k = i \/ k < i)
    BY <1>1, <1>2
  <2>2. items[k].seq \in Nat /\ items[i].seq \in Nat /\ items[k].seq <= items[i].seq
    BY <1>1, <1>2, <1>5, <2>1
  <2> QED
    BY <1>4, <2>2
<1>7. ASSUME NEW k \in (i + 1)..n PROVE x < items[k].seq
  <2>1. k \in 1..n /\ (k = i + 1 \/ i + 1 < k)
    BY <1>1, <1>2
  <2>2. items[k].seq \in Nat /\ items[i + 1].seq \in Nat /\ items[i + 1].seq <= items[k].seq
    BY <1>1, <1>2, <1>5, <2>1
  <2> QED
    BY <1>4, <2>2
<1>8. ASSUME NEW k \in 1..n PROVE items[k].seq # x
  <2>1. k \in 1..i \/ k \in (i + 1)..n
    BY <1>1, <1>2
  <2>2. items[k].seq \in Nat
    BY <1>1
  <2> QED
    BY <1>4, <1>6, <1>7, <2>1, <2>2
<1> QED
  BY <1>4, <1>6, <1>7, <1>8 DEF i, n

(* no two gaps have lost the same one, *)
LEMMA LostApart ==
    ASSUME NEW items \in Seq(Sample), Accepts(items),
           NEW g \in Gaps(items), NEW h \in Gaps(items), g # h
    PROVE  LostIn(items)[g] \cap LostIn(items)[h] = {}
<1>1. /\ g.index \in 1..Len(items) /\ g.index + 1 \in 1..Len(items)
      /\ h.index \in 1..Len(items) /\ h.index + 1 \in 1..Len(items) /\ Len(items) \in Nat
      /\ g = GapAt(items, g.index + 1) /\ h = GapAt(items, h.index + 1)
  BY GapsBetween, LenProperties
<1>2. g.index # h.index
  BY <1>1
<1>3. ASSUME NEW x \in LostIn(items)[g], x \in LostIn(items)[h] PROVE FALSE
  <2>1. x \in Nat
    BY LostInPlace
  <2>2. CASE g.index < h.index
    <3>1. h.index \in (g.index + 1)..Len(items) /\ h.index \in 1..h.index
      BY <1>1, <2>2
    <3>2. x < items[h.index].seq
      BY <3>1, LostInPlace
    <3>3. items[h.index].seq < x /\ items[h.index].seq \in Nat
      BY <1>3, LostInPlace, GapsBetween
    <3> QED
      BY <2>1, <3>2, <3>3
  <2>3. CASE h.index < g.index
    <3>1. g.index \in (h.index + 1)..Len(items)
      BY <1>1, <2>3
    <3>2. x < items[g.index].seq
      BY <1>3, <3>1, LostInPlace
    <3>3. items[g.index].seq < x /\ items[g.index].seq \in Nat
      BY LostInPlace, GapsBetween
    <3> QED
      BY <2>1, <3>2, <3>3
  <2> QED
    BY <1>1, <1>2, <2>2, <2>3
<1> QED
  BY <1>3

(* and together they are all that were not recorded. *)
LEMMA LostTogether ==
    ASSUME NEW items \in Seq(Sample), Accepts(items)
    PROVE  Joined(Gaps(items), LostIn(items))
                = (items[1].seq .. items[Len(items)].seq) \ {items[k].seq : k \in DOMAIN items}
<1> DEFINE n == Len(items)
           seen == {items[k].seq : k \in 1..n}
           lost == Joined(Gaps(items), LostIn(items))
<1>1. n \in Nat /\ n >= 1 /\ DOMAIN items = 1..n /\ \A k \in 1..n : items[k].seq \in Nat
  <2>1. n \in Nat /\ n >= 1 /\ DOMAIN items = 1..n /\ \A k \in 1..n : items[k] \in Sample
    BY LenProperties, ElementOfSeq DEF Accepts
  <2> QED
    BY <2>1, SubjectsAssumption DEF Sample
<1>2. \A j, k \in 1..n : j < k => items[j].seq < items[k].seq
  BY SamplesOrdered
<1>3. ASSUME NEW x \in lost PROVE x \in (items[1].seq .. items[n].seq) \ seen
  <2>1. PICK g \in Gaps(items) : x \in LostIn(items)[g]
    BY <1>3 DEF Joined
  <2>2. g.index \in 1..(n - 1)
    BY <2>1, GapsBetween
  <2>3. 1 \in 1..g.index /\ n \in (g.index + 1)..n
    BY <1>1, <2>2
  <2>4. x \in Nat /\ items[1].seq < x /\ x < items[n].seq /\ \A k \in 1..n : items[k].seq # x
    BY <2>1, <2>3, LostInPlace
  <2>5. items[1].seq \in Nat /\ items[n].seq \in Nat
    BY <1>1
  <2> QED
    BY <2>4, <2>5
<1>4. ASSUME NEW x \in (items[1].seq .. items[n].seq) \ seen PROVE x \in lost
  <2>1. x \in Nat /\ items[1].seq < x /\ x < items[n].seq /\ \A k \in 1..n : items[k].seq # x
    <3>1. \A k \in 1..n : items[k].seq # x
      BY <1>4
    <3>2. 1 \in 1..n /\ n \in 1..n
      BY <1>1
    <3>3. items[1].seq \in Nat /\ items[n].seq \in Nat /\ x \in items[1].seq .. items[n].seq
      BY <1>1, <1>4, <3>2
    <3> QED
      BY <3>1, <3>2, <3>3
  <2> DEFINE later == {k \in 1..n : x < items[k].seq}
  <2>2. PICK k \in later : \A j \in later : k <= j
    <3>1. later \subseteq Nat /\ n \in later
      BY <1>1, <2>1
    <3> HIDE DEF later
    <3> QED
      BY <3>1, LeastNumber
  <2>3. k \in 2..n /\ k - 1 \in 1..n /\ k - 1 \notin later
    <3>1. k # 1 /\ k \in 1..n
      BY <1>1, <2>1, <2>2
    <3>2. k - 1 \in 1..n /\ ~(k <= k - 1)
      BY <1>1, <3>1
    <3> QED
      BY <1>1, <2>2, <3>1, <3>2
  <2>4. items[k - 1].seq < x /\ x < items[k].seq
    BY <1>1, <2>1, <2>2, <2>3
  <2> HIDE DEF later
  <2> DEFINE g == GapAt(items, k)
  <2>5. items[k].seq \in Nat /\ items[k - 1].seq \in Nat
    BY <1>1, <2>3
  <2>6. g.missing # 0
    <3>1. g.missing = items[k].seq - items[k - 1].seq - 1
      BY DEF GapAt
    <3> QED
      BY <2>1, <2>4, <2>5, <3>1
  <2>7. k \in {j \in 2..n : Torn(items, j)}
    BY <2>3, <2>6 DEF Torn
  <2>8. g \in Gaps(items)
    <3>1. g \in {GapAt(items, j) : j \in {i \in 2..n : Torn(items, i)}}
      BY Zenon, <2>7
    <3>2. Gaps(items) = {GapAt(items, j) : j \in {i \in 2..n : Torn(items, i)}}
      BY GapsAreTorn
    <3> QED
      BY <3>1, <3>2
  <2>9. g.index = k - 1 /\ g.index + 1 = k
    BY <2>3 DEF GapAt
  <2>10. x \in LostIn(items)[g]
    <3>1. x \in (items[k - 1].seq + 1) .. (items[k].seq - 1)
      BY <2>1, <2>4, <2>5
    <3> HIDE DEF g
    <3> QED
      BY <2>8, <2>9, <3>1 DEF LostIn
  <2> QED
    BY <2>8, <2>10 DEF Joined
<1> HIDE DEF lost
<1>5. lost = (items[1].seq .. items[n].seq) \ seen
  BY <1>3, <1>4
<1> QED
  BY <1>1, <1>5 DEF lost

(* So the gaps say how many were not recorded. *)
LEMMA LossesAreCounted ==
    ASSUME NEW items \in Seq(Sample), Accepts(items)
    PROVE  MapThenSumSet(LAMBDA g : g.missing, Gaps(items))
                = Cardinality((items[1].seq .. items[Len(items)].seq)
                                \ {items[k].seq : k \in DOMAIN items})
<1> DEFINE S == Gaps(items)
           U == items[1].seq .. items[Len(items)].seq
           size == [g \in S |-> g.missing]
           parts == LostIn(items)
           iter == CHOOSE f : Summed(S, size, f)
<1>1. MapThenSumSet(LAMBDA g : g.missing, S)
        = (CHOOSE f : f = [s \in SUBSET S |->
              IF s = {} THEN 0
              ELSE (CHOOSE x \in s : TRUE).missing + f[s \ {CHOOSE x \in s : TRUE}]])[S]
  BY Zenon DEF MapThenSumSet, MapThenFoldSet
<1>2. \A f : (f = [s \in SUBSET S |->
                IF s = {} THEN 0
                ELSE (CHOOSE x \in s : TRUE).missing + f[s \ {CHOOSE x \in s : TRUE}]])
             <=> Summed(S, size, f)
  <2>1. \A s \in SUBSET S : s # {} =>
            size[CHOOSE x \in s : TRUE] = (CHOOSE x \in s : TRUE).missing
    <3> TAKE s \in SUBSET S
    <3> HAVE s # {}
    <3>1. (CHOOSE x \in s : TRUE) \in S
      OBVIOUS
    <3> QED
      BY <3>1
  <2> HIDE DEF S, size
  <2>2. \A f : \A s \in SUBSET S :
          (IF s = {} THEN 0
           ELSE (CHOOSE x \in s : TRUE).missing + f[s \ {CHOOSE x \in s : TRUE}])
          = (IF s = {} THEN 0
             ELSE size[CHOOSE x \in s : TRUE] + f[s \ {CHOOSE x \in s : TRUE}])
    BY <2>1
  <2> QED
    BY <2>2 DEF Summed
<1>3. MapThenSumSet(LAMBDA g : g.missing, S) = iter[S]
  <2> HIDE DEF S, size
  <2> QED
    BY <1>1, <1>2
<1>4. IsFiniteSet(S)
  BY GapsFinite
<1>5. IsFiniteSet(U)
  <2>1. Len(items) \in Nat /\ Len(items) >= 1
    BY LenProperties DEF Accepts
  <2>2. items[1].seq \in Nat /\ items[Len(items)].seq \in Nat
    <3>1. items[1] \in Sample /\ items[Len(items)] \in Sample
      BY <2>1, ElementOfSeq
    <3> QED
      BY <3>1, SubjectsAssumption DEF Sample
  <2>3. items[1].seq \in Int /\ items[Len(items)].seq \in Int
    BY <2>2
  <2> QED
    BY <2>3, FS_Interval
<1>6. Joined(S, parts) = U \ {items[k].seq : k \in DOMAIN items}
  BY LostTogether
<1>7. \A g \in S : parts[g] \subseteq U
  BY <1>6 DEF Joined
<1>8. \A g, h \in S : g # h => parts[g] \cap parts[h] = {}
  BY LostApart
<1>9. \A g \in S : size[g] = Cardinality(parts[g])
  <2> TAKE g \in S
  <2>1. /\ items[g.index].seq \in Nat /\ items[g.index + 1].seq \in Nat
        /\ items[g.index].seq < items[g.index + 1].seq
        /\ g.missing = items[g.index + 1].seq - items[g.index].seq - 1
    BY GapsBetween
  <2> DEFINE a == items[g.index].seq + 1
             b == items[g.index + 1].seq - 1
  <2>2. a \in Int /\ b \in Int /\ (IF a > b THEN 0 ELSE b - a + 1) = g.missing
    <3>1. \A l, h \in Nat : l < h =>
            /\ l + 1 \in Int /\ h - 1 \in Int
            /\ (IF l + 1 > h - 1 THEN 0 ELSE (h - 1) - (l + 1) + 1) = h - l - 1
      OBVIOUS
    <3> QED
      BY <2>1, <3>1
  <2>3. parts[g] = a .. b
    BY DEF LostIn
  <2> HIDE DEF a, b
  <2>4. Cardinality(a .. b) = IF a > b THEN 0 ELSE b - a + 1
    BY <2>2, FS_Interval
  <2> QED
    BY <2>2, <2>3, <2>4
<1> HIDE DEF S, U, size, parts
<1>10. iter[S] = Cardinality(Joined(S, parts))
  BY <1>4, <1>5, <1>7, <1>8, <1>9, SumOfParts
<1> QED
  BY <1>3, <1>6, <1>10 DEF S, U

(* A continuous recording counts its publications, one interval each. *)
LEMMA ContinuousAtRate ==
    ASSUME NEW items \in Seq(Sample), Accepts(items), Continuous(items)
    PROVE  LET first == items[1]  last == items[Len(items)]
           IN  /\ last.seq - first.seq = Len(items) - 1
               /\ Elapsed(first, last) > 0
               /\ last.observed - first.observed <= GapThreshold * (Len(items) - 1)
<1> DEFINE n == Len(items)
           S == {d \in 0..(n - 1) :
                    /\ items[d + 1].seq - items[1].seq = d
                    /\ items[d + 1].observed - items[1].observed <= GapThreshold * d}
<1>1. n \in Nat /\ n >= 2 /\ \A k \in 1..n : items[k].seq \in Nat /\ items[k].observed \in Nat
  <2>1. n \in Nat /\ n >= 2 /\ \A k \in 1..n : items[k] \in Sample
    BY LenProperties, ElementOfSeq DEF Continuous
  <2> QED
    BY <2>1, SubjectsAssumption DEF Sample
<1>2. GapThreshold \in Nat
  BY RecordingAssumption
<1>3. \A d \in Nat : d >= 1 => GapThreshold * d = GapThreshold * (d - 1) + GapThreshold
  BY <1>2
<1>4. 0 \in S
  <2>1. 0 \in 0..(n - 1) /\ 0 + 1 = 1 /\ 1 \in 1..n /\ GapThreshold * 0 = 0
    BY <1>1, <1>2
  <2>2. items[1].seq - items[1].seq = 0 /\ items[1].observed - items[1].observed = 0
    BY <1>1, <2>1
  <2> QED
    BY <2>1, <2>2
<1>5. ASSUME NEW d \in 1..(n - 1), d - 1 \in S PROVE d \in S
  <2>1. d \in 0..(n - 1) /\ d \in Nat /\ d >= 1 /\ d \in 1..n /\ d + 1 \in 2..n /\ d + 1 \in 1..n
        /\ (d - 1) + 1 = d /\ (d + 1) - 1 = d /\ 1 \in 1..n
    BY <1>1
  <2>2. ~Torn(items, d + 1)
    BY <1>1, <2>1, GapsAreTorn DEF Continuous
  <2>3. /\ items[d + 1].seq - items[d].seq - 1 = 0
        /\ ~(items[d + 1].observed - items[d].observed > GapThreshold)
    BY <2>1, <2>2 DEF Torn, GapAt, Elapsed
  <2>4. /\ items[d].seq - items[1].seq = d - 1
        /\ items[d].observed - items[1].observed <= GapThreshold * (d - 1)
    BY <1>5, <2>1
  <2>5. /\ items[1].seq \in Nat /\ items[d].seq \in Nat /\ items[d + 1].seq \in Nat
    BY <1>1, <2>1
  <2>6. items[d + 1].seq - items[1].seq = d
    BY <2>1, <2>3, <2>4, <2>5
  <2>7. /\ items[1].observed \in Nat /\ items[d].observed \in Nat /\ items[d + 1].observed \in Nat
    BY <1>1, <2>1
  <2>8. GapThreshold * d = GapThreshold * (d - 1) + GapThreshold /\ GapThreshold * (d - 1) \in Int
    BY <1>2, <1>3, <2>1
  <2>9. items[d + 1].observed - items[1].observed <= GapThreshold * d
    <3> DEFINE p == GapThreshold * (d - 1)
               q == GapThreshold * d
    <3>1. p \in Int /\ q = p + GapThreshold /\ items[d].observed - items[1].observed <= p
      BY <2>4, <2>8
    <3> HIDE DEF p, q
    <3>2. items[d + 1].observed - items[1].observed <= q
      BY <1>2, <2>3, <2>7, <3>1
    <3> QED
      BY <3>2 DEF q
  <2> QED
    BY <2>1, <2>6, <2>9
<1>6. n - 1 \in Nat /\ n - 1 \in 0..(n - 1) /\ (n - 1) + 1 = n
  BY <1>1
<1>7. n - 1 \in S
  <2> HIDE DEF S, n
  <2> QED
    BY <1>4, <1>5, <1>6, CountUp
<1>8. Elapsed(items[1], items[n]) > 0
  <2>1. 1 \in 1..n /\ n \in 1..n /\ 1 < n
    BY <1>1
  <2>2. items[1].observed < items[n].observed
    BY <2>1, SamplesOrdered
  <2>3. items[1].observed \in Nat /\ items[n].observed \in Nat
    BY <1>1, <2>1
  <2> QED
    BY <2>2, <2>3 DEF Elapsed
<1> QED
  BY <1>6, <1>7, <1>8

(* For any recording that Demonstration accepts, the losses its gaps add   *)
(* up to are those there were, and one that may be replayed misses no      *)
(* publication and has a rate of at least one sample in gap_threshold_s.   *)
THEOREM ReplayMayBeTrusted == SubjectsSpec => []ReplayTruthful
<1>1. SubjectOK => ReplayTruthful
  <2> SUFFICES ASSUME SubjectOK, Recorded PROVE LossesCounted /\ (Continuous(samples) => ReplayedAtRate)
    BY DEF ReplayTruthful, LossesCounted, ReplayedAtRate
  <2>1. samples \in Seq(Sample) /\ Accepts(samples)
    BY DEF SubjectOK, Recording, Recorded, samples
  <2>2. MapThenSumSet(LAMBDA g : g.missing, Gaps(samples))
            = Cardinality((samples[1].seq .. samples[Len(samples)].seq)
                            \ {samples[k].seq : k \in DOMAIN samples})
    BY <2>1, LossesAreCounted
  <2>3. LossesCounted
    BY Zenon, <2>2 DEF LossesCounted
  <2>4. Continuous(samples) => ReplayedAtRate
    BY <2>1, ContinuousAtRate DEF ReplayedAtRate
  <2> QED
    BY <2>3, <2>4
<1> QED
  BY <1>1, SubjectInvariant, PTL

-----------------------------------------------------------------------------
(* The two records of a program. *)

(* A row of a command, told apart from those of the others. *)
CellsOf(spent) == [j \in DOMAIN spent |-> {j} \X (1..spent[j])]

(* A command has as many as it spends, and shares none with another. *)
LEMMA CellsCounted ==
    ASSUME NEW spent \in Seq(Nat)
    PROVE  /\ \A j \in 1..Len(spent) : Cardinality(CellsOf(spent)[j]) = spent[j]
           /\ \A i, j \in 1..Len(spent) : i # j => CellsOf(spent)[i] \cap CellsOf(spent)[j] = {}
           /\ IsFiniteSet(Joined(1..Len(spent), CellsOf(spent)))
<1> DEFINE n == Len(spent)
           cells == CellsOf(spent)
<1>1. n \in Nat /\ DOMAIN spent = 1..n /\ \A j \in 1..n : spent[j] \in Nat
  BY LenProperties, ElementOfSeq
<1>2. \A j \in 1..n : cells[j] = {j} \X (1..spent[j])
  BY <1>1 DEF CellsOf
<1>3. ASSUME NEW j \in 1..n PROVE IsFiniteSet(cells[j]) /\ Cardinality(cells[j]) = spent[j]
  <2>1. spent[j] \in Int /\ 1 \in Int /\ spent[j] \in Nat
    BY <1>1
  <2>2. IsFiniteSet(1..spent[j]) /\ Cardinality(1..spent[j]) = spent[j]
    <3>1. IsFiniteSet(1..spent[j])
          /\ Cardinality(1..spent[j]) = IF 1 > spent[j] THEN 0 ELSE spent[j] - 1 + 1
      BY <2>1, FS_Interval
    <3> QED
      BY <2>1, <3>1
  <2>3. IsFiniteSet({j}) /\ Cardinality({j}) = 1
    BY FS_Singleton
  <2>4. IsFiniteSet({j} \X (1..spent[j]))
        /\ Cardinality({j} \X (1..spent[j])) = Cardinality({j}) * Cardinality(1..spent[j])
    BY <2>2, <2>3, FS_Product
  <2>5. 1 * spent[j] = spent[j]
    BY <2>1
  <2>6. Cardinality({j} \X (1..spent[j])) = spent[j]
    BY <2>2, <2>3, <2>4, <2>5
  <2> QED
    BY <1>2, <2>4, <2>6
<1>4. ASSUME NEW i \in 1..n, NEW j \in 1..n, i # j PROVE cells[i] \cap cells[j] = {}
  BY <1>2, <1>4
<1>5. IsFiniteSet(Joined(1..n, cells))
  <2> DEFINE S == {k \in 0..n : IsFiniteSet(Joined(1..k, cells))}
  <2>1. 0 \in S
    <3>1. 1..0 = {} /\ Joined({}, cells) = {} /\ 0 \in 0..n
      BY <1>1 DEF Joined
    <3>2. IsFiniteSet({})
      BY FS_EmptySet
    <3>3. IsFiniteSet(Joined(1..0, cells))
      BY <3>1, <3>2
    <3> QED
      BY <3>1, <3>3
  <2>2. ASSUME NEW k \in 1..n, k - 1 \in S PROVE k \in S
    <3>1. 1..k = (1..(k - 1)) \cup {k} /\ k \in 0..n
      BY <1>1
    <3>2. Joined(1..k, cells) = Joined(1..(k - 1), cells) \cup cells[k]
      BY <3>1 DEF Joined
    <3>3. IsFiniteSet(Joined(1..(k - 1), cells) \cup cells[k])
      BY <1>3, <2>2, FS_Union
    <3> QED
      BY <3>1, <3>2, <3>3
  <2>3. n \in 0..n
    BY <1>1
  <2>4. \A k \in 0..n : k \in S
    <3> HIDE DEF S, cells, n
    <3> QED
      BY <1>1, <2>1, <2>2, CountUp
  <2> QED
    BY <2>3, <2>4
<1> QED
  BY <1>3, <1>4, <1>5

(* RowsBefore counts the rows of the commands before. *)
LEMMA RowsCounted ==
    ASSUME NEW spent \in Seq(Nat), NEW m \in 0..Len(spent)
    PROVE  RowsBefore(m + 1, spent) = Cardinality(Joined(1..m, CellsOf(spent)))
<1> DEFINE n == Len(spent)
           cells == CellsOf(spent)
           q == SubSeq(spent, 1, (m + 1) - 1)
           count(s) == Cardinality(Joined(s, cells))
           Adds(f) == f = [s \in SUBSET (1..m) |->
                        IF s = {} THEN 0 ELSE f[s \ {Max(s)}] + q[Max(s)]]
           table == [s \in SUBSET (1..m) |-> count(s)]
           iter == CHOOSE f : Adds(f)
<1>1. n \in Nat /\ m \in Nat /\ m <= n /\ (m + 1) - 1 = m /\ \A j \in 1..n : spent[j] \in Nat
  BY LenProperties, ElementOfSeq
<1>2. DOMAIN q = 1..m /\ \A j \in 1..m : q[j] = spent[j]
  <2>1. q = SubSeq(spent, 1, m)
    BY <1>1
  <2>2. Len(q) = m /\ \A j \in 1..m : q[j] = spent[j]
    BY <1>1, <2>1, SubSeqProperties
  <2>3. q \in Seq(Nat)
    BY <1>1, <2>1, SubSeqProperties
  <2> QED
    BY <2>2, <2>3, LenProperties
<1>3. RowsBefore(m + 1, spent) = (CHOOSE f : f = [s \in SUBSET DOMAIN q |->
            IF s = {} THEN 0 ELSE f[s \ {Max(s)}] + q[Max(s)]])[DOMAIN q]
  BY Zenon DEF RowsBefore, FoldLeft, MapThenFoldSet
<1> HIDE DEF q
<1>4. RowsBefore(m + 1, spent) = iter[1..m]
  BY <1>2, <1>3
<1>5. /\ count({}) = 0
      /\ \A s \in SUBSET (1..n) : count(s) \in Nat
      /\ \A s \in SUBSET (1..n) : \A x \in s : count(s) = spent[x] + count(s \ {x})
  <2> DEFINE U == Joined(1..n, cells)
  <2>1. \A x \in 1..n : cells[x] \subseteq U
    BY DEF Joined
  <2>2. /\ Cardinality(Joined({}, cells)) = 0
        /\ \A s \in SUBSET (1..n) : Cardinality(Joined(s, cells)) \in Nat
        /\ \A s \in SUBSET (1..n) : \A x \in s :
              Cardinality(Joined(s, cells))
                  = Cardinality(cells[x]) + Cardinality(Joined(s \ {x}, cells))
    <3> HIDE DEF U
    <3>1. IsFiniteSet(U) /\ \A i, j \in 1..n : i # j => cells[i] \cap cells[j] = {}
      BY CellsCounted DEF U
    <3> HIDE DEF n, cells
    <3> QED
      BY <2>1, <3>1, PartsAddUp
  <2>3. \A x \in 1..n : Cardinality(cells[x]) = spent[x]
    BY CellsCounted
  <2>4. ASSUME NEW s \in SUBSET (1..n), NEW x \in s PROVE count(s) = spent[x] + count(s \ {x})
    <3>1. Cardinality(cells[x]) = spent[x]
      BY <2>3
    <3> QED
      BY <2>2, <3>1
  <2> QED
    BY <2>2, <2>4
<1> HIDE DEF count
<1>6. \A s \in SUBSET (1..m) : s \in SUBSET (1..n)
  BY <1>1
<1>7. \A s \in SUBSET (1..m) : s # {} =>
        /\ Max(s) \in s /\ Max(s) \in 1..m /\ s \ {Max(s)} \in SUBSET (1..m)
        /\ count(s) = count(s \ {Max(s)}) + q[Max(s)]
  <2> TAKE s \in SUBSET (1..m)
  <2> HAVE s # {}
  <2>1. Max(s) \in s /\ Max(s) \in 1..m /\ s \ {Max(s)} \in SUBSET (1..m)
    BY <1>1, MaxOfFirst
  <2>2. count(s) = spent[Max(s)] + count(s \ {Max(s)}) /\ count(s \ {Max(s)}) \in Nat
    BY <1>5, <1>6, <2>1
  <2>3. q[Max(s)] = spent[Max(s)] /\ spent[Max(s)] \in Nat
    BY <1>1, <1>2, <2>1
  <2> QED
    BY <2>1, <2>2, <2>3
<1>8. Adds(table)
  <2>1. ASSUME NEW s \in SUBSET (1..m)
        PROVE  count(s) = IF s = {} THEN 0 ELSE table[s \ {Max(s)}] + q[Max(s)]
    BY <1>5, <1>7
  <2> QED
    BY <2>1
<1>9. Adds(iter)
  <2> HIDE DEF Adds, table
  <2> QED
    BY <1>8
<1> HIDE DEF iter, table
<1> DEFINE T == {s \in SUBSET (1..m) : iter[s] = count(s)}
<1>10. {} \in T
  BY <1>5, <1>9
<1>11. ASSUME NEW s \in SUBSET (1..m), s # {} PROVE \E x \in s : s \ {x} \in T => s \in T
  <2>1. iter[s] = iter[s \ {Max(s)}] + q[Max(s)]
    BY <1>9, <1>11
  <2>2. Max(s) \in s /\ count(s) = count(s \ {Max(s)}) + q[Max(s)]
    BY <1>7, <1>11
  <2>3. s \ {Max(s)} \in T => s \in T
    BY <2>1, <2>2
  <2> HIDE DEF T
  <2> QED
    BY <2>2, <2>3
<1>12. IsFiniteSet(1..m)
  BY <1>1, FS_Interval
<1>13. 1..m \in T
  <2> HIDE DEF T
  <2> QED
    BY <1>10, <1>11, <1>12, TakenApart
<1> QED
  BY <1>4, <1>13 DEF count

(* They add up, command by command. *)
LEMMA RowsAddUp ==
    ASSUME NEW spent \in Seq(Nat)
    PROVE  /\ RowsBefore(1, spent) = 0
           /\ \A k \in 1..(Len(spent) + 1) : RowsBefore(k, spent) \in Nat
           /\ \A k \in 1..Len(spent) : RowsBefore(k + 1, spent) = RowsBefore(k, spent) + spent[k]
<1> DEFINE n == Len(spent)
           cells == CellsOf(spent)
           before(k) == RowsBefore(k, spent)
<1>1. n \in Nat /\ \A j \in 1..n : spent[j] \in Nat
  BY LenProperties, ElementOfSeq
<1>2. \A m \in 0..n : before(m + 1) = Cardinality(Joined(1..m, cells))
  BY RowsCounted
<1>3. /\ Cardinality(Joined({}, cells)) = 0
      /\ \A s \in SUBSET (1..n) : Cardinality(Joined(s, cells)) \in Nat
      /\ \A s \in SUBSET (1..n) : \A x \in s :
            Cardinality(Joined(s, cells))
                = Cardinality(cells[x]) + Cardinality(Joined(s \ {x}, cells))
  <2> DEFINE U == Joined(1..n, cells)
  <2>1. \A x \in 1..n : cells[x] \subseteq U
    BY DEF Joined
  <2> HIDE DEF U
  <2>2. IsFiniteSet(U) /\ \A i, j \in 1..n : i # j => cells[i] \cap cells[j] = {}
    BY CellsCounted DEF U
  <2> HIDE DEF n, cells
  <2> QED
    BY <2>1, <2>2, PartsAddUp
<1>4. \A x \in 1..n : Cardinality(cells[x]) = spent[x]
  BY CellsCounted
<1> HIDE DEF cells, before
<1>5. before(1) = 0
  <2>1. 0 \in 0..n /\ 0 + 1 = 1 /\ 1..0 = {}
    BY <1>1
  <2>2. before(0 + 1) = Cardinality(Joined(1..0, cells))
    BY <1>2, <2>1
  <2> QED
    BY <1>3, <2>1, <2>2
<1>6. ASSUME NEW k \in 1..(n + 1) PROVE before(k) \in Nat
  <2>1. k - 1 \in 0..n /\ (k - 1) + 1 = k /\ 1..(k - 1) \in SUBSET (1..n)
    BY <1>1
  <2>2. before((k - 1) + 1) = Cardinality(Joined(1..(k - 1), cells))
    BY <1>2, <2>1
  <2> QED
    BY <1>3, <2>1, <2>2
<1>7. ASSUME NEW k \in 1..n PROVE before(k + 1) = before(k) + spent[k]
  <2>1. k \in 0..n /\ k - 1 \in 0..n /\ (k - 1) + 1 = k /\ 1..k \in SUBSET (1..n) /\ k \in 1..k
        /\ (1..k) \ {k} = 1..(k - 1) /\ 1..(k - 1) \in SUBSET (1..n)
    BY <1>1
  <2>2. before(k + 1) = Cardinality(Joined(1..k, cells))
    BY <1>2, <2>1
  <2>3. before((k - 1) + 1) = Cardinality(Joined(1..(k - 1), cells))
    BY <1>2, <2>1
  <2>4. Cardinality(Joined(1..k, cells)) = Cardinality(cells[k]) + Cardinality(Joined((1..k) \ {k}, cells))
    BY <1>3, <2>1
  <2>5. Cardinality(Joined(1..(k - 1), cells)) \in Nat /\ spent[k] \in Nat
    BY <1>1, <1>3, <2>1
  <2>6. before(k + 1) = spent[k] + Cardinality(Joined(1..(k - 1), cells))
    BY <1>4, <2>1, <2>2, <2>4
  <2>7. before(k) = Cardinality(Joined(1..(k - 1), cells))
    BY <2>1, <2>3
  <2> QED
    BY <2>5, <2>6, <2>7
<1> QED
  BY <1>5, <1>6, <1>7 DEF before

(* The blocks of a record lie behind one another, one for each command. *)
Laid(record, n) ==
    /\ n \in Nat /\ record.rows \in Nat
    /\ Len(record.blocks) = n /\ DOMAIN record.blocks = 1..n
    /\ \A k \in 1..n :
        LET b == record.blocks[k]
        IN  /\ b.command = k /\ b.start \in Nat /\ b.rows \in Nat
            /\ b.start + b.rows <= record.rows
    /\ \A j, k \in 1..n :
        j < k => record.blocks[j].start + record.blocks[j].rows <= record.blocks[k].start

(* The records that RecordOf makes are laid out so. *)
LEMMA RecordLaid ==
    ASSUME NEW n \in Nat, NEW rows \in [1..n -> Nat], NEW spent \in [1..n -> Nat],
           \A k \in 1..n : rows[k] <= spent[k]
    PROVE  Laid(RecordOf(rows, spent), n)
<1> DEFINE before(k) == RowsBefore(k, spent)
           record == RecordOf(rows, spent)
<1>1. spent \in Seq(Nat) /\ Len(spent) = n
  OBVIOUS
<1>2. /\ before(1) = 0
      /\ \A k \in 1..(n + 1) : before(k) \in Nat
      /\ \A k \in 1..n : before(k + 1) = before(k) + spent[k]
  BY <1>1, RowsAddUp
<1> HIDE DEF before
<1>3. ASSUME NEW j \in 1..(n + 1) PROVE \A k \in 1..(n + 1) : j <= k => before(j) <= before(k)
  <2> DEFINE S == {d \in 0..(n + 1 - j) : before(j) <= before(j + d)}
  <2>1. 0 \in S
    BY <1>2
  <2>2. ASSUME NEW d \in 1..(n + 1 - j), d - 1 \in S PROVE d \in S
    <3>1. j + d \in 1..(n + 1) /\ j + (d - 1) \in 1..n /\ j + (d - 1) \in 1..(n + 1)
          /\ (j + (d - 1)) + 1 = j + d /\ d \in 0..(n + 1 - j)
      OBVIOUS
    <3>2. before(j + d) = before(j + (d - 1)) + spent[j + (d - 1)]
      BY <1>2, <3>1
    <3>3. /\ before(j) \in Nat /\ before(j + (d - 1)) \in Nat /\ spent[j + (d - 1)] \in Nat
          /\ before(j) <= before(j + (d - 1))
      BY <1>2, <2>2, <3>1
    <3> QED
      BY <3>1, <3>2, <3>3
  <2>3. n + 1 - j \in Nat
    OBVIOUS
  <2>4. \A d \in 0..(n + 1 - j) : d \in S
    <3> HIDE DEF S
    <3> QED
      BY <2>1, <2>2, <2>3, CountUp
  <2>5. ASSUME NEW k \in 1..(n + 1), j <= k PROVE before(j) <= before(k)
    <3>1. k - j \in 0..(n + 1 - j) /\ j + (k - j) = k
      BY <2>5
    <3> QED
      BY <2>4, <3>1
  <2> QED
    BY <2>5
<1>4. /\ record.rows = before(n + 1) /\ record.blocks = [k \in 1..n |-> Block(k, before(k), rows[k])]
  BY <1>1 DEF RecordOf, before
<1>5. Len(record.blocks) = n /\ DOMAIN record.blocks = 1..n
  BY <1>4
<1>6. \A k \in 1..n : /\ record.blocks[k].command = k
                      /\ record.blocks[k].start = before(k) /\ record.blocks[k].rows = rows[k]
  BY <1>4 DEF Block
<1> HIDE DEF record
<1>7. \A k \in 1..n : /\ before(k) \in Nat /\ rows[k] \in Nat
                      /\ before(k) + rows[k] <= before(k + 1)
  <2> TAKE k \in 1..n
  <2>1. before(k) \in Nat /\ rows[k] \in Nat /\ spent[k] \in Nat /\ rows[k] <= spent[k]
    BY <1>2
  <2>2. before(k + 1) = before(k) + spent[k]
    BY <1>2
  <2> QED
    BY <2>1, <2>2
<1>8. ASSUME NEW j \in 1..n, NEW k \in 1..(n + 1), j < k PROVE before(j) + rows[j] <= before(k)
  <2>1. j + 1 \in 1..(n + 1) /\ j + 1 <= k
    BY <1>8
  <2>2. before(j + 1) <= before(k)
    BY <1>3, <2>1
  <2>3. before(j + 1) \in Nat /\ before(k) \in Nat
    BY <1>2, <2>1
  <2> QED
    BY <1>7, <2>2, <2>3
<1>9. n + 1 \in 1..(n + 1) /\ \A k \in 1..n : k < n + 1 /\ k \in 1..(n + 1)
  OBVIOUS
<1> QED
  BY <1>2, <1>4, <1>5, <1>6, <1>7, <1>8, <1>9 DEF Laid, record

(* A row belongs to one command at most, and block_at finds it, *)
LEMMA RowOwned ==
    ASSUME NEW record, NEW n, Laid(record, n), NEW row \in Nat
    PROVE  /\ \A k \in 1..n : row \in RowsOf(record.blocks[k]) =>
                /\ BlockAt(record, row) = k
                /\ \A j \in 1..n : row \in RowsOf(record.blocks[j]) => j = k
           /\ BlockAt(record, row) # 0 =>
                /\ BlockAt(record, row) \in 1..n
                /\ row \in RowsOf(record.blocks[BlockAt(record, row)])
<1> DEFINE owners == {i \in 1..Len(record.blocks) : row \in RowsOf(record.blocks[i])}
           blocks == record.blocks
<1>1. BlockAt(record, row) = IF owners # {} THEN Min(owners) ELSE 0
  BY Zenon DEF BlockAt, SelectInSeq
<1>2. n \in Nat /\ owners = {i \in 1..n : row \in RowsOf(blocks[i])}
  BY DEF Laid
<1>3. ASSUME NEW j \in 1..n, NEW k \in 1..n, j < k, row \in RowsOf(blocks[j]) PROVE row \notin RowsOf(blocks[k])
  <2>1. /\ blocks[j].start \in Nat /\ blocks[j].rows \in Nat
        /\ blocks[k].start \in Nat /\ blocks[k].rows \in Nat
        /\ blocks[j].start + blocks[j].rows <= blocks[k].start
    BY <1>3 DEF Laid
  <2>2. row < blocks[j].start + blocks[j].rows
    BY <1>3, <2>1 DEF RowsOf
  <2> QED
    BY <2>1, <2>2 DEF RowsOf
<1>4. \A j, k \in 1..n : row \in RowsOf(blocks[j]) /\ row \in RowsOf(blocks[k]) => j = k
  BY <1>2, <1>3
<1>5. owners # {} => Min(owners) \in owners
  <2>1. owners \subseteq Nat
    BY <1>2
  <2> HIDE DEF owners
  <2> QED
    BY <2>1, MinIsMember
<1> QED
  BY <1>1, <1>2, <1>4, <1>5

(* and a command is found by its number, if it has rows. *)
LEMMA CommandFound ==
    ASSUME NEW record, NEW n, Laid(record, n), NEW k \in 1..n
    PROVE  BlockOf(record, k) = IF record.blocks[k].rows > 0 THEN k ELSE 0
<1> DEFINE found == {i \in 1..Len(record.blocks) :
                        record.blocks[i].command = k /\ record.blocks[i].rows > 0}
<1>1. BlockOf(record, k) = IF found # {} THEN Max(found) ELSE 0
  BY Zenon DEF BlockOf, SelectLastInSeq
<1>2. n \in Nat /\ k \in Nat /\ found = {i \in 1..n : i = k /\ record.blocks[i].rows > 0}
  BY DEF Laid
<1>3. Max({k}) = k
  <2>1. Max({k}) = CHOOSE x \in {k} : \A y \in {k} : x >= y
    BY DEF Max
  <2>2. k >= k
    BY <1>2
  <2> QED
    BY <2>1, <2>2
<1>4. record.blocks[k].rows > 0 => found = {k}
  BY <1>2
<1>5. ~(record.blocks[k].rows > 0) => found = {}
  BY <1>2
<1> HIDE DEF found
<1> QED
  BY <1>1, <1>3, <1>4, <1>5

(* The smaller, *)
LEMMA MinOfTwo ==
    ASSUME NEW a \in Int, NEW b \in Int PROVE Min({a, b}) = IF a <= b THEN a ELSE b
<1>1. Min({a, b}) = CHOOSE x \in {a, b} : \A y \in {a, b} : x =< y
  BY DEF Min
<1> QED
  BY <1>1

(* and the greater of two numbers. *)
LEMMA MaxOfTwo ==
    ASSUME NEW a \in Int, NEW b \in Int PROVE Max({a, b}) = IF a >= b THEN a ELSE b
<1>1. Max({a, b}) = CHOOSE x \in {a, b} : \A y \in {a, b} : x >= y
  BY DEF Max
<1> QED
  BY <1>1

(* Where align_rows leads a row. *)
LEMMA RowAligned ==
    ASSUME NEW source, NEW target, NEW n, Laid(source, n), Laid(target, n), target.rows > 0,
           NEW row \in 0..(source.rows - 1)
    PROVE  /\ AlignRows(source, target)[row] \in 0..(target.rows - 1)
           /\ \A k \in 1..n :
                row \in RowsOf(source.blocks[k]) /\ target.blocks[k].rows > 0 =>
                    LET into == AlignRows(source, target)[row] - target.blocks[k].start
                        ran == row - source.blocks[k].start
                    IN  /\ AlignRows(source, target)[row] \in RowsOf(target.blocks[k])
                        /\ into = IF ran <= target.blocks[k].rows - 1
                                  THEN ran ELSE target.blocks[k].rows - 1
           /\ source = target => AlignRows(source, target)[row] = row
<1> DEFINE matching == {k \in DOMAIN source.blocks :
                            BlockOf(target, source.blocks[k].command) # 0}
           mine == {k \in matching : row \in RowsOf(source.blocks[k])}
           at == AlignRows(source, target)[row]
<1>1. /\ n \in Nat /\ source.rows \in Nat /\ target.rows \in Nat /\ row \in Nat
      /\ DOMAIN source.blocks = 1..n
      /\ \A k \in 1..n : /\ source.blocks[k].command = k
                         /\ source.blocks[k].start \in Nat /\ source.blocks[k].rows \in Nat
                         /\ target.blocks[k].start \in Nat /\ target.blocks[k].rows \in Nat
                         /\ target.blocks[k].start + target.blocks[k].rows <= target.rows
  BY DEF Laid
<1>2. at = IF target.rows = 0 THEN 0
           ELSE IF mine = {} THEN Min({row, target.rows - 1})
           ELSE Aligned(source, target, source.blocks[Max(mine)], row)
  BY Zenon DEF AlignRows
<1>3. mine = {k \in 1..n : target.blocks[k].rows > 0 /\ row \in RowsOf(source.blocks[k])}
  <2>1. \A k \in 1..n : BlockOf(target, source.blocks[k].command) # 0 <=> target.blocks[k].rows > 0
    <3> TAKE k \in 1..n
    <3>1. BlockOf(target, k) = IF target.blocks[k].rows > 0 THEN k ELSE 0
      BY CommandFound
    <3> QED
      BY <1>1, <3>1
  <2> QED
    BY <1>1, <2>1
<1> HIDE DEF mine, at
<1>4. ASSUME NEW k \in 1..n, row \in RowsOf(source.blocks[k]), target.blocks[k].rows > 0
      PROVE  /\ at \in RowsOf(target.blocks[k]) /\ at \in 0..(target.rows - 1)
             /\ at - target.blocks[k].start =
                    IF row - source.blocks[k].start <= target.blocks[k].rows - 1
                    THEN row - source.blocks[k].start ELSE target.blocks[k].rows - 1
             /\ source = target => at = row
  <2> DEFINE a == row - source.blocks[k].start
             b == target.blocks[k].rows - 1
             s == target.blocks[k].start
  <2>1. mine = {k}
    <3>1. \A j \in 1..n : row \in RowsOf(source.blocks[j]) => j = k
      BY <1>1, <1>4, RowOwned
    <3> QED
      BY <1>3, <1>4, <3>1
  <2>2. Max(mine) = k
    <3>1. Max({k}) = CHOOSE x \in {k} : \A y \in {k} : x >= y
      BY DEF Max
    <3>2. k >= k
      BY <1>1
    <3> QED
      BY <2>1, <3>1, <3>2
  <2>3. BlockOf(target, source.blocks[k].command) = k
    BY <1>1, <1>4, CommandFound
  <2>4. at = s + Min({a, b})
    <3>1. at = Aligned(source, target, source.blocks[k], row)
      BY <1>1, <1>2, <2>1, <2>2
    <3> QED
      BY <2>3, <3>1 DEF Aligned
  <2>5. /\ a \in Nat /\ b \in Nat /\ s \in Nat /\ s + b <= target.rows - 1
        /\ target.blocks[k].rows = b + 1
    <3>1. /\ source.blocks[k].start \in Nat /\ source.blocks[k].rows \in Nat
          /\ s \in Nat /\ target.blocks[k].rows \in Nat
          /\ s + target.blocks[k].rows <= target.rows
      BY <1>1
    <3>2. row \in source.blocks[k].start .. (source.blocks[k].start + source.blocks[k].rows - 1)
      BY <1>4 DEF RowsOf
    <3>3. a \in Nat
      BY <3>1, <3>2
    <3>4. b \in Nat /\ target.blocks[k].rows = b + 1
      BY <1>4, <3>1
    <3>5. target.rows \in Nat
      BY <1>1
    <3>6. s + b <= target.rows - 1
      BY <3>1, <3>4, <3>5
    <3> QED
      BY <3>1, <3>3, <3>4, <3>6
  <2>6. Min({a, b}) = IF a <= b THEN a ELSE b
    BY <2>5, MinOfTwo
  <2>7. at \in s..(s + b) /\ at \in 0..(target.rows - 1) /\ at - s = IF a <= b THEN a ELSE b
    <3> HIDE DEF a, b, s
    <3> QED
      BY <1>1, <2>4, <2>5, <2>6
  <2>8. at \in RowsOf(target.blocks[k])
    BY <1>1, <2>5, <2>7 DEF RowsOf
  <2>9. ASSUME source = target PROVE at = row
    <3>1. a <= b /\ s = source.blocks[k].start
      BY <1>1, <1>4, <2>9 DEF RowsOf
    <3>2. at - s = a /\ at \in Int
      BY <2>5, <2>7, <3>1
    <3> QED
      BY <1>1, <3>1, <3>2
  <2> QED
    BY <2>7, <2>8, <2>9
<1>5. ASSUME mine = {} PROVE at \in 0..(target.rows - 1) /\ (source = target => at = row)
  <2>1. at = Min({row, target.rows - 1})
    BY <1>1, <1>2, <1>5
  <2>2. row \in Int /\ target.rows - 1 \in Int
    BY <1>1
  <2>3. Min({row, target.rows - 1}) = IF row <= target.rows - 1 THEN row ELSE target.rows - 1
    BY <2>2, MinOfTwo
  <2> QED
    BY <1>1, <2>1, <2>3
<1>6. mine # {} => \E k \in 1..n : row \in RowsOf(source.blocks[k]) /\ target.blocks[k].rows > 0
  BY <1>3
<1>7. at \in 0..(target.rows - 1) /\ (source = target => at = row)
  BY <1>4, <1>5, <1>6
<1> QED
  BY <1>4, <1>7 DEF at

(* The plan and the run of a subject are such records. *)
LEMMA RunLaid ==
    ASSUME SubjectOK, Is("run")
    PROVE  \E n \in Nat : Laid(Commanded, n) /\ Laid(Predicted, n)
<1> DEFINE items == subject.items
           n == Len(items)
           planned == [k \in 1..n |-> items[k].planned]
           ran == [k \in 1..n |-> items[k].ran]
           spent == [k \in 1..n |-> items[k].ran + items[k].between]
<1>1. items \in Seq(RunCommands)
  BY DEF SubjectOK
<1>2. n \in Nat /\ DOMAIN items = 1..n /\ \A k \in 1..n : items[k] \in RunCommands
  BY <1>1, LenProperties, ElementOfSeq
<1>3. \A k \in 1..n : items[k].planned \in Nat /\ items[k].ran \in Nat /\ items[k].between \in 0..1
  BY <1>2, SubjectsAssumption DEF RunCommands
<1>4. Commanded = RecordOf(planned, planned) /\ Predicted = RecordOf(ran, spent)
  BY <1>2 DEF Commanded, Predicted
<1>5. /\ planned \in [1..n -> Nat] /\ ran \in [1..n -> Nat] /\ spent \in [1..n -> Nat]
      /\ \A k \in 1..n : planned[k] <= planned[k] /\ ran[k] <= spent[k]
  <2>1. \A k \in 1..n :
          /\ items[k].ran + items[k].between \in Nat
          /\ items[k].ran <= items[k].ran + items[k].between
          /\ items[k].planned <= items[k].planned
    <3> TAKE k \in 1..n
    <3> DEFINE r == items[k].ran
               b == items[k].between
               p == items[k].planned
    <3>1. r \in Nat /\ b \in Nat /\ p \in Nat
      BY <1>3
    <3> HIDE DEF r, b, p
    <3>2. r + b \in Nat /\ r <= r + b /\ p <= p
      BY <3>1
    <3> QED
      BY <3>2 DEF r, b, p
  <2>2. planned \in [1..n -> Nat] /\ ran \in [1..n -> Nat]
    BY <1>3
  <2>3. spent \in [1..n -> Nat]
    BY <2>1
  <2>4. \A k \in 1..n : planned[k] <= planned[k]
    BY <2>1
  <2>5. \A k \in 1..n : ran[k] <= spent[k]
    BY <2>1
  <2> QED
    BY <2>2, <2>3, <2>4, <2>5
<1>6. Laid(RecordOf(planned, planned), n) /\ Laid(RecordOf(ran, spent), n)
  <2> HIDE DEF planned, ran, spent, n
  <2> QED
    BY <1>2, <1>5, RecordLaid
<1> QED
  BY <1>2, <1>4, <1>6

(* align_rows compares the rows of one command. *)
LEMMA RowsCompared ==
    ASSUME SubjectOK PROVE SameCommandCompared
<1> SUFFICES ASSUME Is("run"), Commanded.rows > 0, NEW row \in 0..(Predicted.rows - 1)
             PROVE  LET positions == [r \in 0..(Predicted.rows - 1) |-> r]
                        at == AlignRows(Predicted, Commanded)[row]
                        k == BlockAt(Predicted, row)
                    IN  /\ FollowingError(Predicted, Predicted, positions, positions)[row] = 0
                        /\ at \in 0..(Commanded.rows - 1)
                        /\ k # 0 /\ Commanded.blocks[k].rows > 0 =>
                            /\ BlockAt(Commanded, at) = k
                            /\ LET into == at - Commanded.blocks[k].start
                                   ran == row - Predicted.blocks[k].start
                               IN  into = ran \/ (into < ran /\ into = Commanded.blocks[k].rows - 1)
  BY Zenon DEF SameCommandCompared
<1> DEFINE positions == [r \in 0..(Predicted.rows - 1) |-> r]
           at == AlignRows(Predicted, Commanded)[row]
           k == BlockAt(Predicted, row)
           into == at - Commanded.blocks[k].start
           ran == row - Predicted.blocks[k].start
<1>1. PICK n \in Nat : Laid(Commanded, n) /\ Laid(Predicted, n)
  BY RunLaid
<1>2. Predicted.rows \in Nat /\ Commanded.rows \in Nat /\ row \in Nat /\ Predicted.rows > 0
  BY <1>1 DEF Laid
<1>3. FollowingError(Predicted, Predicted, positions, positions)[row] = 0
  <2>1. AlignRows(Predicted, Predicted)[row] = row
    BY <1>1, <1>2, RowAligned
  <2>2. DOMAIN AlignRows(Predicted, Predicted) = 0..(Predicted.rows - 1)
    BY DEF AlignRows
  <2>3. FollowingError(Predicted, Predicted, positions, positions)[row]
            = IF positions[row] < positions[row] THEN positions[row] - positions[row]
              ELSE positions[row] - positions[row]
    BY <2>1, <2>2 DEF FollowingError
  <2>4. positions[row] = row /\ row - row = 0
    BY <1>2
  <2> QED
    BY <2>3, <2>4
<1>4. at \in 0..(Commanded.rows - 1)
  BY <1>1, RowAligned
<1>5. ASSUME k # 0, Commanded.blocks[k].rows > 0
      PROVE  /\ BlockAt(Commanded, at) = k
             /\ into = ran \/ (into < ran /\ into = Commanded.blocks[k].rows - 1)
  <2>1. k \in 1..n /\ row \in RowsOf(Predicted.blocks[k])
    BY <1>1, <1>2, <1>5, RowOwned
  <2> HIDE DEF k
  <2>2. /\ at \in RowsOf(Commanded.blocks[k])
        /\ into = IF ran <= Commanded.blocks[k].rows - 1 THEN ran ELSE Commanded.blocks[k].rows - 1
    BY <1>1, <1>5, <2>1, RowAligned
  <2>3. at \in Nat
    BY <1>2, <1>4
  <2>4. BlockAt(Commanded, at) = k
    <3> HIDE DEF at
    <3> QED
      BY <1>1, <2>1, <2>2, <2>3, RowOwned
  <2>5. ran \in Int /\ Commanded.blocks[k].rows \in Nat
    <3>1. Predicted.blocks[k].start \in Nat /\ Commanded.blocks[k].rows \in Nat
      BY <1>1, <2>1 DEF Laid
    <3> QED
      BY <1>2, <3>1
  <2> HIDE DEF into, ran
  <2> QED
    BY <2>2, <2>4, <2>5
<1> HIDE DEF positions, at
<1> QED
  BY <1>3, <1>4, <1>5 DEF positions, at

(* row_at finds the row whose time it is. *)
LEMMA RowsTimed ==
    ASSUME SubjectOK PROVE RowOfItsTime
<1> SUFFICES ASSUME Is("run"), NEW t \in -RowTime .. (Predicted.rows + 1) * RowTime
             PROVE  LET row == RowAt(Predicted, t)
                    IN  IF Predicted.rows = 0 \/ t < 0 THEN row = 0
                        ELSE /\ row \in 0..(Predicted.rows - 1)
                             /\ row * RowTime <= t
                             /\ t < (row + 1) * RowTime \/ row = Predicted.rows - 1
  BY Zenon DEF RowOfItsTime
<1> DEFINE row == RowAt(Predicted, t)
           q == t \div RowTime
           last == Predicted.rows - 1
<1>1. Predicted.rows \in Nat /\ RowTime \in Nat \ {0} /\ t \in Int
  <2>1. Predicted.rows \in Nat
    BY RunLaid DEF Laid
  <2>2. RowTime \in Nat \ {0}
    BY RowTimeAssumption
  <2>3. -RowTime \in Int /\ (Predicted.rows + 1) * RowTime \in Int
    BY <2>1, <2>2
  <2> QED
    BY <2>1, <2>2, <2>3
<1>2. q \in Int /\ q * RowTime <= t /\ t < (q + 1) * RowTime
  BY <1>1
<1>3. t < 0 => q < 0
  <2>1. ASSUME q >= 0 PROVE q * RowTime >= 0
    BY <1>1, <1>2, <2>1
  <2>2. q * RowTime \in Int
    BY <1>1, <1>2
  <2> QED
    BY <1>1, <1>2, <2>1, <2>2
<1>4. t >= 0 => q >= 0
  <2>1. ASSUME q < 0 PROVE (q + 1) * RowTime <= 0
    <3>1. q + 1 <= 0
      BY <1>2, <2>1
    <3> QED
      BY <1>1, <1>2, <3>1
  <2>2. (q + 1) * RowTime \in Int
    BY <1>1, <1>2
  <2> QED
    BY <1>1, <1>2, <2>1, <2>2
<1>5. row = IF Predicted.rows = 0 THEN 0 ELSE Max({0, Min({last, q})})
  BY DEF RowAt
<1>6. CASE Predicted.rows = 0
  BY <1>5, <1>6
<1>7. CASE Predicted.rows # 0
  <2>1. last \in Nat /\ last \in Int /\ 0 \in Int
    BY <1>1, <1>7
  <2> HIDE DEF last, q
  <2>2. Min({last, q}) = IF last <= q THEN last ELSE q
    BY <1>2, <2>1, MinOfTwo
  <2>3. Min({last, q}) \in Int
    BY <1>2, <2>1, <2>2
  <2>4. Max({0, Min({last, q})}) = IF 0 >= Min({last, q}) THEN 0 ELSE Min({last, q})
    BY <2>1, <2>3, MaxOfTwo
  <2>5. row = IF 0 >= Min({last, q}) THEN 0 ELSE Min({last, q})
    BY <1>5, <1>7, <2>4
  <2>6. t < 0 => row = 0
    BY <1>2, <1>3, <2>1, <2>2, <2>5
  <2>7. ASSUME t >= 0 PROVE row = IF last <= q THEN last ELSE q
    BY <1>2, <1>4, <2>1, <2>2, <2>5, <2>7
  <2>8. ASSUME t >= 0
        PROVE  row \in 0..last /\ row * RowTime <= t /\ (t < (row + 1) * RowTime \/ row = last)
    <3>1. CASE last <= q
      <4>1. row = last
        BY <2>7, <2>8, <3>1
      <4>2. last * RowTime <= q * RowTime
        BY <1>1, <1>2, <2>1, <3>1
      <4>3. last * RowTime \in Int /\ q * RowTime \in Int
        BY <1>1, <1>2, <2>1
      <4>4. last * RowTime <= t
        BY <1>1, <1>2, <4>2, <4>3
      <4> QED
        BY <2>1, <4>1, <4>4
    <3>2. CASE ~(last <= q)
      <4>1. row = q /\ q \in 0..last
        BY <1>2, <1>4, <2>1, <2>7, <2>8, <3>2
      <4> QED
        BY <1>2, <4>1
    <3> QED
      BY <3>1, <3>2
  <2> HIDE DEF row
  <2> QED
    BY <1>1, <1>7, <2>6, <2>8 DEF row, last
<1> QED
  BY <1>6, <1>7

(* For runs of any number of commands, with any rows planned, run and      *)
(* spent between them: align_rows compares a row with one of the same      *)
(* command, as far into it as the plan goes, and row_at shows the row of   *)
(* its time, whatever the time.                                            *)
THEOREM RowsAreMatched == SubjectsSpec => []RowsMatched
<1>1. SubjectOK => RowsMatched
  BY RowsCompared, RowsTimed DEF RowsMatched
<1> QED
  BY <1>1, SubjectInvariant, PTL

-----------------------------------------------------------------------------
(* Skills. *)

Below(eps, i) == {j \in DOMAIN eps : Precedes(eps, j, i)}
Rank(eps, i) == Cardinality(Below(eps, i)) + 1

(* Sorting puts every entry in a place of its own, *)
LEMMA PlacesDiffer ==
    ASSUME NEW n \in Nat, NEW eps \in [1..n -> Entries]
    PROVE  [i \in 1..n |-> Rank(eps, i)] \in Injection(1..n, 1..n)
<1> DEFINE P(i, j) == Precedes(eps, i, j)
<1>1. \A i \in 1..n : eps[i].name \in Nat /\ eps[i].value \in Nat
  BY SubjectsAssumption DEF Entries
<1>2. /\ \A i \in 1..n : ~P(i, i)
      /\ \A i, j \in 1..n : i # j => P(i, j) \/ P(j, i)
  BY <1>1 DEF Precedes, Before
<1>3. \A i, j, k \in 1..n : P(i, j) /\ P(j, k) => P(i, k)
  BY <1>1 DEF Precedes, Before
<1>4. \A i \in 1..n : Below(eps, i) = {j \in 1..n : P(j, i)}
  BY DEF Below
<1> HIDE DEF P
<1>5. IsFiniteSet(1..n) /\ Cardinality(1..n) = n
  <2>1. IsFiniteSet(1..n) /\ Cardinality(1..n) = IF 1 > n THEN 0 ELSE n - 1 + 1
    BY FS_Interval
  <2> QED
    BY <2>1
<1>6. \A i \in 1..n : IsFiniteSet(Below(eps, i)) /\ Cardinality(Below(eps, i)) \in Nat
  BY <1>4, <1>5, FS_Subset, FS_CardinalityType
<1>7. ASSUME NEW i \in 1..n PROVE Rank(eps, i) \in 1..n
  <2>1. Below(eps, i) \subseteq 1..n /\ Below(eps, i) # 1..n
    BY <1>2, <1>4
  <2>2. Cardinality(Below(eps, i)) <= n /\ Cardinality(Below(eps, i)) # n
    BY <1>5, <2>1, FS_Subset
  <2>3. Cardinality(Below(eps, i)) \in Nat
    BY <1>6
  <2> QED
    BY <2>2, <2>3 DEF Rank
<1>8. ASSUME NEW i \in 1..n, NEW j \in 1..n, P(i, j) PROVE Rank(eps, i) < Rank(eps, j)
  <2>1. Below(eps, i) \subseteq Below(eps, j) /\ Below(eps, i) # Below(eps, j)
    BY <1>2, <1>3, <1>4, <1>8
  <2>2. /\ Cardinality(Below(eps, i)) <= Cardinality(Below(eps, j))
        /\ Cardinality(Below(eps, i)) # Cardinality(Below(eps, j))
    BY <1>6, <2>1, FS_Subset
  <2>3. Cardinality(Below(eps, i)) \in Nat /\ Cardinality(Below(eps, j)) \in Nat
    BY <1>6
  <2> QED
    BY <2>2, <2>3 DEF Rank
<1>9. ASSUME NEW i \in 1..n, NEW j \in 1..n, Rank(eps, i) = Rank(eps, j) PROVE i = j
  BY <1>2, <1>7, <1>8, <1>9
<1> QED
  BY <1>7, <1>9 DEF Injection, IsInjective

(* so that the sorted sequence is the same entries in other places. *)
Rearranged(n, eps, order, sorted) ==
    /\ order \in [1..n -> 1..n]
    /\ \A i \in 1..n : \E k \in 1..n : order[k] = i
    /\ \A j, k \in 1..n : order[j] = order[k] => j = k
    /\ sorted = [k \in 1..n |-> eps[order[k]]]

(* Sorted only rearranges the entries. *)
LEMMA SortedRearranged ==
    ASSUME NEW n \in Nat, NEW eps \in [1..n -> Entries]
    PROVE  \E order : Rearranged(n, eps, order, Sorted(eps))
<1> DEFINE rank == [i \in 1..n |-> Rank(eps, i)]
           order == [k \in DOMAIN eps |-> CHOOSE i \in DOMAIN eps : Rank(eps, i) = k]
<1>1. rank \in Injection(1..n, 1..n)
  BY PlacesDiffer
<1>2. IsFiniteSet(1..n)
  BY FS_Interval
<1>3. rank \in Surjection(1..n, 1..n)
  BY <1>1, <1>2, FS_Injection
<1>4. Sorted(eps) = [k \in 1..n |-> eps[order[k]]]
  <2>0. Sorted(eps) = [k \in DOMAIN eps |-> eps[CHOOSE i \in DOMAIN eps : Rank(eps, i) = k]]
    BY Zenon DEF Sorted, Rank, Below
  <2>1. \A k \in DOMAIN eps : order[k] = CHOOSE i \in DOMAIN eps : Rank(eps, i) = k
    OBVIOUS
  <2>2. DOMAIN eps = 1..n
    OBVIOUS
  <2> HIDE DEF order
  <2>3. Sorted(eps) = [k \in DOMAIN eps |-> eps[order[k]]]
    BY <2>0, <2>1
  <2> QED
    BY <2>2, <2>3
<1>5. \A k \in 1..n : \E i \in 1..n : rank[i] = k
  BY <1>3 DEF Surjection
<1>6. \A i, j \in 1..n : rank[i] = rank[j] => i = j
  BY <1>1 DEF Injection, IsInjective
<1>7. \A i \in 1..n : rank[i] \in 1..n
  BY <1>1 DEF Injection
<1>13. DOMAIN eps = 1..n /\ \A i \in 1..n : rank[i] = Rank(eps, i)
  OBVIOUS
<1> HIDE DEF rank
<1>8. \A k \in 1..n : order[k] \in 1..n /\ rank[order[k]] = k
  <2> TAKE k \in 1..n
  <2>1. order[k] = CHOOSE i \in DOMAIN eps : Rank(eps, i) = k
    BY <1>13
  <2>2. \E i \in DOMAIN eps : Rank(eps, i) = k
    BY <1>5, <1>13
  <2> HIDE DEF order
  <2>3. order[k] \in DOMAIN eps /\ Rank(eps, order[k]) = k
    BY <2>1, <2>2
  <2> QED
    BY <1>13, <2>3
<1>9. order \in [1..n -> 1..n]
  <2>1. order = [k \in 1..n |-> order[k]]
    BY <1>13
  <2> HIDE DEF order
  <2> QED
    BY <1>8, <2>1
<1> HIDE DEF order
<1>10. \A j, k \in 1..n : order[j] = order[k] => j = k
  BY <1>8
<1>11. \A i \in 1..n : order[rank[i]] = i
  BY <1>6, <1>7, <1>8
<1>12. Rearranged(n, eps, order, Sorted(eps))
  BY <1>4, <1>7, <1>9, <1>10, <1>11 DEF Rearranged
<1> QED
  BY Zenon, <1>12

(* What discover_skills has found and refused once it went through the     *)
(* entries at the positions s: an id that one working entry offers, and    *)
(* those that several do.                                                  *)
Alone(eps, s, k) == \A j \in s \ {k} : Works(eps[j]) => eps[j].offers # eps[k].offers
Unique(eps, s) == {k \in s : Works(eps[k]) /\ Alone(eps, s, k)}
Contested(eps, s) == {k \in s : Works(eps[k]) /\ ~Alone(eps, s, k)}

Taken(eps, s) == [found |-> {eps[k] : k \in Unique(eps, s)},
                  conflicts |-> {eps[k].offers : k \in Contested(eps, s)}]

(* The order does not matter: any of the positions may be the last one. *)
LEMMA TakenInAnyOrder ==
    ASSUME NEW eps, NEW s, NEW x \in s
    PROVE  Taken(eps, s) = TakeSkill(Taken(eps, s \ {x}), eps[x])
<1> DEFINE r == s \ {x}
           before == Taken(eps, r)
           id(k) == eps[k].offers
<1>1. before.found = {eps[k] : k \in Unique(eps, r)}
      /\ before.conflicts = {id(k) : k \in Contested(eps, r)}
      /\ Taken(eps, s).found = {eps[k] : k \in Unique(eps, s)}
      /\ Taken(eps, s).conflicts = {id(k) : k \in Contested(eps, s)}
  BY DEF Taken
<1>2. CASE ~Works(eps[x])
  <2>1. Unique(eps, s) = Unique(eps, r) /\ Contested(eps, s) = Contested(eps, r)
    BY <1>2 DEF Unique, Contested, Alone
  <2> QED
    BY <1>2, <2>1 DEF Taken, TakeSkill
<1>3. CASE Works(eps[x]) /\ \E j \in r : Works(eps[j]) /\ id(j) = id(x)
  <2>1. id(x) \in before.conflicts \cup {other.offers : other \in before.found}
    <3>1. PICK j \in r : Works(eps[j]) /\ id(j) = id(x)
      BY <1>3
    <3>2. CASE Alone(eps, r, j)
      <4>1. eps[j] \in before.found
        BY <1>1, <3>1, <3>2 DEF Unique
      <4> QED
        BY <3>1, <4>1
    <3>3. CASE ~Alone(eps, r, j)
      <4>1. id(j) \in before.conflicts
        BY <1>1, <3>1, <3>3 DEF Contested
      <4> QED
        BY <3>1, <4>1
    <3> QED
      BY <3>2, <3>3
  <2>2. Unique(eps, s) = {k \in Unique(eps, r) : id(k) # id(x)}
    BY <1>3 DEF Unique, Alone
  <2>3. {id(k) : k \in Contested(eps, s)} = {id(k) : k \in Contested(eps, r)} \cup {id(x)}
    <3>1. x \in Contested(eps, s)
      BY <1>3 DEF Contested, Alone
    <3>2. Contested(eps, r) \subseteq Contested(eps, s)
      BY DEF Contested, Alone
    <3>3. ASSUME NEW k \in Contested(eps, s), id(k) # id(x) PROVE k \in Contested(eps, r)
      BY <3>3 DEF Contested, Alone
    <3> QED
      BY <3>1, <3>2, <3>3
  <2>4. TakeSkill(before, eps[x])
            = [found |-> {other \in before.found : other.offers # id(x)},
               conflicts |-> before.conflicts \cup {id(x)}]
    BY <1>3, <2>1 DEF TakeSkill
  <2>5. Taken(eps, s).found = {other \in before.found : other.offers # id(x)}
    BY <1>1, <2>2
  <2>6. Taken(eps, s).conflicts = before.conflicts \cup {id(x)}
    BY <1>1, <2>3
  <2>7. Taken(eps, s) = [found |-> Taken(eps, s).found, conflicts |-> Taken(eps, s).conflicts]
    BY DEF Taken
  <2> QED
    BY <2>4, <2>5, <2>6, <2>7
<1>4. CASE Works(eps[x]) /\ \A j \in r : Works(eps[j]) => id(j) # id(x)
  <2>1. id(x) \notin before.conflicts \cup {other.offers : other \in before.found}
    BY <1>1, <1>4 DEF Unique, Contested
  <2>2. Unique(eps, s) = Unique(eps, r) \cup {x}
    BY <1>4 DEF Unique, Alone
  <2>3. Contested(eps, s) = Contested(eps, r)
    BY <1>4 DEF Contested, Alone
  <2>4. TakeSkill(before, eps[x])
            = [found |-> before.found \cup {eps[x]}, conflicts |-> before.conflicts]
    BY <1>4, <2>1 DEF TakeSkill, Taken
  <2>5. Taken(eps, s).found = before.found \cup {eps[x]}
    BY <1>1, <2>2
  <2>6. Taken(eps, s).conflicts = before.conflicts
    BY <1>1, <2>3
  <2>7. Taken(eps, s) = [found |-> Taken(eps, s).found, conflicts |-> Taken(eps, s).conflicts]
    BY DEF Taken
  <2> QED
    BY <2>4, <2>5, <2>6, <2>7
<1> QED
  BY <1>2, <1>3, <1>4

(* So discover_skills gives those that are alone with their id. *)
LEMMA SkillsTaken ==
    ASSUME NEW n \in Nat, NEW eps \in [1..n -> Entries]
    PROVE  DiscoverSkills(eps) = {Sorted(eps)[k] : k \in Unique(Sorted(eps), 1..n)}
<1> DEFINE q == Sorted(eps)
           none == [found |-> {}, conflicts |-> {}]
           Takes(f) == f = [s \in SUBSET (1..n) |->
                            IF s = {} THEN none ELSE TakeSkill(f[s \ {Max(s)}], q[Max(s)])]
           table == [s \in SUBSET (1..n) |-> Taken(q, s)]
           iter == CHOOSE f : Takes(f)
           T == {s \in SUBSET (1..n) : iter[s] = Taken(q, s)}
<1>1. DOMAIN q = 1..n
  <2>1. PICK order : Rearranged(n, eps, order, q)
    BY SortedRearranged
  <2> QED
    BY <2>1 DEF Rearranged
<1>2. DiscoverSkills(eps) = ((CHOOSE f : f = [s \in SUBSET DOMAIN q |->
            IF s = {} THEN none ELSE TakeSkill(f[s \ {Max(s)}], q[Max(s)])])[DOMAIN q]).found
  BY Zenon DEF DiscoverSkills, FoldLeft, MapThenFoldSet
<1> HIDE DEF q
<1>3. DiscoverSkills(eps) = iter[1..n].found
  BY Zenon, <1>1, <1>2
<1>4. Taken(q, {}) = none
  BY DEF Taken, Unique, Contested
<1> HIDE DEF none
<1>5. \A s \in SUBSET (1..n) : s # {} =>
        /\ Max(s) \in s /\ s \ {Max(s)} \in SUBSET (1..n)
        /\ Taken(q, s) = TakeSkill(Taken(q, s \ {Max(s)}), q[Max(s)])
  <2> TAKE s \in SUBSET (1..n)
  <2> HAVE s # {}
  <2>1. Max(s) \in s
    BY MaxOfFirst
  <2> QED
    BY <2>1, TakenInAnyOrder
<1>6. Takes(table)
  <2>1. ASSUME NEW s \in SUBSET (1..n)
        PROVE  Taken(q, s) = IF s = {} THEN none ELSE TakeSkill(table[s \ {Max(s)}], q[Max(s)])
    BY <1>4, <1>5
  <2> QED
    BY <2>1
<1>7. Takes(iter)
  <2> HIDE DEF Takes, table
  <2> QED
    BY <1>6
<1> HIDE DEF iter, table
<1>8. {} \in T
  BY <1>4, <1>7
<1>9. ASSUME NEW s \in SUBSET (1..n), s # {} PROVE \E x \in s : s \ {x} \in T => s \in T
  <2>1. iter[s] = TakeSkill(iter[s \ {Max(s)}], q[Max(s)])
    BY <1>7, <1>9
  <2>2. Max(s) \in s /\ (s \ {Max(s)} \in T => s \in T)
    BY <1>5, <1>9, <2>1
  <2> HIDE DEF T
  <2> QED
    BY <2>2
<1>10. 1..n \in T
  <2> DEFINE D == 1..n
  <2>1. IsFiniteSet(D)
    BY FS_Interval
  <2>2. \A s \in SUBSET D : s # {} => \E x \in s : s \ {x} \in T => s \in T
    BY <1>9
  <2> HIDE DEF T, D
  <2>3. D \in T
    BY <1>8, <2>1, <2>2, TakenApart
  <2> QED
    BY <2>3 DEF D
<1>11. iter[1..n].found = {q[k] : k \in Unique(q, 1..n)}
  BY <1>10 DEF Taken
<1> QED
  BY <1>3, <1>11 DEF q

(* For any entry points, however many offer the same id, are broken or     *)
(* agree in name and value: discover_skills gives those skills whose id    *)
(* nobody else offers, and no other.                                       *)
THEOREM SkillsAreUnambiguous == SubjectsSpec => []SkillsUnambiguous
<1>1. SubjectOK => SkillsUnambiguous
  <2> SUFFICES ASSUME SubjectOK, Registered
               PROVE  DiscoverSkills(entries) =
                        {entries[k] : k \in {k \in Working :
                            \A j \in Working \ {k} : entries[j].offers # entries[k].offers}}
    BY Zenon DEF SkillsUnambiguous
  <2> DEFINE n == Len(entries)
             q == Sorted(entries)
  <2>1. n \in Nat /\ entries \in [1..n -> Entries] /\ DOMAIN entries = 1..n
    <3>1. entries \in Seq(Entries)
      BY DEF SubjectOK, Registered, entries
    <3> QED
      BY <3>1, LenProperties
  <2>2. DiscoverSkills(entries) = {q[k] : k \in Unique(q, 1..n)}
    BY <2>1, SkillsTaken
  <2>3. PICK order : Rearranged(n, entries, order, q)
    BY <2>1, SortedRearranged
  <2> HIDE DEF q, n
  <2>4. \A k \in 1..n : q[k] = entries[order[k]] /\ order[k] \in 1..n
    BY <2>3 DEF Rearranged
  <2>5. \A k \in 1..n : k \in Unique(q, 1..n) <=> order[k] \in Unique(entries, 1..n)
    <3> TAKE k \in 1..n
    <3>1. \A j \in 1..n : j # k <=> order[j] # order[k]
      BY <2>3 DEF Rearranged
    <3>2. ASSUME Alone(q, 1..n, k), NEW i \in (1..n) \ {order[k]}, Works(entries[i])
          PROVE  entries[i].offers # entries[order[k]].offers
      <4>1. PICK j \in 1..n : order[j] = i
        BY <2>3 DEF Rearranged
      <4>2. j \in (1..n) \ {k} /\ q[j] = entries[i] /\ q[k] = entries[order[k]]
        BY <2>4, <3>1, <4>1
      <4> QED
        BY <3>2, <4>2 DEF Alone
    <3>3. ASSUME Alone(entries, 1..n, order[k]), NEW j \in (1..n) \ {k}, Works(q[j])
          PROVE  q[j].offers # q[k].offers
      <4>1. /\ order[j] \in (1..n) \ {order[k]}
            /\ q[j] = entries[order[j]] /\ q[k] = entries[order[k]]
        BY <2>4, <3>1
      <4> QED
        BY <3>3, <4>1 DEF Alone
    <3>4. Alone(q, 1..n, k) <=> Alone(entries, 1..n, order[k])
      BY <3>2, <3>3 DEF Alone
    <3> QED
      BY <2>4, <3>4 DEF Unique
  <2>6. {q[k] : k \in Unique(q, 1..n)} = {entries[k] : k \in Unique(entries, 1..n)}
    <3>1. ASSUME NEW k \in Unique(q, 1..n) PROVE q[k] \in {entries[i] : i \in Unique(entries, 1..n)}
      <4>1. k \in 1..n
        BY DEF Unique
      <4> QED
        BY <2>4, <2>5, <4>1
    <3>2. ASSUME NEW i \in Unique(entries, 1..n) PROVE entries[i] \in {q[k] : k \in Unique(q, 1..n)}
      <4>1. PICK k \in 1..n : order[k] = i
        BY <2>3 DEF Unique, Rearranged
      <4> QED
        BY <2>4, <2>5, <4>1
    <3> QED
      BY <3>1, <3>2
  <2>7. Unique(entries, 1..n) = {k \in Working :
            \A j \in Working \ {k} : entries[j].offers # entries[k].offers}
    BY <2>1 DEF Unique, Alone, Working
  <2> QED
    BY <2>2, <2>6, <2>7
<1> QED
  BY <1>1, SubjectInvariant, PTL

-----------------------------------------------------------------------------
(* Panels and tools. *)

Ordered(s) == \A j, k \in DOMAIN s : j < k => s[j].name < s[k].name

UpTo(eps, k) == {j \in Listed(eps) : eps[j].name <= eps[k].name}

(* The listed entries have places of their own, in order of name, *)
LEMMA ListedPlaces ==
    ASSUME NEW n \in Nat, NEW eps \in [1..n -> Entries]
    PROVE  /\ Cardinality(Listed(eps)) \in Nat
           /\ \A k \in Listed(eps) : Cardinality(UpTo(eps, k)) \in 1..Cardinality(Listed(eps))
           /\ \A j, k \in Listed(eps) :
                eps[j].name < eps[k].name => Cardinality(UpTo(eps, j)) < Cardinality(UpTo(eps, k))
           /\ \A m \in 1..Cardinality(Listed(eps)) :
                \E k \in Listed(eps) : Cardinality(UpTo(eps, k)) = m
<1> DEFINE I == Listed(eps)
           c == Cardinality(I)
           place == [k \in I |-> Cardinality(UpTo(eps, k))]
<1>1. IsFiniteSet(1..n) /\ I \subseteq 1..n /\ UpTo(eps, 1) \subseteq I
  BY FS_Interval DEF Listed, UpTo
<1>2. IsFiniteSet(I) /\ c \in Nat
  BY <1>1, FS_Subset, FS_CardinalityType
<1>3. \A k \in I : eps[k].name \in Nat
  BY <1>1, SubjectsAssumption DEF Entries
<1>4. \A j, k \in I : eps[j].name = eps[k].name => j = k
  BY <1>1 DEF Listed
<1>5. \A k \in I : k \in UpTo(eps, k) /\ UpTo(eps, k) \in SUBSET I
  BY <1>3 DEF UpTo
<1>6. \A k \in I : IsFiniteSet(UpTo(eps, k)) /\ Cardinality(UpTo(eps, k)) \in Nat
                   /\ Cardinality(UpTo(eps, k)) <= c
  BY <1>2, <1>5, FS_Subset, FS_CardinalityType
<1>7. \A k \in I : Cardinality(UpTo(eps, k)) \in 1..c
  <2> TAKE k \in I
  <2>1. Cardinality(UpTo(eps, k)) # 0
    BY <1>5, <1>6, FS_EmptySet
  <2> QED
    BY <1>2, <1>6, <2>1
<1>8. ASSUME NEW j \in I, NEW k \in I, eps[j].name < eps[k].name
      PROVE  Cardinality(UpTo(eps, j)) < Cardinality(UpTo(eps, k))
  <2>1. UpTo(eps, j) \in SUBSET UpTo(eps, k) /\ UpTo(eps, j) # UpTo(eps, k)
    BY <1>3, <1>5, <1>8 DEF UpTo
  <2>2. /\ Cardinality(UpTo(eps, j)) <= Cardinality(UpTo(eps, k))
        /\ Cardinality(UpTo(eps, j)) # Cardinality(UpTo(eps, k))
    BY <1>6, <2>1, FS_Subset
  <2> QED
    BY <1>6, <2>2
<1>9. place \in Injection(I, 1..c)
  <2>1. ASSUME NEW j \in I, NEW k \in I, place[j] = place[k] PROVE j = k
    <3>1. ~(eps[j].name < eps[k].name) /\ ~(eps[k].name < eps[j].name)
      BY <1>6, <1>8, <2>1
    <3> QED
      BY <1>3, <1>4, <3>1
  <2>2. place \in [I -> 1..c]
    BY <1>7
  <2> HIDE DEF place, I
  <2> QED
    BY <2>1, <2>2 DEF Injection, IsInjective
<1>10. place \in Surjection(I, 1..c)
  <2>1. IsFiniteSet(1..c) /\ Cardinality(1..c) = c
    <3>1. 1 \in Int /\ c \in Int /\ c \in Nat
      BY <1>2
    <3> HIDE DEF c
    <3>2. IsFiniteSet(1..c) /\ Cardinality(1..c) = IF 1 > c THEN 0 ELSE c - 1 + 1
      BY <3>1, FS_Interval
    <3> QED
      BY <3>1, <3>2
  <2> HIDE DEF place, I
  <2> QED
    BY <1>9, <2>1, FS_Injection DEF c
<1>11. \A m \in 1..c : \E k \in I : place[k] = m
  BY <1>10 DEF Surjection
<1> QED
  BY <1>2, <1>7, <1>8, <1>11

(* so that they are listed in that order, and nothing else is. *)
LEMMA ListedByName ==
    ASSUME NEW n \in Nat, NEW eps \in [1..n -> Entries]
    PROVE  /\ ListByName(eps) \in Seq(Entries) /\ Ordered(ListByName(eps))
           /\ ToSet(ListByName(eps)) = {eps[k] : k \in Listed(eps)}
<1> DEFINE I == Listed(eps)
           c == Cardinality(I)
           place(k) == Cardinality(UpTo(eps, k))
           at(m) == CHOOSE k \in I : place(k) = m
<1>1. /\ c \in Nat
      /\ \A k \in I : place(k) \in 1..c
      /\ \A j, k \in I : eps[j].name < eps[k].name => place(j) < place(k)
      /\ \A m \in 1..c : \E k \in I : place(k) = m
  BY ListedPlaces
<1>2. I \subseteq 1..n /\ \A j, k \in I : eps[j].name = eps[k].name => j = k
  BY DEF Listed
<1>3. ListByName(eps) = [m \in 1..c |-> eps[at(m)]]
  BY Zenon DEF ListByName, UpTo
<1> HIDE DEF I, place, c
<1>4. \A m \in 1..c : at(m) \in I /\ place(at(m)) = m
  <2> TAKE m \in 1..c
  <2>1. \E k \in I : place(k) = m
    BY <1>1
  <2> QED
    BY <2>1
<1> HIDE DEF at
<1>5. \A k \in I : eps[k] \in Entries /\ eps[k].name \in Nat
  BY <1>2, SubjectsAssumption DEF Entries
<1>6. ListByName(eps) \in Seq(Entries) /\ DOMAIN ListByName(eps) = 1..c
  <2>1. ListByName(eps) \in [1..c -> Entries]
    BY <1>3, <1>4, <1>5
  <2> QED
    BY <1>1, <2>1, TableIsSeq
<1>7. ASSUME NEW j \in 1..c, NEW k \in 1..c, j < k
      PROVE  ListByName(eps)[j].name < ListByName(eps)[k].name
  <2>1. ~(eps[at(k)].name < eps[at(j)].name)
    BY <1>1, <1>4, <1>7
  <2>2. eps[at(k)].name # eps[at(j)].name
    <3>1. at(j) # at(k) /\ at(j) \in I /\ at(k) \in I
      BY <1>4, <1>7
    <3> QED
      BY <1>2, <3>1
  <2>3. eps[at(j)].name < eps[at(k)].name
    BY <1>4, <1>5, <2>1, <2>2
  <2> QED
    BY <1>3, <2>3
<1>8. \A k \in I : at(place(k)) = k
  <2> TAKE k \in I
  <2>1. at(place(k)) \in I /\ place(at(place(k))) = place(k)
    BY <1>1, <1>4
  <2>2. ~(eps[at(place(k))].name < eps[k].name) /\ ~(eps[k].name < eps[at(place(k))].name)
    BY <1>1, <2>1
  <2>3. eps[at(place(k))].name = eps[k].name
    BY <1>5, <2>1, <2>2
  <2> QED
    BY <1>2, <2>1, <2>3
<1>9. ToSet(ListByName(eps)) = {eps[k] : k \in I}
  <2>1. ToSet(ListByName(eps)) = {eps[at(m)] : m \in 1..c}
    BY <1>3 DEF ToSet
  <2> QED
    BY <1>1, <1>4, <1>8, <2>1
<1> QED
  BY <1>6, <1>7, <1>9 DEF Ordered, I

(* The tools taken one after the other. *)
ToolsTaken(q, st) ==
    /\ st \in [0..Len(q) -> Seq(Entries)] /\ st[0] = <<>>
    /\ st[Len(q)] = FoldLeft(TakeTool, <<>>, q)
    /\ \A k \in 1..Len(q) : st[k] = TakeTool(st[k - 1], q[k])

(* Going through the listed tools ends with the fold of the model. *)
LEMMA ToolSteps ==
    ASSUME NEW q \in Seq(Entries) PROVE \E st : ToolsTaken(q, st)
<1> DEFINE n == Len(q)
           P == Seq(Entries)
           base == <<>>
           F == [k \in 1..n |-> [p \in P |-> TakeTool(p, q[k])]]
           Grown(w, s) == IF s = {} THEN base ELSE TakeTool(w[s \ {Max(s)}], q[Max(s)])
           body(w) == [s \in SUBSET DOMAIN q |-> Grown(w, s)]
           iter == CHOOSE w : w = body(w)
<1>1. n \in Nat /\ DOMAIN q = 1..n /\ \A k \in 1..n : q[k] \in Entries
  BY LenProperties, ElementOfSeq
<1>2. base \in P /\ \A p \in P, ep \in Entries : TakeTool(p, ep) \in P
  BY EmptySeq, AppendProperties DEF TakeTool
<1>3. Stepping(P, base, n, F)
  <2> HIDE DEF P, base
  <2> QED
    BY <1>1, <1>2 DEF Stepping
<1>4. FoldLeft(TakeTool, <<>>, q) = iter[DOMAIN q]
  BY Zenon DEF FoldLeft, MapThenFoldSet
<1> HIDE DEF P, base
<1>5. iter = body(iter)
  <2>1. PICK w \in [SUBSET (1..n) -> P] : Walked(P, base, n, F, w)
    <3> HIDE DEF F, n
    <3> QED
      BY <1>3, FoldExists
  <2>2. ASSUME NEW s \in SUBSET (1..n) PROVE w[s] = Grown(w, s)
    <3>1. CASE s # {}
      <4>1. Max(s) \in 1..n /\ s \ {Max(s)} \in SUBSET (1..n)
        BY <1>1, <3>1, MaxOfFirst
      <4>2. w[s \ {Max(s)}] \in P
        BY <4>1
      <4> QED
        BY <2>1, <3>1, <4>1, <4>2 DEF Walked
    <3> QED
      BY <2>1, <3>1 DEF Walked
  <2>3. w = body(w)
    BY <1>1, <2>2
  <2> HIDE DEF body
  <2> QED
    BY <2>3
<1>6. \A s \in SUBSET (1..n) : iter[s] = Grown(iter, s)
  <2> HIDE DEF iter, Grown, n
  <2> QED
    BY <1>1, <1>5
<1> HIDE DEF iter
<1>7. Retraced(P, base, n, F, iter)
  <2>1. \A s \in SUBSET (1..n) : s # {} => Max(s) \in 1..n
    BY <1>1, MaxOfFirst
  <2> QED
    BY <1>6, <2>1 DEF Retraced
<1>8. PICK st : Sequenced(P, base, n, F, st) /\ st[n] = iter[1..n]
  <2> HIDE DEF F, n
  <2> QED
    BY <1>3, <1>7, FoldSteps
<1>9. \A k \in 1..n : st[k] = TakeTool(st[k - 1], q[k])
  <2>1. \A k \in 1..n : k - 1 \in 0..n
    BY <1>1
  <2> QED
    BY <1>8, <2>1 DEF Sequenced
<1>10. ToolsTaken(q, st)
  BY <1>1, <1>4, <1>8, <1>9 DEF Sequenced, ToolsTaken, P, base
<1> QED
  BY <1>10

NoPanels == [ids |-> {}, classes |-> <<>>]
PanelStates == [ids : SUBSET (Ids \cup {Broken}), classes : Seq(Entries)]

(* The panels taken one after the other. *)
PanelsTaken(q, st) ==
    /\ st \in [0..Len(q) -> PanelStates] /\ st[0] = NoPanels
    /\ st[Len(q)] = FoldLeft(TakePanel, NoPanels, q)
    /\ \A k \in 1..Len(q) : st[k] = TakePanel(st[k - 1], q[k])

(* So does going through the listed panels, *)
LEMMA PanelSteps ==
    ASSUME NEW q \in Seq(Entries) PROVE \E st : PanelsTaken(q, st)
<1> DEFINE n == Len(q)
           P == PanelStates
           base == NoPanels
           F == [k \in 1..n |-> [p \in P |-> TakePanel(p, q[k])]]
           Grown(w, s) == IF s = {} THEN base ELSE TakePanel(w[s \ {Max(s)}], q[Max(s)])
           body(w) == [s \in SUBSET DOMAIN q |-> Grown(w, s)]
           iter == CHOOSE w : w = body(w)
<1>1. n \in Nat /\ DOMAIN q = 1..n /\ \A k \in 1..n : q[k] \in Entries
  BY LenProperties, ElementOfSeq
<1>2. base \in P /\ \A p \in P, ep \in Entries : TakePanel(p, ep) \in P
  BY EmptySeq, AppendProperties DEF TakePanel, PanelStates, NoPanels, Entries
<1>3. Stepping(P, base, n, F)
  <2> HIDE DEF P, base
  <2> QED
    BY <1>1, <1>2 DEF Stepping
<1>4. FoldLeft(TakePanel, NoPanels, q) = iter[DOMAIN q]
  BY Zenon DEF FoldLeft, MapThenFoldSet
<1> HIDE DEF P, base
<1>5. iter = body(iter)
  <2>1. PICK w \in [SUBSET (1..n) -> P] : Walked(P, base, n, F, w)
    <3> HIDE DEF F, n
    <3> QED
      BY <1>3, FoldExists
  <2>2. ASSUME NEW s \in SUBSET (1..n) PROVE w[s] = Grown(w, s)
    <3>1. CASE s # {}
      <4>1. Max(s) \in 1..n /\ s \ {Max(s)} \in SUBSET (1..n)
        BY <1>1, <3>1, MaxOfFirst
      <4>2. w[s \ {Max(s)}] \in P
        BY <4>1
      <4> QED
        BY <2>1, <3>1, <4>1, <4>2 DEF Walked
    <3> QED
      BY <2>1, <3>1 DEF Walked
  <2>3. w = body(w)
    BY <1>1, <2>2
  <2> HIDE DEF body
  <2> QED
    BY <2>3
<1>6. \A s \in SUBSET (1..n) : iter[s] = Grown(iter, s)
  <2> HIDE DEF iter, Grown, n
  <2> QED
    BY <1>1, <1>5
<1> HIDE DEF iter
<1>7. Retraced(P, base, n, F, iter)
  <2>1. \A s \in SUBSET (1..n) : s # {} => Max(s) \in 1..n
    BY <1>1, MaxOfFirst
  <2> QED
    BY <1>6, <2>1 DEF Retraced
<1>8. PICK st : Sequenced(P, base, n, F, st) /\ st[n] = iter[1..n]
  <2> HIDE DEF F, n
  <2> QED
    BY <1>3, <1>7, FoldSteps
<1>9. \A k \in 1..n : st[k] = TakePanel(st[k - 1], q[k])
  <2>1. \A k \in 1..n : k - 1 \in 0..n
    BY <1>1
  <2> QED
    BY <1>8, <2>1 DEF Sequenced
<1>10. PanelsTaken(q, st)
  BY <1>1, <1>4, <1>8, <1>9 DEF Sequenced, PanelsTaken, P, base
<1> QED
  BY <1>10

Accepted(native, plugins) ==
    LET accept(accepted, tool) == AcceptTool(native, accepted, tool)
    IN  FoldLeft(accept, <<>>, plugins)

(* The plug-ins' tools accepted one after the other. *)
ToolsAccepted(native, q, st) ==
    /\ st \in [0..Len(q) -> Seq(Entries)] /\ st[0] = <<>>
    /\ st[Len(q)] = Accepted(native, q)
    /\ \A k \in 1..Len(q) : st[k] = AcceptTool(native, st[k - 1], q[k])

(* and accepting the plug-ins' tools. *)
LEMMA AcceptSteps ==
    ASSUME NEW native, NEW q \in Seq(Entries) PROVE \E st : ToolsAccepted(native, q, st)
<1> DEFINE n == Len(q)
           P == Seq(Entries)
           base == <<>>
           F == [k \in 1..n |-> [p \in P |-> AcceptTool(native, p, q[k])]]
           Grown(w, s) == IF s = {} THEN base ELSE AcceptTool(native, w[s \ {Max(s)}], q[Max(s)])
           body(w) == [s \in SUBSET DOMAIN q |-> Grown(w, s)]
           iter == CHOOSE w : w = body(w)
<1>1. n \in Nat /\ DOMAIN q = 1..n /\ \A k \in 1..n : q[k] \in Entries
  BY LenProperties, ElementOfSeq
<1>2. base \in P /\ \A p \in P, ep \in Entries : AcceptTool(native, p, ep) \in P
  BY EmptySeq, AppendProperties DEF AcceptTool
<1>3. Stepping(P, base, n, F)
  <2> HIDE DEF P, base
  <2> QED
    BY <1>1, <1>2 DEF Stepping
<1>4. Accepted(native, q) = iter[DOMAIN q]
  BY Zenon DEF Accepted, FoldLeft, MapThenFoldSet
<1> HIDE DEF P, base
<1>5. iter = body(iter)
  <2>1. PICK w \in [SUBSET (1..n) -> P] : Walked(P, base, n, F, w)
    <3> HIDE DEF F, n
    <3> QED
      BY <1>3, FoldExists
  <2>2. ASSUME NEW s \in SUBSET (1..n) PROVE w[s] = Grown(w, s)
    <3>1. CASE s # {}
      <4>1. Max(s) \in 1..n /\ s \ {Max(s)} \in SUBSET (1..n)
        BY <1>1, <3>1, MaxOfFirst
      <4>2. w[s \ {Max(s)}] \in P
        BY <4>1
      <4> QED
        BY <2>1, <3>1, <4>1, <4>2 DEF Walked
    <3> QED
      BY <2>1, <3>1 DEF Walked
  <2>3. w = body(w)
    BY <1>1, <2>2
  <2> HIDE DEF body
  <2> QED
    BY <2>3
<1>6. \A s \in SUBSET (1..n) : iter[s] = Grown(iter, s)
  <2> HIDE DEF iter, Grown, n
  <2> QED
    BY <1>1, <1>5
<1> HIDE DEF iter
<1>7. Retraced(P, base, n, F, iter)
  <2>1. \A s \in SUBSET (1..n) : s # {} => Max(s) \in 1..n
    BY <1>1, MaxOfFirst
  <2> QED
    BY <1>6, <2>1 DEF Retraced
<1>8. PICK st : Sequenced(P, base, n, F, st) /\ st[n] = iter[1..n]
  <2> HIDE DEF F, n
  <2> QED
    BY <1>3, <1>7, FoldSteps
<1>9. \A k \in 1..n : st[k] = AcceptTool(native, st[k - 1], q[k])
  <2>1. \A k \in 1..n : k - 1 \in 0..n
    BY <1>1
  <2> QED
    BY <1>8, <2>1 DEF Sequenced
<1>10. ToolsAccepted(native, q, st)
  BY <1>1, <1>4, <1>8, <1>9 DEF Sequenced, ToolsAccepted, P, base
<1> QED
  BY <1>10

(* The tools that are found are those listed that work. *)
LEMMA ToolsListed ==
    ASSUME NEW q \in Seq(Entries)
    PROVE  LET tools == FoldLeft(TakeTool, <<>>, q)
           IN  /\ tools \in Seq(Entries)
               /\ \A k \in DOMAIN tools : Works(tools[k]) /\ tools[k] \in ToSet(q)
<1> DEFINE n == Len(q)
           Fine(tools) == \A k \in DOMAIN tools : Works(tools[k]) /\ tools[k] \in ToSet(q)
<1>1. PICK st : ToolsTaken(q, st)
  BY ToolSteps
<1>2. n \in Nat /\ DOMAIN q = 1..n
  BY LenProperties
<1>3. /\ st \in [0..n -> Seq(Entries)] /\ st[0] = <<>>
      /\ st[n] = FoldLeft(TakeTool, <<>>, q)
      /\ \A k \in 1..n : st[k] = TakeTool(st[k - 1], q[k])
  BY <1>1 DEF ToolsTaken
<1> DEFINE S == {k \in 0..n : Fine(st[k])}
<1>4. 0 \in S
  BY <1>2, <1>3
<1>5. ASSUME NEW k \in 1..n, k - 1 \in S PROVE k \in S
  <2> DEFINE before == st[k - 1]
  <2>1. before \in Seq(Entries) /\ Fine(before) /\ k \in 0..n
    BY <1>2, <1>3, <1>5
  <2>2. q[k] \in ToSet(q)
    BY <1>2 DEF ToSet
  <2>3. st[k] = TakeTool(before, q[k])
    BY <1>3
  <2> HIDE DEF before
  <2>4. Fine(TakeTool(before, q[k]))
    <3>1. CASE Works(q[k])
      <4>1. TakeTool(before, q[k]) = Append(before, q[k])
        BY <3>1 DEF TakeTool
      <4>2. /\ DOMAIN Append(before, q[k]) = 1..(Len(before) + 1)
            /\ DOMAIN before = 1..Len(before) /\ Len(before) \in Nat
            /\ Append(before, q[k])[Len(before) + 1] = q[k]
            /\ \A i \in 1..Len(before) : Append(before, q[k])[i] = before[i]
        <5>1. q[k] \in Entries
          BY <1>2, ElementOfSeq
        <5> QED
          BY <2>1, <5>1, AppendProperties, LenProperties
      <4> QED
        BY <2>1, <2>2, <3>1, <4>1, <4>2
    <3>2. CASE ~Works(q[k])
      BY <2>1, <3>2 DEF TakeTool
    <3> QED
      BY <3>1, <3>2
  <2> QED
    BY <2>1, <2>3, <2>4
<1>6. n \in S
  <2> HIDE DEF S
  <2>1. \A k \in 0..n : k \in S
    BY <1>2, <1>4, <1>5, CountUp
  <2> QED
    BY <1>2, <2>1
<1> QED
  BY <1>2, <1>3, <1>6

(* The first of the entries, up to the k-th, that have an id. *)
Firsts(q, k) ==
    {j \in 1..k : Works(q[j]) /\ \A i \in 1..(j - 1) : Works(q[i]) => q[i].offers # q[j].offers}

(* What iter_plugin_panels has taken up to the k-th. *)
PanelsUpTo(q, k, taken) ==
    /\ taken.ids = {q[j].offers : j \in {j \in 1..k : Works(q[j])}}
    /\ Ordered(taken.classes)
    /\ \A i \in DOMAIN taken.classes : \E j \in 1..k : taken.classes[i] = q[j]
    /\ ToSet(taken.classes) = {q[j] : j \in Firsts(q, k)}

(* The next one keeps this: its id is known, or it is the first. *)
LEMMA PanelStep ==
    ASSUME NEW q \in Seq(Entries), Ordered(q), NEW k \in 1..Len(q),
           NEW before \in PanelStates, PanelsUpTo(q, k - 1, before)
    PROVE  PanelsUpTo(q, k, TakePanel(before, q[k]))
<1> DEFINE after == TakePanel(before, q[k])
           m == Len(before.classes)
<1>1. /\ before.ids = {q[j].offers : j \in {j \in 1..(k - 1) : Works(q[j])}}
      /\ Ordered(before.classes)
      /\ \A i \in DOMAIN before.classes : \E j \in 1..(k - 1) : before.classes[i] = q[j]
      /\ ToSet(before.classes) = {q[j] : j \in Firsts(q, k - 1)}
  BY DEF PanelsUpTo
<1>2. /\ before.classes \in Seq(Entries) /\ m \in Nat /\ DOMAIN before.classes = 1..m
      /\ k \in Nat /\ DOMAIN q = 1..Len(q) /\ q[k] \in Entries
  BY LenProperties, ElementOfSeq DEF PanelStates
<1>3. 1..k = (1..(k - 1)) \cup {k} /\ \A j \in 1..(k - 1) : j \in DOMAIN q /\ j < k
  BY <1>2
<1>4. CASE ~Works(q[k])
  <2>1. after = before
    BY <1>4 DEF TakePanel
  <2>2. {j \in 1..k : Works(q[j])} = {j \in 1..(k - 1) : Works(q[j])}
    BY <1>3, <1>4
  <2>3. Firsts(q, k) = Firsts(q, k - 1)
    BY <1>3, <1>4 DEF Firsts
  <2> QED
    BY <1>1, <1>3, <2>1, <2>2, <2>3 DEF PanelsUpTo
<1>5. CASE Works(q[k]) /\ q[k].offers \in before.ids
  <2>1. after = before
    BY <1>5 DEF TakePanel
  <2>2. {q[j].offers : j \in {j \in 1..k : Works(q[j])}} = before.ids
    BY <1>1, <1>3, <1>5
  <2>3. Firsts(q, k) = Firsts(q, k - 1)
    BY <1>1, <1>3, <1>5 DEF Firsts
  <2> QED
    BY <1>1, <1>3, <2>1, <2>2, <2>3 DEF PanelsUpTo
<1>6. CASE Works(q[k]) /\ q[k].offers \notin before.ids
  <2>1. after = [ids |-> before.ids \cup {q[k].offers}, classes |-> Append(before.classes, q[k])]
    BY <1>6 DEF TakePanel
  <2>2. after.ids = {q[j].offers : j \in {j \in 1..k : Works(q[j])}}
    BY <1>1, <1>3, <1>6, <2>1
  <2>3. Firsts(q, k) = Firsts(q, k - 1) \cup {k}
    BY <1>1, <1>3, <1>6 DEF Firsts
  <2>4. /\ DOMAIN after.classes = 1..(m + 1) /\ after.classes[m + 1] = q[k]
        /\ \A i \in 1..m : after.classes[i] = before.classes[i]
    BY <1>2, <2>1, AppendProperties
  <2>5. \A i \in DOMAIN after.classes : \E j \in 1..k : after.classes[i] = q[j]
    BY <1>1, <1>2, <1>3, <2>4
  <2>6. Ordered(after.classes)
    <3>1. ASSUME NEW i \in 1..m PROVE after.classes[i].name < after.classes[m + 1].name
      <4>1. PICK j \in 1..(k - 1) : before.classes[i] = q[j]
        BY <1>1, <1>2
      <4>2. q[j].name < q[k].name
        BY <1>3, <4>1 DEF Ordered
      <4> QED
        BY <2>4, <4>1, <4>2
    <3>2. ASSUME NEW i \in 1..m, NEW j \in 1..m, i < j
          PROVE  after.classes[i].name < after.classes[j].name
      BY <1>1, <1>2, <2>4, <3>2 DEF Ordered
    <3>3. \A i, j \in 1..(m + 1) : i < j => i \in 1..m /\ (j \in 1..m \/ j = m + 1)
      BY <1>2
    <3> QED
      BY <2>4, <3>1, <3>2, <3>3 DEF Ordered
  <2>7. ToSet(after.classes) = ToSet(before.classes) \cup {q[k]}
    <3>1. ToSet(after.classes) = {after.classes[i] : i \in 1..(m + 1)}
      BY <2>4 DEF ToSet
    <3>2. ToSet(before.classes) = {before.classes[i] : i \in 1..m}
      BY <1>2 DEF ToSet
    <3>3. 1..(m + 1) = (1..m) \cup {m + 1}
      BY <1>2
    <3> DEFINE new == after.classes  old == before.classes
    <3>4. /\ ToSet(new) = {new[i] : i \in (1..m) \cup {m + 1}}
          /\ ToSet(old) = {old[i] : i \in 1..m}
          /\ new[m + 1] = q[k] /\ \A i \in 1..m : new[i] = old[i]
      BY <2>4, <3>1, <3>2, <3>3
    <3> HIDE DEF after, new, old, m
    <3>5. ToSet(new) = ToSet(old) \cup {q[k]}
      BY <3>4
    <3> QED
      BY <3>5 DEF new, old
  <2>8. ToSet(after.classes) = {q[j] : j \in Firsts(q, k)}
    BY <1>1, <2>3, <2>7
  <2> QED
    BY <2>2, <2>5, <2>6, <2>8 DEF PanelsUpTo
<1> QED
  BY <1>4, <1>5, <1>6

(* Of the panels listed, each id's first is taken, in order of name. *)
LEMMA PanelsListed ==
    ASSUME NEW q \in Seq(Entries), Ordered(q)
    PROVE  LET taken == FoldLeft(TakePanel, NoPanels, q)
           IN  taken \in PanelStates /\ PanelsUpTo(q, Len(q), taken)
<1> DEFINE n == Len(q)
<1>1. PICK st : PanelsTaken(q, st)
  BY PanelSteps
<1>2. n \in Nat
  BY LenProperties
<1>3. /\ st \in [0..n -> PanelStates] /\ st[0] = NoPanels
      /\ st[n] = FoldLeft(TakePanel, NoPanels, q)
      /\ \A k \in 1..n : st[k] = TakePanel(st[k - 1], q[k])
  BY <1>1 DEF PanelsTaken
<1> DEFINE S == {k \in 0..n : PanelsUpTo(q, k, st[k])}
<1>4. 0 \in S
  <2>1. PanelsUpTo(q, 0, NoPanels)
    BY DEF PanelsUpTo, NoPanels, Ordered, ToSet, Firsts
  <2> QED
    BY <1>2, <1>3, <2>1
<1>5. ASSUME NEW k \in 1..n, k - 1 \in S PROVE k \in S
  <2>1. st[k - 1] \in PanelStates /\ PanelsUpTo(q, k - 1, st[k - 1]) /\ k \in 0..n
    BY <1>2, <1>3, <1>5
  <2>2. PanelsUpTo(q, k, TakePanel(st[k - 1], q[k]))
    BY <2>1, PanelStep
  <2> QED
    BY <1>3, <2>1, <2>2
<1>6. n \in S
  <2> HIDE DEF S
  <2>1. \A k \in 0..n : k \in S
    BY <1>2, <1>4, <1>5, CountUp
  <2> QED
    BY <1>2, <2>1
<1> QED
  BY <1>2, <1>3, <1>6

(* Tools whose keys are all different. *)
KeysDiffer(tools) == \A j, k \in DOMAIN tools : tools[j].offers = tools[k].offers => j = k

(* What ComposedToolsSpec has accepted up to the k-th plug-in. *)
AcceptedUpTo(native, q, k, accepted) ==
    /\ KeysDiffer(accepted)
    /\ KeysOf(accepted) \cap KeysOf(native) = {}
    /\ KeysOf(native) \cup KeysOf(accepted) = KeysOf(native) \cup {q[j].offers : j \in 1..k}

(* The next one keeps this: its key is taken, or it is accepted. *)
LEMMA AcceptStep ==
    ASSUME NEW native, NEW q \in Seq(Entries), NEW k \in 1..Len(q),
           NEW before \in Seq(Entries), AcceptedUpTo(native, q, k - 1, before)
    PROVE  AcceptedUpTo(native, q, k, AcceptTool(native, before, q[k]))
<1> DEFINE after == AcceptTool(native, before, q[k])
           m == Len(before)
<1>1. /\ KeysDiffer(before) /\ KeysOf(before) \cap KeysOf(native) = {}
      /\ KeysOf(native) \cup KeysOf(before) = KeysOf(native) \cup {q[j].offers : j \in 1..(k - 1)}
  BY DEF AcceptedUpTo
<1>2. m \in Nat /\ DOMAIN before = 1..m /\ k \in Nat /\ q[k] \in Entries
  BY LenProperties, ElementOfSeq
<1>3. {q[j].offers : j \in 1..k} = {q[j].offers : j \in 1..(k - 1)} \cup {q[k].offers}
  BY <1>2
<1>4. CASE q[k].offers \in KeysOf(native) \cup KeysOf(before)
  <2>1. after = before
    BY <1>4 DEF AcceptTool
  <2> HIDE DEF after
  <2>2. AcceptedUpTo(native, q, k, after)
    BY <1>1, <1>3, <1>4, <2>1 DEF AcceptedUpTo
  <2> QED
    BY <2>2 DEF after
<1>5. CASE q[k].offers \notin KeysOf(native) \cup KeysOf(before)
  <2>1. after = Append(before, q[k])
    BY <1>5 DEF AcceptTool
  <2>2. /\ DOMAIN after = 1..(m + 1) /\ after[m + 1] = q[k]
        /\ \A i \in 1..m : after[i] = before[i]
    BY <1>2, <2>1, AppendProperties
  <2>3. 1..(m + 1) = (1..m) \cup {m + 1}
    BY <1>2
  <2> HIDE DEF after
  <2>4. KeysOf(after) = KeysOf(before) \cup {q[k].offers}
    BY <1>2, <2>2, <2>3 DEF KeysOf
  <2>5. \A i \in 1..m : before[i].offers # q[k].offers
    BY <1>2, <1>5 DEF KeysOf
  <2>6. KeysDiffer(after)
    BY <1>1, <1>2, <2>2, <2>3, <2>5 DEF KeysDiffer
  <2>7. AcceptedUpTo(native, q, k, after)
    BY <1>1, <1>3, <1>5, <2>4, <2>6 DEF AcceptedUpTo
  <2> QED
    BY <2>7 DEF after
<1> QED
  BY <1>4, <1>5

(* So the accepted tools have keys of their own that were free. *)
LEMMA ToolsFree ==
    ASSUME NEW native, NEW q \in Seq(Entries)
    PROVE  Accepted(native, q) \in Seq(Entries) /\ AcceptedUpTo(native, q, Len(q), Accepted(native, q))
<1> DEFINE n == Len(q)
<1>1. PICK st : ToolsAccepted(native, q, st)
  BY AcceptSteps
<1>2. n \in Nat
  BY LenProperties
<1>3. /\ st \in [0..n -> Seq(Entries)] /\ st[0] = <<>>
      /\ st[n] = Accepted(native, q)
      /\ \A k \in 1..n : st[k] = AcceptTool(native, st[k - 1], q[k])
  BY <1>1 DEF ToolsAccepted
<1> DEFINE S == {k \in 0..n : AcceptedUpTo(native, q, k, st[k])}
<1>4. 0 \in S
  <2>1. AcceptedUpTo(native, q, 0, <<>>)
    BY DEF AcceptedUpTo, KeysDiffer, KeysOf
  <2> QED
    BY <1>2, <1>3, <2>1
<1>5. ASSUME NEW k \in 1..n, k - 1 \in S PROVE k \in S
  <2>1. st[k - 1] \in Seq(Entries) /\ AcceptedUpTo(native, q, k - 1, st[k - 1]) /\ k \in 0..n
    BY <1>2, <1>3, <1>5
  <2>2. AcceptedUpTo(native, q, k, AcceptTool(native, st[k - 1], q[k]))
    BY <2>1, AcceptStep
  <2> QED
    BY <1>3, <2>1, <2>2
<1>6. n \in S
  <2> HIDE DEF S
  <2>1. \A k \in 0..n : k \in S
    BY <1>2, <1>4, <1>5, CountUp
  <2> QED
    BY <1>2, <2>1
<1> QED
  BY <1>2, <1>3, <1>6

(* A tool is what its key finds, where keys differ. *)
LEMMA KeyFinds ==
    ASSUME NEW T, NEW tools \in Seq(T), KeysDiffer(tools), NEW k \in DOMAIN tools
    PROVE  ToolFor(tools, tools[k].offers) = tools[k]
<1> DEFINE I == {i \in 1..Len(tools) : tools[i].offers = tools[k].offers}
<1>1. Len(tools) \in Nat /\ DOMAIN tools = 1..Len(tools)
  BY LenProperties
<1>2. I = {k}
  BY <1>1 DEF KeysDiffer
<1>3. SelectLastInSeq(tools, LAMBDA t : t.offers = tools[k].offers) = IF I # {} THEN Max(I) ELSE 0
  BY Zenon DEF SelectLastInSeq
<1>4. Max(I) = k
  <2>1. I \in SUBSET (1..Len(tools)) /\ I # {}
    BY <1>2
  <2> HIDE DEF I
  <2>2. Max(I) \in I
    BY <1>1, <2>1, MaxOfFirst
  <2> QED
    BY <1>2, <2>2
<1>5. ToolFor(tools, tools[k].offers) = tools[IF I # {} THEN Max(I) ELSE 0]
  BY Zenon DEF ToolFor, SelectLastInSeq
<1> HIDE DEF I
<1> QED
  BY <1>2, <1>4, <1>5

(* An entry that is listed and works is what its name loads. *)
LEMMA NameLoads ==
    ASSUME NEW n \in Nat, NEW eps \in [1..n -> Entries],
           NEW ep \in ToSet(ListByName(eps)), Works(ep)
    PROVE  LoadByName(eps, ep.name) = ep
<1> DEFINE q == ListByName(eps)
           I == {i \in 1..Len(q) : q[i].name = ep.name}
           at == IF I # {} THEN Min(I) ELSE 0
<1>1. q \in Seq(Entries) /\ Ordered(q)
  BY ListedByName
<1>2. Len(q) \in Nat /\ DOMAIN q = 1..Len(q) /\ \A i \in 1..Len(q) : q[i] \in Entries
  BY <1>1, LenProperties, ElementOfSeq
<1>3. PICK k \in 1..Len(q) : q[k] = ep
  BY <1>2 DEF ToSet
<1>4. I = {k}
  <2>1. \A i, j \in 1..Len(q) : i < j => q[i].name < q[j].name
    BY <1>1, <1>2 DEF Ordered
  <2>2. \A i \in 1..Len(q) : q[i].name \in Nat
    BY <1>2, SubjectsAssumption DEF Entries
  <2>3. ASSUME NEW i \in 1..Len(q), q[i].name = ep.name PROVE i = k
    <3>1. ~(i < k) /\ ~(k < i)
      BY <1>3, <2>1, <2>2, <2>3
    <3> QED
      BY <3>1
  <2> HIDE DEF q
  <2> QED
    BY <1>3, <2>3
<1>5. LoadByName(eps, ep.name) =
        IF at = 0 THEN "LookupError" ELSE IF Works(q[at]) THEN q[at] ELSE "load error"
  BY Zenon DEF LoadByName, SelectInSeq
<1>6. at = k
  <2>1. I \subseteq Nat /\ I # {}
    BY <1>4
  <2> HIDE DEF I
  <2>2. Min(I) \in I
    BY <2>1, MinIsMember
  <2> QED
    BY <1>4, <2>1, <2>2
<1>7. k # 0 /\ Works(q[k])
  BY <1>3
<1> HIDE DEF q, at
<1> QED
  BY <1>3, <1>5, <1>6, <1>7

(* What iter_plugin_panels gives, of any listing. *)
LEMMA PanelsOf ==
    ASSUME NEW n \in Nat, NEW eps \in [1..n -> Entries]
    PROVE  LET q == ListByName(eps)  shown == PluginPanels(eps)
           IN  /\ shown \in Seq(Entries) /\ Ordered(shown)
               /\ ToSet(shown) = {q[j] : j \in Firsts(q, Len(q))}
<1> DEFINE q == ListByName(eps)
           taken == FoldLeft(TakePanel, NoPanels, q)
<1>1. q \in Seq(Entries) /\ Ordered(q)
  BY ListedByName
<1>2. PluginPanels(eps) = taken.classes
  BY Zenon DEF PluginPanels, NoPanels
<1>3. taken \in PanelStates /\ PanelsUpTo(q, Len(q), taken)
  <2> HIDE DEF q
  <2> QED
    BY <1>1, PanelsListed
<1> HIDE DEF q, taken
<1>4. taken.classes \in Seq(Entries)
  BY <1>3 DEF PanelStates
<1>5. Ordered(taken.classes) /\ ToSet(taken.classes) = {q[j] : j \in Firsts(q, Len(q))}
  BY <1>3 DEF PanelsUpTo
<1> QED
  BY <1>2, <1>4, <1>5 DEF q

(* Of the panels that are listed, each id's first by name is shown.        *)
LEMMA PanelsShown ==
    ASSUME NEW n \in Nat, NEW eps \in [1..n -> Entries]
    PROVE  LET working == {k \in Listed(eps) : Works(eps[k])}
           IN  ToSet(PluginPanels(eps)) =
                {eps[k] : k \in {k \in working : \A j \in working :
                    eps[j].offers = eps[k].offers => eps[k].name <= eps[j].name}}
<1> DEFINE q == ListByName(eps)
           c == Len(q)
           working == {k \in Listed(eps) : Works(eps[k])}
           first(k) == \A j \in working :
                            eps[j].offers = eps[k].offers => eps[k].name <= eps[j].name
<1>1. q \in Seq(Entries) /\ Ordered(q) /\ ToSet(q) = {eps[k] : k \in Listed(eps)}
  BY ListedByName
<1>2. Listed(eps) \subseteq 1..n
  BY DEF Listed
<1>3. ToSet(PluginPanels(eps)) = {q[j] : j \in Firsts(q, c)}
  BY PanelsOf
<1>4. \A k \in Listed(eps) : eps[k].name \in Nat
  BY <1>2, SubjectsAssumption DEF Entries
<1> HIDE DEF q
<1>5. c \in Nat /\ DOMAIN q = 1..c
  BY <1>1, LenProperties
<1>6. /\ \A i \in 1..c : \E k \in Listed(eps) : q[i] = eps[k]
      /\ \A k \in Listed(eps) : \E i \in 1..c : q[i] = eps[k]
  BY <1>1, <1>5 DEF ToSet
<1>7. \A i, j \in 1..c : i < j => q[i].name < q[j].name
  BY <1>1, <1>5 DEF Ordered
<1>8. \A i \in 1..c : q[i].name \in Nat
  BY <1>4, <1>6
<1> HIDE DEF c
<1>9. ASSUME NEW j \in Firsts(q, c) PROVE \E k \in working : q[j] = eps[k] /\ first(k)
  <2>1. j \in 1..c /\ Works(q[j])
        /\ \A i \in 1..(j - 1) : Works(q[i]) => q[i].offers # q[j].offers
    BY DEF Firsts
  <2>2. PICK k \in Listed(eps) : q[j] = eps[k]
    BY <1>6, <2>1
  <2>3. ASSUME NEW l \in working, eps[l].offers = eps[k].offers PROVE eps[k].name <= eps[l].name
    <3>1. PICK i \in 1..c : q[i] = eps[l]
      BY <1>6
    <3>2. ~(i \in 1..(j - 1))
      BY <2>1, <2>2, <2>3, <3>1
    <3>3. i = j \/ j < i
      BY <1>5, <2>1, <3>2
    <3>4. q[j].name <= q[i].name
      BY <1>7, <1>8, <2>1, <3>3
    <3> QED
      BY <2>2, <3>1, <3>4
  <2> QED
    BY <2>1, <2>2, <2>3
<1>10. ASSUME NEW k \in working, first(k) PROVE \E j \in Firsts(q, c) : q[j] = eps[k]
  <2>1. PICK j \in 1..c : q[j] = eps[k]
    BY <1>6
  <2>2. ASSUME NEW i \in 1..(j - 1), Works(q[i]) PROVE q[i].offers # q[j].offers
    <3>1. i \in 1..c /\ i < j
      BY <1>5, <2>1
    <3>2. PICK l \in Listed(eps) : q[i] = eps[l]
      BY <1>6, <3>1
    <3>3. q[i].name < q[j].name /\ q[i].name \in Nat /\ q[j].name \in Nat
      BY <1>7, <1>8, <2>1, <3>1
    <3>4. l \in working /\ ~(eps[k].name <= eps[l].name)
      BY <2>1, <2>2, <3>2, <3>3
    <3>5. eps[l].offers # eps[k].offers
      BY <1>10, <3>4
    <3> QED
      BY <2>1, <3>2, <3>5
  <2>3. j \in Firsts(q, c)
    BY <2>1, <2>2 DEF Firsts
  <2> QED
    BY <2>1, <2>3
<1> HIDE DEF first, working
<1>11. {q[j] : j \in Firsts(q, c)} = {eps[k] : k \in {k \in working : first(k)}}
  BY <1>9, <1>10
<1> QED
  BY <1>3, <1>11 DEF first, working

(* What iter_plugin_tool_specs gives is listed and works. *)
LEMMA ToolsOf ==
    ASSUME NEW n \in Nat, NEW eps \in [1..n -> Entries]
    PROVE  LET tools == PluginTools(eps)
           IN  /\ tools \in Seq(Entries)
               /\ \A k \in DOMAIN tools : Works(tools[k]) /\ tools[k] \in ToSet(ListByName(eps))
<1> DEFINE q == ListByName(eps)
<1>1. q \in Seq(Entries)
  BY ListedByName
<1>2. PluginTools(eps) = FoldLeft(TakeTool, <<>>, q)
  BY Zenon DEF PluginTools
<1> HIDE DEF q
<1>3. LET tools == FoldLeft(TakeTool, <<>>, q)
      IN  /\ tools \in Seq(Entries)
          /\ \A k \in DOMAIN tools : Works(tools[k]) /\ tools[k] \in ToSet(q)
  BY <1>1, ToolsListed
<1> QED
  BY <1>2, <1>3 DEF q

(* Tools of any kind, the native ones among them. *)
AnyTools == [name : Nat, value : Nat, offers : Ids \cup {Broken}]

(* All the keys of native tools and accepted plug-ins are different, and   *)
(* they are the keys there are.                                            *)
LEMMA ToolsComposed ==
    ASSUME NEW native \in Seq(AnyTools), KeysDiffer(native), NEW plugins \in Seq(Entries)
    PROVE  LET tools == native \o Accepted(native, plugins)
           IN  /\ tools \in Seq(AnyTools) /\ KeysDiffer(tools)
               /\ SubSeq(tools, 1, Len(native)) = native
               /\ \A k \in DOMAIN native : k \in DOMAIN tools /\ tools[k] = native[k]
               /\ KeysOf(tools) = KeysOf(native) \cup KeysOf(plugins)
<1> DEFINE more == Accepted(native, plugins)
           tools == native \o more
           n == Len(native)  m == Len(more)
<1>1. more \in Seq(Entries) /\ AcceptedUpTo(native, plugins, Len(plugins), more)
  BY ToolsFree
<1> HIDE DEF more
<1>2. Entries \subseteq AnyTools
  BY SubjectsAssumption DEF Entries, AnyTools
<1>3. /\ KeysDiffer(more) /\ KeysOf(more) \cap KeysOf(native) = {}
      /\ KeysOf(native) \cup KeysOf(more)
            = KeysOf(native) \cup {plugins[j].offers : j \in 1..Len(plugins)}
  BY <1>1 DEF AcceptedUpTo
<1>4. more \in Seq(AnyTools)
  BY <1>1, <1>2
<1>5. /\ n \in Nat /\ m \in Nat /\ DOMAIN native = 1..n /\ DOMAIN more = 1..m
      /\ DOMAIN plugins = 1..Len(plugins)
  BY <1>4, LenProperties
<1>6. /\ tools \in Seq(AnyTools) /\ Len(tools) = n + m /\ DOMAIN tools = 1..(n + m)
      /\ \A k \in 1..n : tools[k] = native[k]
      /\ \A k \in (n + 1)..(n + m) : tools[k] = more[k - n]
  <2>1. tools \in Seq(AnyTools) /\ Len(tools) = n + m
        /\ \A k \in 1..(n + m) : tools[k] = IF k <= n THEN native[k] ELSE more[k - n]
    BY <1>4, ConcatProperties
  <2>2. DOMAIN tools = 1..(n + m)
    BY <2>1, LenProperties
  <2> HIDE DEF tools
  <2> QED
    BY <1>5, <2>1, <2>2
<1> HIDE DEF tools, n, m
<1>7. KeysOf(tools) = KeysOf(native) \cup KeysOf(more)
  <2>1. ASSUME NEW k \in 1..(n + m) PROVE tools[k].offers \in KeysOf(native) \cup KeysOf(more)
    <3>1. CASE k <= n
      <4>1. k \in 1..n
        BY <1>5, <3>1
      <4> QED
        BY <1>5, <1>6, <4>1 DEF KeysOf
    <3>2. CASE ~(k <= n)
      <4>1. k \in (n + 1)..(n + m) /\ k - n \in 1..m
        BY <1>5, <3>2
      <4> QED
        BY <1>5, <1>6, <4>1 DEF KeysOf
    <3> QED
      BY <3>1, <3>2
  <2>2. ASSUME NEW k \in 1..n PROVE native[k].offers \in KeysOf(tools)
    <3>1. k \in 1..(n + m)
      BY <1>5
    <3> QED
      BY <1>6, <3>1 DEF KeysOf
  <2>3. ASSUME NEW k \in 1..m PROVE more[k].offers \in KeysOf(tools)
    <3>1. k + n \in (n + 1)..(n + m) /\ k + n \in 1..(n + m) /\ (k + n) - n = k
      BY <1>5
    <3> QED
      BY <1>6, <3>1 DEF KeysOf
  <2>4. KeysOf(tools) = {tools[k].offers : k \in 1..(n + m)}
    BY <1>6 DEF KeysOf
  <2>5. KeysOf(native) = {native[k].offers : k \in 1..n} /\ KeysOf(more) = {more[k].offers : k \in 1..m}
    BY <1>5 DEF KeysOf
  <2> QED
    BY <2>1, <2>2, <2>3, <2>4, <2>5
<1>8. KeysDiffer(tools)
  <2> SUFFICES ASSUME NEW i \in 1..(n + m), NEW j \in 1..(n + m), i < j
               PROVE  tools[i].offers # tools[j].offers
    BY <1>5, <1>6 DEF KeysDiffer
  <2>1. CASE j <= n
    <3>1. i \in 1..n /\ j \in 1..n /\ i # j
      BY <1>5, <2>1
    <3>2. native[i].offers # native[j].offers
      BY <1>5, <3>1 DEF KeysDiffer
    <3> QED
      BY <1>6, <3>1, <3>2
  <2>2. CASE ~(j <= n) /\ i <= n
    <3>1. i \in 1..n /\ j \in (n + 1)..(n + m) /\ j - n \in 1..m
      BY <1>5, <2>2
    <3>2. tools[i].offers \in KeysOf(native) /\ tools[j].offers \in KeysOf(more)
      BY <1>5, <1>6, <3>1 DEF KeysOf
    <3> QED
      BY <1>3, <3>2
  <2>3. CASE ~(i <= n)
    <3>1. i \in (n + 1)..(n + m) /\ j \in (n + 1)..(n + m) /\ i - n \in 1..m /\ j - n \in 1..m /\ i - n # j - n
      BY <1>5, <2>3
    <3>2. more[i - n].offers # more[j - n].offers
      BY <1>3, <1>5, <3>1 DEF KeysDiffer
    <3> QED
      BY <1>6, <3>1, <3>2
  <2> QED
    BY <2>1, <2>2, <2>3
<1>9. SubSeq(tools, 1, n) = native
  <2>1. SubSeq(tools, 1, n) = [k \in 1..n |-> tools[k]]
    BY <1>5, <1>6, SubSeqProperties
  <2> QED
    BY <1>5, <1>6, <2>1
<1>10. KeysOf(plugins) = {plugins[j].offers : j \in 1..Len(plugins)}
  BY <1>5 DEF KeysOf
<1>11. \A k \in DOMAIN native : k \in DOMAIN tools /\ tools[k] = native[k]
  BY <1>5, <1>6
<1>12. KeysOf(tools) = KeysOf(native) \cup KeysOf(plugins)
  BY <1>3, <1>7, <1>10
<1> QED
  BY <1>6, <1>8, <1>9, <1>11, <1>12 DEF tools, more, n

(* Beside any native tools with keys of their own, every tool is the one   *)
(* its key finds, and the native ones come first.                          *)
LEMMA ToolsFound ==
    ASSUME NEW n \in Nat, NEW eps \in [1..n -> Entries],
           NEW m \in Nat, NEW ids \in [1..m -> Ids], IsInjective(ids)
    PROVE  LET native == Native(ids)
               tools == RobotTools(native, eps)
           IN  /\ \A k \in DOMAIN tools : ToolFor(tools, tools[k].offers) = tools[k]
               /\ SubSeq(tools, 1, Len(native)) = native
               /\ KeysOf(tools) = KeysOf(native) \cup KeysOf(PluginTools(eps))
               /\ \A t \in ToSet(native) : DefaultOf(tools, t.offers) = t
<1> DEFINE native == Native(ids)
           plugins == PluginTools(eps)
           tools == RobotTools(native, eps)
<1>1. native \in Seq(AnyTools) /\ DOMAIN native = 1..m /\ Len(native) = m
  <2>1. native \in [1..m -> AnyTools]
    BY DEF Native, AnyTools
  <2> HIDE DEF native
  <2> QED
    BY <2>1, TableIsSeq
<1>2. KeysDiffer(native)
  <2>1. \A k \in 1..m : native[k].offers = ids[k]
    BY DEF Native
  <2>2. \A j, k \in 1..m : ids[j] = ids[k] => j = k
    BY DEF IsInjective
  <2> HIDE DEF native
  <2> QED
    BY <1>1, <2>1, <2>2 DEF KeysDiffer
<1>3. plugins \in Seq(Entries)
  BY ToolsOf
<1> DEFINE all == native \o Accepted(native, plugins)
<1>4. /\ all \in Seq(AnyTools) /\ KeysDiffer(all)
      /\ SubSeq(all, 1, Len(native)) = native
      /\ \A k \in DOMAIN native : k \in DOMAIN all /\ all[k] = native[k]
      /\ KeysOf(all) = KeysOf(native) \cup KeysOf(plugins)
  <2> HIDE DEF native, plugins
  <2> QED
    BY <1>1, <1>2, <1>3, ToolsComposed
<1>5. tools = IF plugins = <<>> THEN native ELSE all
  BY Zenon DEF RobotTools, ComposedTools, Accepted
<1>6. /\ tools \in Seq(AnyTools) /\ KeysDiffer(tools)
      /\ SubSeq(tools, 1, Len(native)) = native
      /\ \A k \in DOMAIN native : k \in DOMAIN tools /\ tools[k] = native[k]
      /\ KeysOf(tools) = KeysOf(native) \cup KeysOf(plugins)
  <2> HIDE DEF native, plugins, all, tools
  <2>1. CASE plugins = <<>>
    <3>1. KeysOf(plugins) = {}
      BY <2>1 DEF KeysOf
    <3>2. SubSeq(native, 1, Len(native)) = native
      BY <1>1
    <3> QED
      BY <1>1, <1>2, <1>5, <2>1, <3>1, <3>2
  <2>2. CASE plugins # <<>>
    BY <1>4, <1>5, <2>2
  <2> QED
    BY <2>1, <2>2
<1> HIDE DEF native, plugins, tools, all
<1>7. \A k \in DOMAIN tools : ToolFor(tools, tools[k].offers) = tools[k]
  BY <1>6, KeyFinds
<1>8. ASSUME NEW t \in ToSet(native) PROVE DefaultOf(tools, t.offers) = t
  <2>1. PICK k \in DOMAIN native : t = native[k]
    BY DEF ToSet
  <2>2. k \in DOMAIN tools /\ tools[k] = t
    BY <1>6, <2>1
  <2>3. t.offers \in KeysOf(tools)
    BY <2>2 DEF KeysOf
  <2>4. ToolFor(tools, t.offers) = t
    BY <1>7, <2>2
  <2> QED
    BY <2>3, <2>4 DEF DefaultOf
<1> QED
  BY <1>6, <1>7, <1>8 DEF native, plugins, tools

(* For any entry points and any native tools with keys of their own: the   *)
(* panels and tools that are shown are those their names load; the id of a *)
(* working panel whose name nobody else has is shown once, by the first in *)
(* order of name; and each tool of the robot is the one its key finds, the *)
(* native tools first and with their default.                              *)
THEOREM PluginsAreShown == SubjectsSpec => []PluginsShown
<1>1. SubjectOK => PluginsShown
  <2> SUFFICES ASSUME SubjectOK, Registered PROVE PluginsShown
    BY Zenon DEF PluginsShown, PanelsShownOnce, ToolsFindable
  <2> DEFINE n == Len(entries)
  <2>1. n \in Nat /\ entries \in [1..n -> Entries] /\ DOMAIN entries = 1..n
    <3>1. entries \in Seq(Entries)
      BY DEF SubjectOK, Registered, entries
    <3> QED
      BY <3>1, LenProperties
  <2> HIDE DEF n
  <2>2. PanelsShownOnce
    <3> DEFINE shown == PluginPanels(entries)
               listed == {k \in Listed(entries) : Works(entries[k])}
               first(k) == \A j \in listed :
                            entries[j].offers = entries[k].offers => entries[k].name <= entries[j].name
    <3>1. shown \in Seq(Entries) /\ Ordered(shown)
      BY <2>1, PanelsOf
    <3>2. ToSet(shown) = {entries[k] : k \in {k \in listed : first(k)}}
      BY <2>1, PanelsShown
    <3>3. listed \subseteq Working /\ listed \subseteq 1..n
      BY <2>1 DEF Working, Listed
    <3>4. \A k \in 1..n : entries[k].name \in Nat
      BY <2>1, SubjectsAssumption DEF Entries
    <3> HIDE DEF shown, listed
    <3>5. ToSet(shown) \subseteq {entries[k] : k \in Working}
      BY <3>2, <3>3
    <3>6. ASSUME NEW j \in DOMAIN shown, NEW k \in DOMAIN shown, j < k
          PROVE  shown[j].name < shown[k].name /\ shown[j].offers # shown[k].offers
      <4>1. shown[j].name < shown[k].name
        BY <3>1, <3>6, LenProperties DEF Ordered
      <4>2. shown[j] \in ToSet(shown) /\ shown[k] \in ToSet(shown)
        BY DEF ToSet
      <4>3. PICK p \in listed, q \in listed :
                shown[j] = entries[p] /\ first(p) /\ shown[k] = entries[q] /\ first(q)
        BY <3>2, <4>2
      <4>4. shown[j].offers = shown[k].offers => shown[k].name <= shown[j].name
        BY <4>3
      <4>5. shown[j].name \in Nat /\ shown[k].name \in Nat
        BY <3>3, <3>4, <4>3
      <4> QED
        BY <4>1, <4>4, <4>5
    <3>7. ASSUME NEW k \in Working,
                 \A j \in DOMAIN entries \ {k} : entries[j].name # entries[k].name
          PROVE  \E ep \in ToSet(shown) :
                    ep.offers = entries[k].offers /\ ep.name <= entries[k].name
      <4>1. k \in listed /\ k \in 1..n
        <5>1. k \in 1..n /\ Works(entries[k])
          BY <2>1 DEF Working
        <5>2. k \in Listed(entries)
          BY <2>1, <3>7, <5>1 DEF Listed
        <5> QED
          BY <5>1, <5>2 DEF listed
      <4> DEFINE rivals == {j \in listed : entries[j].offers = entries[k].offers}
                 names == {entries[j].name : j \in rivals}
      <4>2. names \subseteq Nat /\ entries[k].name \in names
        BY <3>3, <3>4, <4>1
      <4>3. PICK least \in names : \A m \in names : least <= m
        <5> HIDE DEF names
        <5> QED
          BY <4>2, LeastNumber
      <4>4. PICK j \in rivals : entries[j].name = least
        BY <4>3
      <4>5. j \in listed /\ first(j)
        BY <4>3, <4>4
      <4>6. entries[j] \in ToSet(shown)
        BY <3>2, <4>5
      <4> QED
        BY <4>2, <4>3, <4>4, <4>6
    <3> QED
      BY <3>5, <3>6, <3>7, Zenon DEF PanelsShownOnce, shown
  <2>3. ToolsFindable
    <3> SUFFICES ASSUME NEW m \in 1..MaxEntries, NEW ids \in [1..m -> Ids], IsInjective(ids)
                 PROVE  LET native == Native(ids)
                            plugins == PluginTools(entries)
                            tools == RobotTools(native, entries)
                        IN  /\ \A k \in DOMAIN tools : ToolFor(tools, tools[k].offers) = tools[k]
                            /\ SubSeq(tools, 1, Len(native)) = native
                            /\ KeysOf(tools) = KeysOf(native) \cup KeysOf(plugins)
                            /\ \A t \in ToSet(native) : DefaultOf(tools, t.offers) = t
      BY Zenon DEF ToolsFindable
    <3>1. m \in Nat
      BY SubjectsAssumption
    <3> QED
      BY <2>1, <3>1, ToolsFound
  <2>4. ASSUME NEW ep \in ToSet(PluginPanels(entries)) \cup ToSet(PluginTools(entries))
        PROVE  LoadByName(entries, ep.name) = ep
    <3>1. CASE ep \in ToSet(PluginPanels(entries))
      <4> DEFINE q == ListByName(entries)
      <4>1. ToSet(PluginPanels(entries)) = {q[j] : j \in Firsts(q, Len(q))}
        BY <2>1, PanelsOf
      <4>2. q \in Seq(Entries)
        BY <2>1, ListedByName
      <4> HIDE DEF q
      <4>3. PICK j \in Firsts(q, Len(q)) : ep = q[j]
        BY <3>1, <4>1
      <4>4. j \in DOMAIN q /\ Works(ep)
        BY <4>2, <4>3, LenProperties DEF Firsts
      <4>5. ep \in ToSet(q) /\ Works(ep)
        BY <4>3, <4>4 DEF ToSet
      <4> QED
        BY <2>1, <4>5, NameLoads DEF q
    <3>2. CASE ep \in ToSet(PluginTools(entries))
      <4>1. Works(ep) /\ ep \in ToSet(ListByName(entries))
        BY <2>1, <3>2, ToolsOf DEF ToSet
      <4> QED
        BY <2>1, <4>1, NameLoads
    <3> QED
      BY <3>1, <3>2
  <2> QED
    BY <2>2, <2>3, <2>4 DEF PluginsShown
<1> QED
  BY <1>1, SubjectInvariant, PTL
-----------------------------------------------------------------------------
(* Rotations. *)

Matrix(a11, a12, a13, a21, a22, a23, a31, a32, a33) ==
    <<<<a11, a12, a13>>, <<a21, a22, a23>>, <<a31, a32, a33>>>>

(* An angle is found by its sine and cosine. *)
LEMMA AngleFound ==
    ASSUME NEW s \in {-1, 0, 1}, NEW c \in {-1, 0, 1}, s = 0 <=> c # 0
    PROVE  /\ Atan2(s, c) \in Quarters
           /\ Sin(Atan2(s, c)) = s /\ Cos(Atan2(s, c)) = c
  BY DEF Quarters, Sin, Cos, Atan2

(* The entries of a product. *)
LEMMA ProductEntries ==
    ASSUME NEW a, NEW b
    PROVE  LET e(i, j) == a[i][1] * b[1][j] + a[i][2] * b[2][j] + a[i][3] * b[3][j]
           IN  Mul(a, b) = Matrix(e(1, 1), e(1, 2), e(1, 3), e(2, 1), e(2, 2), e(2, 3),
                                  e(3, 1), e(3, 2), e(3, 3))
  BY DEF Mul, Matrix, Axes
Digits == {-1, 0, 1}

(* The product of the turns about x, y and z that have these sines and cosines. *)
Turned(sr, cr, sp, cp, sz, cz) ==
    Matrix(cp * cz, -(cp * sz), sp,
           sr * sp * cz + cr * sz, cr * cz - sr * sp * sz, -(sr * cp),
           sr * sz - cr * sp * cz, cr * sp * sz + sr * cz, cr * cp)

(* Three turns about the axes as they turn. *)
LEMMA ThreeTurns ==
    ASSUME NEW sr \in Digits, NEW cr \in Digits, NEW sp \in Digits, NEW cp \in Digits,
           NEW sz \in Digits, NEW cz \in Digits
    PROVE  LET x == <<<<1, 0, 0>>, <<0, cr, -sr>>, <<0, sr, cr>>>>
               y == <<<<cp, 0, sp>>, <<0, 1, 0>>, <<-sp, 0, cp>>>>
               z == <<<<cz, -sz, 0>>, <<sz, cz, 0>>, <<0, 0, 1>>>>
           IN  Mul(Mul(x, y), z) = Turned(sr, cr, sp, cp, sz, cz)
<1> DEFINE x == <<<<1, 0, 0>>, <<0, cr, -sr>>, <<0, sr, cr>>>>
           y == <<<<cp, 0, sp>>, <<0, 1, 0>>, <<-sp, 0, cp>>>>
           z == <<<<cz, -sz, 0>>, <<sz, cz, 0>>, <<0, 0, 1>>>>
           xy == Matrix(cp, 0, sp, sr * sp, cr, -(sr * cp), -(cr * sp), sr, cr * cp)
<1>0. {sr, cr, sp, cp, sz, cz} \subseteq Int
  BY DEF Digits
<1>1. Mul(x, y) = xy
  <2> DEFINE e(i, j) == x[i][1] * y[1][j] + x[i][2] * y[2][j] + x[i][3] * y[3][j]
  <2>1. Mul(x, y) = Matrix(e(1, 1), e(1, 2), e(1, 3), e(2, 1), e(2, 2), e(2, 3),
                           e(3, 1), e(3, 2), e(3, 3))
    <3> HIDE DEF x, y
    <3> QED
      BY ProductEntries
  <2>2. e(1, 1) = cp /\ e(1, 2) = 0 /\ e(1, 3) = sp
    BY <1>0
  <2>3. e(2, 1) = sr * sp /\ e(2, 2) = cr /\ e(2, 3) = -(sr * cp)
    BY <1>0
  <2>4. e(3, 1) = -(cr * sp) /\ e(3, 2) = sr /\ e(3, 3) = cr * cp
    BY <1>0
  <2> HIDE DEF e
  <2> QED
    BY <2>1, <2>2, <2>3, <2>4
<1>2. Mul(xy, z) = Turned(sr, cr, sp, cp, sz, cz)
  <2> DEFINE e(i, j) == xy[i][1] * z[1][j] + xy[i][2] * z[2][j] + xy[i][3] * z[3][j]
  <2>1. Mul(xy, z) = Matrix(e(1, 1), e(1, 2), e(1, 3), e(2, 1), e(2, 2), e(2, 3),
                            e(3, 1), e(3, 2), e(3, 3))
    <3> HIDE DEF xy, z
    <3> QED
      BY ProductEntries
  <2>2. e(1, 1) = cp * cz /\ e(1, 2) = -(cp * sz) /\ e(1, 3) = sp
    BY <1>0 DEF Matrix
  <2>3. e(2, 1) = sr * sp * cz + cr * sz /\ e(2, 2) = cr * cz - sr * sp * sz /\ e(2, 3) = -(sr * cp)
    BY <1>0 DEF Matrix
  <2>4. e(3, 1) = sr * sz - cr * sp * cz /\ e(3, 2) = cr * sp * sz + sr * cz /\ e(3, 3) = cr * cp
    BY <1>0 DEF Matrix
  <2> HIDE DEF e
  <2> QED
    BY <2>1, <2>2, <2>3, <2>4 DEF Turned
<1> HIDE DEF x, y, z, xy
<1>3. Mul(Mul(x, y), z) = Turned(sr, cr, sp, cp, sz, cz)
  BY <1>1, <1>2
<1> QED
  BY <1>3 DEF x, y, z
(* The sine and cosine of a whole number of quarter turns. *)
Unit(s, c) == s \in Digits /\ c \in Digits /\ (s = 0 <=> c # 0)

(* Rotation is the product of such turns. *)
LEMMA RotationForm ==
    ASSUME NEW t, t.roll \in Quarters, t.pitch \in Quarters, t.yaw \in Quarters
    PROVE  Rotation(t) = Turned(Sin(t.roll), Cos(t.roll), Sin(t.pitch), Cos(t.pitch),
                                Sin(t.yaw), Cos(t.yaw))
<1>1. \A q \in Quarters : Sin(q) \in Digits /\ Cos(q) \in Digits
  BY DEF Quarters, Sin, Cos, Digits
<1> DEFINE sr == Sin(t.roll) 
           cr == Cos(t.roll)
           sp == Sin(t.pitch)
           cp == Cos(t.pitch)
           sz == Sin(t.yaw)
           cz == Cos(t.yaw)
<1>2. sr \in Digits /\ cr \in Digits /\ sp \in Digits /\ cp \in Digits /\ sz \in Digits /\ cz \in Digits
  BY <1>1
<1>3. Rotation(t) = Mul(Mul(<<<<1, 0, 0>>, <<0, cr, -sr>>, <<0, sr, cr>>>>,
                            <<<<cp, 0, sp>>, <<0, 1, 0>>, <<-sp, 0, cp>>>>),
                        <<<<cz, -sz, 0>>, <<sz, cz, 0>>, <<0, 0, 1>>>>)
  BY Zenon DEF Rotation, RotX, RotY, RotZ
<1> HIDE DEF sr, cr, sp, cp, sz, cz
<1>4. Rotation(t) = Turned(sr, cr, sp, cp, sz, cz)
  BY <1>2, <1>3, ThreeTurns
<1> QED
  BY <1>4 DEF sr, cr, sp, cp, sz, cz

(* Where roll and yaw turn about one axis, their sum or difference is kept. *)
LEMMA UprightKept ==
    ASSUME NEW sr, NEW cr, Unit(sr, cr), NEW sz, NEW cz, Unit(sz, cz), NEW sp \in {-1, 1}
    PROVE  LET s == cr * sp * sz + sr * cz
               c == cr * cz - sr * sp * sz
           IN  /\ Unit(s, c)
               /\ s * sp = sr * sp * cz + cr * sz
               /\ -(c * sp) = sr * sz - cr * sp * cz
<1>1. (sr = 0 /\ cr \in {-1, 1}) \/ (cr = 0 /\ sr \in {-1, 1})
  BY DEF Unit, Digits
<1>2. (sz = 0 /\ cz \in {-1, 1}) \/ (cz = 0 /\ sz \in {-1, 1})
  BY DEF Unit, Digits
<1> QED
  BY <1>1, <1>2 DEF Unit, Digits

(* A matrix has its entries. *)
LEMMA MatrixEntries ==
    ASSUME NEW a11, NEW a12, NEW a13, NEW a21, NEW a22, NEW a23, NEW a31, NEW a32, NEW a33
    PROVE  LET m == Matrix(a11, a12, a13, a21, a22, a23, a31, a32, a33)
           IN  /\ m[1][1] = a11 /\ m[1][2] = a12 /\ m[1][3] = a13
               /\ m[2][1] = a21 /\ m[2][2] = a22 /\ m[2][3] = a23
               /\ m[3][1] = a31 /\ m[3][2] = a32 /\ m[3][3] = a33
  BY DEF Matrix

(* from_matrix finds a turn with the same matrix. *)
LEMMA TurnFound ==
    ASSUME NEW sr, NEW cr, Unit(sr, cr), NEW sp, NEW cp, Unit(sp, cp), NEW sz, NEW cz, Unit(sz, cz)
    PROVE  LET m == Turned(sr, cr, sp, cp, sz, cz)
           IN  Rotation(FromMatrix(m)) = m
<1> DEFINE m == Turned(sr, cr, sp, cp, sz, cz)
           found == FromMatrix(m)
           s == cr * sp * sz + sr * cz
           c == cr * cz - sr * sp * sz
<1>1. /\ m[1][1] = cp * cz /\ m[1][2] = -(cp * sz) /\ m[1][3] = sp
      /\ m[2][2] = c /\ m[2][3] = -(sr * cp) /\ m[3][2] = s /\ m[3][3] = cr * cp
  BY MatrixEntries DEF Turned
<1>2. /\ (sr = 0 /\ cr \in {-1, 1}) \/ (cr = 0 /\ sr \in {-1, 1})
      /\ (sz = 0 /\ cz \in {-1, 1}) \/ (cz = 0 /\ sz \in {-1, 1})
      /\ (sp = 0 /\ cp \in {-1, 1}) \/ (cp = 0 /\ sp \in {-1, 1})
  BY DEF Unit, Digits
<1>3. \A x, y : Unit(x, y) => /\ Atan2(x, y) \in Quarters
                              /\ Sin(Atan2(x, y)) = x /\ Cos(Atan2(x, y)) = y
  BY AngleFound DEF Unit, Digits
<1>4. CASE cp = 0
  <2>1. sp \in {-1, 1}
    BY <1>2, <1>4
  <2>2. Unit(s, c) /\ s * sp = sr * sp * cz + cr * sz /\ -(c * sp) = sr * sz - cr * sp * cz
    BY <2>1, UprightKept
  <2>3. cp * cz = 0 /\ -(cp * sz) = 0 /\ sr * cp = 0 /\ cr * cp = 0
    BY <1>2, <1>4
  <2> HIDE DEF m, s, c
  <2>4. found = Turn(Atan2(s, c), Atan2(sp, 0), 0)
    BY <1>1, <2>3 DEF FromMatrix
  <2>5. Sin(found.roll) = s /\ Cos(found.roll) = c /\ found.roll \in Quarters
    BY <1>3, <2>2, <2>4 DEF Turn
  <2>6. Sin(found.pitch) = sp /\ Cos(found.pitch) = 0 /\ found.pitch \in Quarters
    <3>1. Unit(sp, 0)
      BY <2>1 DEF Unit, Digits
    <3> QED
      BY <1>3, <2>4, <3>1 DEF Turn
  <2>7. Sin(found.yaw) = 0 /\ Cos(found.yaw) = 1 /\ found.yaw \in Quarters
    BY <2>4 DEF Turn, Sin, Cos, Quarters
  <2> HIDE DEF found
  <2>8. Rotation(found) = Turned(s, c, sp, 0, 0, 1)
    BY <2>5, <2>6, <2>7, RotationForm
  <2>9. Turned(s, c, sp, 0, 0, 1) = Matrix(0, 0, sp, s * sp, c, 0, -(c * sp), s, 0)
    <3>1. s \in Int /\ c \in Int /\ sp \in Int
      BY <2>1, <2>2 DEF Unit, Digits
    <3> QED
      BY <3>1 DEF Turned
  <2>10. m = Matrix(0, 0, sp, s * sp, c, 0, -(c * sp), s, 0)
    <3>1. m = Matrix(cp * cz, -(cp * sz), sp, sr * sp * cz + cr * sz, c, -(sr * cp),
                     sr * sz - cr * sp * cz, s, cr * cp)
      BY Zenon DEF m, Turned, s, c
    <3> QED
      BY <2>2, <2>3, <3>1
  <2> QED
    BY <2>8, <2>9, <2>10 DEF found, m
<1>5. CASE cp # 0
  <2>1. sp = 0 /\ (cp = 1 \/ cp = -1)
    BY <1>2, <1>5
  <2>2. ~(cp * cz = 0 /\ -(cp * sz) = 0)
    BY <1>2, <2>1
  <2>3. -(-(sr * cp)) = sr * cp /\ -(-(cp * sz)) = cp * sz
    BY <1>2, <2>1
  <2> HIDE DEF m, s, c
  <2>4. found = Turn(Atan2(sr * cp, cr * cp), Atan2(sp, 1), Atan2(cp * sz, cp * cz))
    BY <1>1, <2>2, <2>3 DEF FromMatrix
  <2>5. Unit(sr * cp, cr * cp) /\ Unit(cp * sz, cp * cz) /\ Unit(sp, 1)
    BY <1>2, <2>1 DEF Unit, Digits
  <2>6. /\ Sin(found.roll) = sr * cp /\ Cos(found.roll) = cr * cp /\ found.roll \in Quarters
        /\ Sin(found.pitch) = sp /\ Cos(found.pitch) = 1 /\ found.pitch \in Quarters
        /\ Sin(found.yaw) = cp * sz /\ Cos(found.yaw) = cp * cz /\ found.yaw \in Quarters
    BY <1>3, <2>4, <2>5 DEF Turn
  <2> HIDE DEF found
  <2>7. Rotation(found) = Turned(sr * cp, cr * cp, sp, 1, cp * sz, cp * cz)
    BY <2>6, RotationForm
  <2>8. Turned(sr * cp, cr * cp, sp, 1, cp * sz, cp * cz) = Turned(sr, cr, sp, cp, sz, cz)
    <3>1. /\ 1 * (cp * cz) = cp * cz /\ -(1 * (cp * sz)) = -(cp * sz)
          /\ (sr * cp) * sp * (cp * cz) + (cr * cp) * (cp * sz) = sr * sp * cz + cr * sz
          /\ (cr * cp) * (cp * cz) - (sr * cp) * sp * (cp * sz) = cr * cz - sr * sp * sz
          /\ -((sr * cp) * 1) = -(sr * cp)
          /\ (sr * cp) * (cp * sz) - (cr * cp) * sp * (cp * cz) = sr * sz - cr * sp * cz
          /\ (cr * cp) * sp * (cp * sz) + (sr * cp) * (cp * cz) = cr * sp * sz + sr * cz
          /\ (cr * cp) * 1 = cr * cp
      BY <1>2, <2>1
    <3> QED
      BY <3>1, Zenon DEF Turned
  <2> QED
    BY <2>7, <2>8 DEF found, m
<1> QED
  BY <1>4, <1>5
(* pose_matrix is the product of the turns about z, y and x, in that order. *)
LEMMA PoseForm ==
    ASSUME NEW t, t.roll \in Quarters, t.pitch \in Quarters, t.yaw \in Quarters
    PROVE  PoseMatrix(t) = Mul(RotZ(t.yaw), Mul(RotY(t.pitch), RotX(t.roll)))
<1> DEFINE sx == Sin(t.roll)
           cx == Cos(t.roll)
           sy == Sin(t.pitch)
           cy == Cos(t.pitch)
           sz == Sin(t.yaw)
           cz == Cos(t.yaw)
           x == <<<<1, 0, 0>>, <<0, cx, -sx>>, <<0, sx, cx>>>>
           y == <<<<cy, 0, sy>>, <<0, 1, 0>>, <<-sy, 0, cy>>>>
           z == <<<<cz, -sz, 0>>, <<sz, cz, 0>>, <<0, 0, 1>>>>
           yx == Matrix(cy, sy * sx, sy * cx, 0, cx, -sx, -sy, cy * sx, cy * cx)
           posed == Matrix(cz * cy, cz * sy * sx - sz * cx, cz * sy * cx + sz * sx,
                           sz * cy, sz * sy * sx + cz * cx, sz * sy * cx - cz * sx,
                           -sy, cy * sx, cy * cx)
<1>1. {sx, cx, sy, cy, sz, cz} \subseteq Int
  BY DEF Quarters, Sin, Cos
<1>2. PoseMatrix(t) = posed
  BY Zenon DEF PoseMatrix, Matrix
<1>3. RotX(t.roll) = x /\ RotY(t.pitch) = y /\ RotZ(t.yaw) = z
  BY Zenon DEF RotX, RotY, RotZ
<1> HIDE DEF sx, cx, sy, cy, sz, cz
<1>4. Mul(y, x) = yx
  <2> DEFINE e(i, j) == y[i][1] * x[1][j] + y[i][2] * x[2][j] + y[i][3] * x[3][j]
  <2>1. Mul(y, x) = Matrix(e(1, 1), e(1, 2), e(1, 3), e(2, 1), e(2, 2), e(2, 3),
                           e(3, 1), e(3, 2), e(3, 3))
    <3> HIDE DEF x, y
    <3> QED
      BY ProductEntries
  <2>2. e(1, 1) = cy /\ e(1, 2) = sy * sx /\ e(1, 3) = sy * cx
    BY <1>1
  <2>3. e(2, 1) = 0 /\ e(2, 2) = cx /\ e(2, 3) = -sx
    BY <1>1
  <2>4. e(3, 1) = -sy /\ e(3, 2) = cy * sx /\ e(3, 3) = cy * cx
    BY <1>1
  <2> HIDE DEF e
  <2> QED
    BY <2>1, <2>2, <2>3, <2>4
<1>5. Mul(z, yx) = posed
  <2> DEFINE e(i, j) == z[i][1] * yx[1][j] + z[i][2] * yx[2][j] + z[i][3] * yx[3][j]
  <2>1. Mul(z, yx) = Matrix(e(1, 1), e(1, 2), e(1, 3), e(2, 1), e(2, 2), e(2, 3),
                            e(3, 1), e(3, 2), e(3, 3))
    <3> HIDE DEF yx, z
    <3> QED
      BY ProductEntries
  <2>2. e(1, 1) = cz * cy /\ e(1, 2) = cz * sy * sx - sz * cx /\ e(1, 3) = cz * sy * cx + sz * sx
    BY <1>1 DEF Matrix
  <2>3. e(2, 1) = sz * cy /\ e(2, 2) = sz * sy * sx + cz * cx /\ e(2, 3) = sz * sy * cx - cz * sx
    BY <1>1 DEF Matrix
  <2>4. e(3, 1) = -sy /\ e(3, 2) = cy * sx /\ e(3, 3) = cy * cx
    BY <1>1 DEF Matrix
  <2> HIDE DEF e
  <2> QED
    BY <2>1, <2>2, <2>3, <2>4
<1> HIDE DEF x, y, z, yx, posed
<1> QED
  BY <1>2, <1>3, <1>4, <1>5

(* Whatever the three turns of a pose are, from_matrix finds angles of the *)
(* same orientation, also where roll and yaw turn about one axis, and      *)
(* shapes.pose_matrix writes out the turns about the world's axes.         *)
THEOREM PosesKeepOrientation == SubjectsSpec => []OrientationKept
<1>1. SubjectOK => OrientationKept
  <2> SUFFICES ASSUME SubjectOK, Rotated PROVE OrientationKept
    BY DEF OrientationKept
  <2>1. subject.items \in Seq(Quarters) /\ Len(subject.items) = 3
    BY DEF SubjectOK, Rotated
  <2>2. subject.items[1] \in Quarters /\ subject.items[2] \in Quarters /\ subject.items[3] \in Quarters
    BY <2>1, ElementOfSeq
  <2>3. turn.roll \in Quarters /\ turn.pitch \in Quarters /\ turn.yaw \in Quarters
    BY <2>2 DEF turn, Turn
  <2>4. \A q \in Quarters : Unit(Sin(q), Cos(q))
    BY DEF Quarters, Sin, Cos, Unit, Digits
  <2> HIDE DEF turn
  <2>5. Rotation(turn) = Turned(Sin(turn.roll), Cos(turn.roll), Sin(turn.pitch), Cos(turn.pitch),
                                Sin(turn.yaw), Cos(turn.yaw))
    BY <2>3, RotationForm
  <2>6. Rotation(FromMatrix(Rotation(turn))) = Rotation(turn)
    <3>1. Unit(Sin(turn.roll), Cos(turn.roll)) /\ Unit(Sin(turn.pitch), Cos(turn.pitch))
          /\ Unit(Sin(turn.yaw), Cos(turn.yaw))
      BY <2>3, <2>4
    <3> QED
      BY <2>5, <3>1, TurnFound
  <2>7. PoseMatrix(turn) = Mul(RotZ(turn.yaw), Mul(RotY(turn.pitch), RotX(turn.roll)))
    BY <2>3, PoseForm
  <2> QED
    BY <2>6, <2>7 DEF OrientationKept
<1> QED
  BY <1>1, SubjectInvariant, PTL

-----------------------------------------------------------------------------
(* Values for the records of skills. *)

Routes == Seq(Nat \cup {key.head : key \in Keys})
Copies == [shown : SUBSET Routes, truncated : BOOLEAN, remaining : -1..MaxVisits]
Budgets == 0..MaxVisits

Levels(n) == [1..n -> [Budgets -> Copies]]
Reaches(n) == [1..n -> SUBSET Routes]

(* Routes stay routes one level up. *)
LEMMA UnderRoutes ==
    ASSUME NEW n \in Nat, NEW node, NodeFits(node, n), NEW k \in 1..Len(node.to),
           NEW routes \in SUBSET Routes
    PROVE  Under(Label(node, k), routes) \in SUBSET Routes
<1> DEFINE Labels == Nat \cup {key.head : key \in Keys}
<1>1. node \in NodesTo(n) /\ Len(node.to) \in Nat
  BY LenProperties DEF NodeFits, NodesTo
<1>2. Label(node, k) \in Labels
  <2>1. CASE node.kind = "mapping"
    <3>1. node.keys \in Seq(Keys) /\ k \in 1..Len(node.keys)
      BY <1>1, <2>1 DEF NodeFits, NodesTo
    <3>2. node.keys[k] \in Keys
      BY <3>1, ElementOfSeq
    <3> QED
      BY <2>1, <3>2 DEF Label
  <2>2. CASE node.kind # "mapping"
    <3>1. k \in Nat
      BY <1>1
    <3> QED
      BY <2>2, <3>1 DEF Label
  <2> QED
    BY <2>1, <2>2
<1> DEFINE label == Label(node, k)
<1>3. ASSUME NEW r \in routes PROVE <<label>> \o r \in Routes
  <2>1. r \in Seq(Labels) /\ <<label>> \in Seq(Labels)
    <3> HIDE DEF Labels
    <3> QED
      BY <1>2 DEF Routes, Labels
  <2> HIDE DEF Labels, label
  <2>2. <<label>> \o r \in Seq(Labels)
    BY <2>1, ConcatProperties
  <2> QED
    BY <2>2 DEF Routes, Labels
<1> HIDE DEF label
<1>4. Under(label, routes) \in SUBSET Routes
  BY <1>3 DEF Under
<1> QED
  BY <1>4 DEF label

(* One item more is a copy again. *)
LEMMA ItemCopied ==
    ASSUME NEW n \in Nat, NEW node, NodeFits(node, n), NEW deeper \in Levels(n),
           NEW copied \in Copies, NEW k \in 1..Len(node.to)
    PROVE  VisitItem(node, deeper, copied, k) \in Copies
<1>0. MaxVisits \in Nat /\ copied.remaining \in -1..MaxVisits
  BY SnapshotAssumption DEF Copies
<1>1. CASE copied.remaining <= 0
  <2>1. [copied EXCEPT !.truncated = TRUE] \in Copies
    BY DEF Copies
  <2> QED
    BY <1>1, <2>1 DEF VisitItem
<1>2. CASE ~(copied.remaining <= 0)
  <2>1. node.to[k] \in 1..n /\ copied.remaining \in Budgets
    <3>1. node.to \in Seq(1..n)
      BY DEF NodeFits, NodesTo
    <3>2. node.to[k] \in 1..n
      BY <3>1, ElementOfSeq
    <3> QED
      BY <1>0, <1>2, <3>2 DEF Budgets
  <2> DEFINE one == deeper[node.to[k]][copied.remaining]
  <2>2. one \in Copies
    BY <2>1 DEF Levels
  <2> DEFINE under == Under(Label(node, k), one.shown)
  <2>3. under \in SUBSET Routes
    BY <2>2, UnderRoutes DEF Copies
  <2>4. VisitItem(node, deeper, copied, k)
          \in {copied, Copied(copied.shown \cup under, copied.truncated \/ one.truncated, one.remaining)}
    BY <1>2 DEF VisitItem
  <2> HIDE DEF under, one
  <2>5. Copied(copied.shown \cup under, copied.truncated \/ one.truncated, one.remaining) \in Copies
    BY <2>2, <2>3 DEF Copies, Copied
  <2> QED
    BY <2>4, <2>5
<1> QED
  BY <1>1, <1>2
Nothing(remaining) == Copied({}, FALSE, remaining)

Visited(node) == IF Len(node.to) < MaxItems THEN Len(node.to) ELSE MaxItems

AllVisited(node, deeper, remaining) ==
    LET step(copied, k) == VisitItem(node, deeper, copied, k)
    IN  FoldLeft(step, Nothing(remaining), [k \in 1..Visited(node) |-> k])

(* The items of a node visited one after the other. *)
ItemsVisited(node, deeper, remaining, st) ==
    /\ st \in [0..Visited(node) -> Copies] /\ st[0] = Nothing(remaining)
    /\ st[Visited(node)] = AllVisited(node, deeper, remaining)
    /\ \A k \in 1..Visited(node) : st[k] = VisitItem(node, deeper, st[k - 1], k)

(* Visiting the items ends with the fold of the model. *)
LEMMA ItemSteps ==
    ASSUME NEW n \in Nat, NEW node, NodeFits(node, n), NEW deeper \in Levels(n),
           NEW remaining \in Budgets
    PROVE  \E st : ItemsVisited(node, deeper, remaining, st)
<1> DEFINE v == Visited(node)
           q == [k \in 1..v |-> k]
           P == Copies
           base == Nothing(remaining)
           F == [k \in 1..v |-> [p \in P |-> VisitItem(node, deeper, p, k)]]
           Grown(w, s) == IF s = {} THEN base
                          ELSE VisitItem(node, deeper, w[s \ {Max(s)}], q[Max(s)])
           body(w) == [s \in SUBSET DOMAIN q |-> Grown(w, s)]
           iter == CHOOSE w : w = body(w)
<1>1. v \in Nat /\ v <= Len(node.to) /\ Len(node.to) \in Nat /\ DOMAIN q = 1..v
  <2>1. Len(node.to) \in Nat
    BY LenProperties DEF NodeFits, NodesTo
  <2> QED
    BY <2>1, SnapshotAssumption DEF Visited
<1> HIDE DEF v
<1>2. base \in P /\ \A p \in P, k \in 1..v : VisitItem(node, deeper, p, k) \in P
  <2>1. base \in P
    BY SnapshotAssumption DEF Nothing, Copied, Copies, Budgets
  <2>2. \A k \in 1..v : k \in 1..Len(node.to)
    BY <1>1
  <2> HIDE DEF base
  <2> QED
    BY <2>1, <2>2, ItemCopied
<1>3. Stepping(P, base, v, F)
  <2> HIDE DEF P, base
  <2> QED
    BY <1>1, <1>2 DEF Stepping
<1>4. AllVisited(node, deeper, remaining) = iter[DOMAIN q]
  BY Zenon DEF AllVisited, FoldLeft, MapThenFoldSet, v
<1> HIDE DEF P, base
<1>5. iter = body(iter)
  <2>1. PICK w \in [SUBSET (1..v) -> P] : Walked(P, base, v, F, w)
    <3> HIDE DEF F
    <3> QED
      BY <1>3, FoldExists
  <2>2. ASSUME NEW s \in SUBSET (1..v) PROVE w[s] = Grown(w, s)
    <3>1. CASE s # {}
      <4>1. Max(s) \in 1..v /\ s \ {Max(s)} \in SUBSET (1..v)
        BY <1>1, <3>1, MaxOfFirst
      <4>2. w[s \ {Max(s)}] \in P
        BY <4>1
      <4> QED
        BY <2>1, <3>1, <4>1, <4>2 DEF Walked
    <3> QED
      BY <2>1, <3>1 DEF Walked
  <2>3. w = body(w)
    BY <1>1, <2>2
  <2> HIDE DEF body
  <2> QED
    BY <2>3
<1>6. \A s \in SUBSET (1..v) : iter[s] = Grown(iter, s)
  <2> HIDE DEF iter, Grown
  <2> QED
    BY <1>1, <1>5
<1> HIDE DEF iter
<1>7. Retraced(P, base, v, F, iter)
  <2>1. \A s \in SUBSET (1..v) : s # {} => Max(s) \in 1..v
    BY <1>1, MaxOfFirst
  <2> QED
    BY <1>6, <2>1 DEF Retraced
<1>8. PICK st : Sequenced(P, base, v, F, st) /\ st[v] = iter[1..v]
  <2> HIDE DEF F
  <2> QED
    BY <1>3, <1>7, FoldSteps
<1>9. \A k \in 1..v : st[k] = VisitItem(node, deeper, st[k - 1], k)
  <2>1. \A k \in 1..v : k - 1 \in 0..v
    BY <1>1
  <2> QED
    BY <1>8, <2>1 DEF Sequenced
<1>10. ItemsVisited(node, deeper, remaining, st)
  BY <1>1, <1>4, <1>8, <1>9 DEF Sequenced, ItemsVisited, P, base, v
<1> QED
  BY <1>10

(* What the open routes from a node are, with those of the nodes below. *)
RoutesOf(node, below) ==
    IF node.kind = "plain" THEN {<<>>}
    ELSE UNION {Under(Label(node, k), below[node.to[k]]) : k \in OpenItems(node)}

(* The copies of the nodes below show nothing but open routes, *)
Honest(deeper, below, n) ==
    \A at \in 1..n, budget \in Budgets : deeper[at][budget].shown \subseteq below[at]

(* and all of them unless they say so. *)
Unabridged(deeper, below, n) ==
    \A at \in 1..n, budget \in Budgets :
        ~deeper[at][budget].truncated => below[at] \subseteq deeper[at][budget].shown

(* One item more adds its open routes, or the copy says so. *)
LEMMA ItemTells ==
    ASSUME NEW n \in Nat, NEW node, NodeFits(node, n), node.kind \in {"list", "mapping"},
           NEW deeper \in Levels(n), NEW below \in Reaches(n),
           NEW copied \in Copies, NEW k \in 1..Len(node.to)
    PROVE  LET after == VisitItem(node, deeper, copied, k)
               more == Under(Label(node, k), below[node.to[k]])
           IN  /\ Honest(deeper, below, n) =>
                    after.shown \subseteq copied.shown \cup (IF k \in OpenItems(node) THEN more ELSE {})
               /\ Unabridged(deeper, below, n) /\ ~after.truncated =>
                    /\ ~copied.truncated /\ copied.shown \subseteq after.shown
                    /\ k \in OpenItems(node) => more \subseteq after.shown
<1> DEFINE after == VisitItem(node, deeper, copied, k)
           more == Under(Label(node, k), below[node.to[k]])
           one == deeper[node.to[k]][copied.remaining]
           under == Under(Label(node, k), one.shown)
<1>0. MaxVisits \in Nat /\ copied.remaining \in -1..MaxVisits /\ copied.truncated \in BOOLEAN
      /\ copied = [shown |-> copied.shown, truncated |-> copied.truncated,
                   remaining |-> copied.remaining]
  BY SnapshotAssumption DEF Copies
<1>1. node.to[k] \in 1..n /\ k \in DOMAIN node.to
  <2>1. node.to \in Seq(1..n)
    BY DEF NodeFits, NodesTo
  <2> QED
    BY <2>1, ElementOfSeq, LenProperties
<1>2. k \in OpenItems(node)
        <=> ~(node.kind = "mapping" /\ (~node.keys[k].string \/ Secret(node.keys[k])))
  <2>1. CASE node.kind = "mapping"
    <3>1. node.keys \in Seq(Keys) /\ k \in 1..Len(node.keys)
      BY <2>1 DEF NodeFits, NodesTo
    <3>2. node.keys[k] \in Keys
      BY <3>1, ElementOfSeq
    <3>3. node.keys[k].secret \in {"no", "head", "tail"}
      BY <3>2, SubjectsAssumption
    <3> QED
      BY <1>1, <2>1, <3>3 DEF OpenItems, Secret
  <2>2. CASE node.kind # "mapping"
    BY <1>1, <2>2 DEF OpenItems
  <2> QED
    BY <2>1, <2>2
<1>3. CASE copied.remaining <= 0
  <2>1. after = [copied EXCEPT !.truncated = TRUE]
    BY <1>3 DEF VisitItem
  <2>2. after.truncated /\ after.shown = copied.shown
    BY <1>0, <2>1
  <2> HIDE DEF after, more
  <2>3. QED
    BY <2>2 DEF after, more
<1>4. CASE ~(copied.remaining <= 0) /\ k \notin OpenItems(node)
  <2>1. after = copied
    BY <1>2, <1>4 DEF VisitItem
  <2> HIDE DEF after, more
  <2> QED
    BY <1>4, <2>1 DEF after, more
<1>5. CASE ~(copied.remaining <= 0) /\ k \in OpenItems(node)
  <2>1. after = Copied(copied.shown \cup under, copied.truncated \/ one.truncated, one.remaining)
    BY <1>2, <1>5 DEF VisitItem
  <2>2. after.shown = copied.shown \cup under /\ (after.truncated <=> copied.truncated \/ one.truncated)
    <3> DEFINE flag == copied.truncated \/ one.truncated
    <3>1. after = Copied(copied.shown \cup under, flag, one.remaining)
      BY <2>1
    <3> HIDE DEF after, under, flag
    <3>2. after.shown = copied.shown \cup under /\ after.truncated = flag
      BY <3>1 DEF Copied
    <3> QED
      BY <3>2 DEF flag
  <2>3. copied.remaining \in Budgets
    BY <1>0, <1>5 DEF Budgets
  <2>4. Honest(deeper, below, n) => under \subseteq more
    <3>1. Honest(deeper, below, n) => one.shown \subseteq below[node.to[k]]
      BY <1>1, <2>3 DEF Honest
    <3> HIDE DEF one
    <3> QED
      BY <3>1 DEF Under
  <2>5. Unabridged(deeper, below, n) /\ ~one.truncated => more \subseteq under
    <3>1. Unabridged(deeper, below, n) /\ ~one.truncated => below[node.to[k]] \subseteq one.shown
      BY <1>1, <2>3 DEF Unabridged
    <3> HIDE DEF one
    <3> QED
      BY <3>1 DEF Under
  <2> HIDE DEF after, more, under, one
  <2> QED
    BY <1>5, <2>2, <2>4, <2>5 DEF after, more
<1> QED
  BY <1>3, <1>4, <1>5
(* All its items together show their open routes, or the copy says so. *)
LEMMA ItemsTell ==
    ASSUME NEW n \in Nat, NEW node, NodeFits(node, n), node.kind \in {"list", "mapping"},
           NEW deeper \in Levels(n), NEW below \in Reaches(n), NEW remaining \in Budgets
    PROVE  LET all == VisitItems(node, deeper, remaining)
           IN  /\ all \in Copies
               /\ Honest(deeper, below, n) => all.shown \subseteq RoutesOf(node, below)
               /\ Unabridged(deeper, below, n) /\ ~all.truncated =>
                    RoutesOf(node, below) \subseteq all.shown
<1> DEFINE v == Visited(node)
           all == VisitItems(node, deeper, remaining)
           more(k) == Under(Label(node, k), below[node.to[k]])
           open == OpenItems(node)
           visited == AllVisited(node, deeper, remaining)
           cut == visited.truncated \/ (node.kind = "list" /\ v < Len(node.to))
<1>1. v \in Nat /\ v <= Len(node.to) /\ Len(node.to) \in Nat /\ DOMAIN node.to = 1..Len(node.to)
  <2>1. node.to \in Seq(1..n)
    BY DEF NodeFits, NodesTo
  <2>2. Len(node.to) \in Nat /\ DOMAIN node.to = 1..Len(node.to)
    BY <2>1, LenProperties
  <2> QED
    BY <2>2, SnapshotAssumption DEF Visited
<1>2. PICK st : ItemsVisited(node, deeper, remaining, st)
  BY ItemSteps
<1>3. /\ st \in [0..v -> Copies] /\ st[0] = Nothing(remaining) /\ st[v] = visited
      /\ \A k \in 1..v : st[k] = VisitItem(node, deeper, st[k - 1], k)
  BY <1>2 DEF ItemsVisited
<1>4. visited \in Copies
  <2>1. v \in 0..v
    BY <1>1
  <2> QED
    BY <1>3, <2>1
<1>5. all = [visited EXCEPT !.truncated = cut]
  BY DEF VisitItems, AllVisited, Visited, Nothing
<1>6. all \in Copies /\ all.shown = visited.shown /\ all.truncated = cut
  <2>1. cut \in BOOLEAN
    BY <1>4 DEF Copies
  <2> HIDE DEF visited, all, cut
  <2> QED
    BY <1>4, <1>5, <2>1 DEF Copies
<1> HIDE DEF v, visited, all, more
<1>7. RoutesOf(node, below) = UNION {more(k) : k \in open}
  BY DEF RoutesOf, more
<1>8. st[0].shown = {}
  BY <1>3 DEF Nothing, Copied
<1>9. ASSUME NEW k \in 1..v
      PROVE  /\ Honest(deeper, below, n) =>
                st[k].shown \subseteq st[k - 1].shown \cup (IF k \in open THEN more(k) ELSE {})
             /\ Unabridged(deeper, below, n) /\ ~st[k].truncated =>
                /\ ~st[k - 1].truncated /\ st[k - 1].shown \subseteq st[k].shown
                /\ k \in open => more(k) \subseteq st[k].shown
  <2>1. st[k - 1] \in Copies /\ k \in 1..Len(node.to)
    <3>1. k - 1 \in 0..v
      BY <1>1
    <3> QED
      BY <1>1, <1>3, <3>1
  <2>2. st[k] = VisitItem(node, deeper, st[k - 1], k)
    BY <1>3
  <2> DEFINE copied == st[k - 1]
             after == VisitItem(node, deeper, copied, k)
  <2>3. /\ Honest(deeper, below, n) =>
            after.shown \subseteq copied.shown \cup (IF k \in open THEN more(k) ELSE {})
        /\ Unabridged(deeper, below, n) /\ ~after.truncated =>
            /\ ~copied.truncated /\ copied.shown \subseteq after.shown
            /\ k \in open => more(k) \subseteq after.shown
    <3> HIDE DEF copied
    <3> QED
      BY <2>1, ItemTells DEF copied, more
  <2>4. st[k] = after /\ st[k - 1] = copied
    BY <2>2
  <2> HIDE DEF after, copied
  <2> QED
    BY <2>3, <2>4
<1>10. ASSUME Honest(deeper, below, n) PROVE all.shown \subseteq RoutesOf(node, below)
  <2> DEFINE S == {k \in 0..v : st[k].shown \subseteq UNION {more(j) : j \in open}}
  <2>1. 0 \in S
    BY <1>1, <1>8
  <2>2. ASSUME NEW k \in 1..v, k - 1 \in S PROVE k \in S
    BY <1>9, <1>10, <2>2
  <2>3. v \in S
    <3> HIDE DEF S
    <3>1. \A k \in 0..v : k \in S
      BY <1>1, <2>1, <2>2, CountUp
    <3> QED
      BY <1>1, <3>1
  <2> QED
    BY <1>3, <1>6, <1>7, <2>3
<1>11. ASSUME Unabridged(deeper, below, n), ~all.truncated
       PROVE  RoutesOf(node, below) \subseteq all.shown
  <2> DEFINE S == {k \in 0..v : ~st[k].truncated =>
                        \A j \in 1..k : j \in open => more(j) \subseteq st[k].shown}
  <2>1. 0 \in S
    BY <1>1
  <2>2. ASSUME NEW k \in 1..v, k - 1 \in S PROVE k \in S
    <3>1. SUFFICES ASSUME ~st[k].truncated, NEW j \in 1..k, j \in open
                   PROVE  more(j) \subseteq st[k].shown
      OBVIOUS
    <3>2. ~st[k - 1].truncated /\ st[k - 1].shown \subseteq st[k].shown
      BY <1>9, <1>11, <3>1
    <3>3. CASE j = k
      BY <1>9, <1>11, <3>1, <3>3
    <3>4. CASE j # k
      <4>1. j \in 1..(k - 1)
        BY <3>4
      <4> QED
        BY <2>2, <3>1, <3>2, <4>1
    <3> QED
      BY <3>3, <3>4
  <2>3. v \in S
    <3> HIDE DEF S
    <3>1. \A k \in 0..v : k \in S
      BY <1>1, <2>1, <2>2, CountUp
    <3> QED
      BY <1>1, <3>1
  <2>4. ~visited.truncated /\ v = Len(node.to)
    <3>1. ~cut
      BY <1>6, <1>11
    <3>2. node.kind = "mapping" => Len(node.to) <= MaxItems
      BY DEF NodeFits
    <3> QED
      BY <1>1, <3>1, <3>2, SnapshotAssumption DEF v, Visited
  <2>5. \A j \in open : j \in 1..v
    BY <1>1, <2>4 DEF OpenItems
  <2>6. \A j \in open : more(j) \subseteq visited.shown
    BY <1>3, <2>3, <2>4, <2>5
  <2> QED
    BY <1>6, <1>7, <2>6
<1> QED
  BY <1>6, <1>10, <1>11 DEF all

(* So do the nodes of every kind. *)
LEMMA NodeTells ==
    ASSUME NEW n \in Nat, NEW node, NodeFits(node, n),
           NEW deeper \in Levels(n), NEW below \in Reaches(n), NEW remaining \in Budgets
    PROVE  LET copy == Visit(node, deeper, remaining)
           IN  /\ copy \in Copies
               /\ Honest(deeper, below, n) => copy.shown \subseteq RoutesOf(node, below)
               /\ Unabridged(deeper, below, n) /\ ~copy.truncated =>
                    RoutesOf(node, below) \subseteq copy.shown
<1> DEFINE copy == Visit(node, deeper, remaining)
<1>1. node \in NodesTo(n) /\ node.kind \in NodeKinds /\ MaxVisits \in Nat
  BY SnapshotAssumption DEF NodeFits, NodesTo
<1>2. CASE node.kind = "plain"
  <2>1. copy = Copied({<<>>}, FALSE, remaining)
    BY <1>2 DEF Visit
  <2>2. <<>> \in Routes
    BY EmptySeq DEF Routes
  <2>3. copy \in Copies /\ copy.shown = {<<>>}
    BY <1>1, <2>1, <2>2 DEF Copied, Copies, Budgets
  <2> HIDE DEF copy
  <2>4. RoutesOf(node, below) = {<<>>}
    BY <1>2 DEF RoutesOf
  <2> QED
    BY <2>3, <2>4 DEF copy
<1>3. CASE node.kind = "object"
  <2>1. copy = Copied({}, FALSE, remaining)
    BY <1>3 DEF Visit
  <2>2. copy \in Copies /\ copy.shown = {}
    BY <1>1, <2>1 DEF Copied, Copies, Budgets
  <2>3. OpenItems(node) = {}
    <3>1. node.to = <<>>
      BY <1>3 DEF NodeFits
    <3> QED
      BY <3>1 DEF OpenItems
  <2> HIDE DEF copy
  <2>4. RoutesOf(node, below) = {}
    BY <1>3, <2>3 DEF RoutesOf
  <2> QED
    BY <2>2, <2>4 DEF copy
<1>4. CASE node.kind = "wrapper"
  <2> DEFINE one == deeper[node.to[1]][remaining]
             under == Under(Label(node, 1), one.shown)
             more == Under(Label(node, 1), below[node.to[1]])
  <2>1. Len(node.to) = 1 /\ node.to \in Seq(1..n)
    BY <1>1, <1>4 DEF NodeFits, NodesTo
  <2>2. node.to[1] \in 1..n /\ DOMAIN node.to = {1} /\ 1 \in 1..Len(node.to)
    <3>1. 1 \in 1..Len(node.to) /\ DOMAIN node.to = 1..1
      BY <2>1, LenProperties
    <3> QED
      BY <2>1, <3>1, ElementOfSeq
  <2>3. one \in Copies
    BY <2>2 DEF Levels
  <2>4. under \in SUBSET Routes
    BY <2>2, <2>3, UnderRoutes DEF Copies
  <2>5. copy = [one EXCEPT !.shown = under]
    BY <1>4 DEF Visit
  <2> HIDE DEF copy, one, under
  <2>6. copy \in Copies /\ copy.shown = under /\ copy.truncated = one.truncated
    BY <2>3, <2>4, <2>5 DEF Copies
  <2>7. RoutesOf(node, below) = more
    <3>1. OpenItems(node) = {1}
      BY <1>4, <2>2 DEF OpenItems
    <3> QED
      BY <1>4, <3>1 DEF RoutesOf
  <2> HIDE DEF more
  <2>8. Honest(deeper, below, n) => under \subseteq more
    <3>1. Honest(deeper, below, n) => one.shown \subseteq below[node.to[1]]
      BY <2>2 DEF Honest, one
    <3> QED
      BY <3>1 DEF Under, under, more
  <2>9. Unabridged(deeper, below, n) /\ ~one.truncated => more \subseteq under
    <3>1. Unabridged(deeper, below, n) /\ ~one.truncated => below[node.to[1]] \subseteq one.shown
      BY <2>2 DEF Unabridged, one
    <3> QED
      BY <3>1 DEF Under, under, more
  <2> QED
    BY <2>6, <2>7, <2>8, <2>9 DEF copy
<1>5. CASE node.kind \in {"list", "mapping"}
  <2>1. copy = VisitItems(node, deeper, remaining)
    BY <1>5 DEF Visit
  <2> QED
    BY <1>5, <2>1, ItemsTell
<1> QED
  BY <1>1, <1>2, <1>3, <1>4, <1>5 DEF NodeKinds
CutOff(budget) == Copied({}, TRUE, budget - 1)

VisitLevel(nodes, deeper) ==
    [at \in DOMAIN nodes |-> [budget \in Budgets |->
        IF budget = 0 THEN CutOff(budget) ELSE Visit(nodes[at], deeper, budget - 1)]]

CutLevel(nodes) == [at \in DOMAIN nodes |-> [budget \in Budgets |-> CutOff(budget)]]

(* What snapshot_value knows of every node, with every room. *)
VisitTable(nodes, visit) ==
    /\ visit \in [0..(MaxDepth + 1) -> Levels(Len(nodes))]
    /\ visit[0] = CutLevel(nodes)
    /\ \A room \in 1..(MaxDepth + 1) : visit[room] = VisitLevel(nodes, visit[room - 1])
    /\ \A root \in DOMAIN nodes : Snapshot(nodes, root) = visit[MaxDepth + 1][root][MaxVisits]

(* One level less deep there are copies again. *)
LEMMA LevelCopied ==
    ASSUME NEW nodes, ValueFits(nodes), NEW deeper \in Levels(Len(nodes))
    PROVE  VisitLevel(nodes, deeper) \in Levels(Len(nodes)) /\ CutLevel(nodes) \in Levels(Len(nodes))
<1> DEFINE n == Len(nodes)
           below == [at \in 1..n |-> {}]
<1>1. n \in Nat /\ DOMAIN nodes = 1..n /\ MaxVisits \in Nat
  BY LenProperties, SnapshotAssumption DEF ValueFits
<1>2. below \in Reaches(n)
  BY DEF Reaches
<1>3. \A budget \in Budgets : CutOff(budget) \in Copies
  BY <1>1 DEF CutOff, Copied, Copies, Budgets
<1>4. ASSUME NEW at \in 1..n, NEW budget \in Budgets, budget # 0
      PROVE  Visit(nodes[at], deeper, budget - 1) \in Copies
  <2>1. NodeFits(nodes[at], n) /\ budget - 1 \in Budgets
    BY <1>1, <1>4 DEF ValueFits, Budgets
  <2> HIDE DEF n, below
  <2> QED
    BY <1>1, <1>2, <2>1, NodeTells DEF n
<1> QED
  BY <1>1, <1>3, <1>4 DEF VisitLevel, CutLevel, Levels

(* The copy of the model is the last of such a table. *)
LEMMA SnapshotTable ==
    ASSUME NEW nodes, ValueFits(nodes) PROVE \E visit : VisitTable(nodes, visit)
<1> DEFINE n == Len(nodes)
           d == MaxDepth + 1
           P == Levels(n)
           F == [room \in 1..d |-> [deeper \in P |-> VisitLevel(nodes, deeper)]]
           body(w) ==
             [room \in 0..(MaxDepth + 1) |->
                [at \in DOMAIN nodes |-> [budget \in 0..MaxVisits |->
                  IF budget = 0 \/ room = 0 THEN Copied({}, TRUE, budget - 1)
                  ELSE Visit(nodes[at], w[room - 1], budget - 1)]]]
           visit == CHOOSE w : w = body(w)
<1>1. n \in Nat /\ DOMAIN nodes = 1..n /\ d \in Nat
  BY LenProperties, SnapshotAssumption DEF ValueFits
<1>2. CutLevel(nodes) \in P /\ \A deeper \in P : VisitLevel(nodes, deeper) \in P
  <2>1. CutLevel(nodes) \in P
    <3>1. \A budget \in Budgets : CutOff(budget) \in Copies
      BY SnapshotAssumption DEF CutOff, Copied, Copies, Budgets
    <3> QED
      BY <1>1, <3>1 DEF CutLevel, Levels
  <2> QED
    BY <2>1, LevelCopied
<1>3. Stepping(P, CutLevel(nodes), d, F)
  <2> HIDE DEF P, n, d
  <2> QED
    BY <1>1, <1>2 DEF Stepping
<1>4. \A root \in DOMAIN nodes : Snapshot(nodes, root) = visit[MaxDepth + 1][root][MaxVisits]
  BY Zenon DEF Snapshot
<1>5. \A w : /\ body(w)[0] = CutLevel(nodes)
             /\ \A room \in 1..d : body(w)[room] = VisitLevel(nodes, w[room - 1])
  <2>1. ASSUME NEW w, NEW room \in 1..d
        PROVE  body(w)[room] = VisitLevel(nodes, w[room - 1])
    <3>1. room \in 0..(MaxDepth + 1) /\ room # 0
      BY <1>1
    <3> QED
      BY <3>1 DEF VisitLevel, CutOff, Budgets
  <2>2. ASSUME NEW w PROVE body(w)[0] = CutLevel(nodes)
    <3>1. 0 \in 0..(MaxDepth + 1)
      BY <1>1
    <3> QED
      BY <3>1 DEF CutLevel, CutOff, Budgets
  <2> QED
    BY <2>1, <2>2
<1>6. visit = body(visit)
  <2>1. PICK w : Sequenced(P, CutLevel(nodes), d, F, w)
    <3> HIDE DEF P, n, d, F
    <3> QED
      BY <1>3, LevelsExist
  <2>2. w \in [0..d -> P] /\ w[0] = CutLevel(nodes)
        /\ \A room \in 1..d : w[room] = F[room][w[room - 1]]
    BY <2>1 DEF Sequenced
  <2>3. \A room \in 1..d : w[room] = VisitLevel(nodes, w[room - 1])
    <3>1. \A room \in 1..d : room - 1 \in 0..d
      BY <1>1
    <3> HIDE DEF P, d
    <3> QED
      BY <2>2, <3>1
  <2>4. \A room \in 0..d : w[room] = body(w)[room]
    <3>1. \A room \in 0..d : room = 0 \/ room \in 1..d
      BY <1>1
    <3> HIDE DEF P, d, body
    <3> QED
      BY <1>5, <2>2, <2>3, <3>1
  <2>5. w = [room \in 0..d |-> w[room]] /\ body(w) = [room \in 0..d |-> body(w)[room]]
    <3>1. w = [room \in 0..d |-> w[room]]
      <4> HIDE DEF P, d
      <4> QED
        BY <2>2
    <3>2. body(w) = [room \in 0..d |-> body(w)[room]]
      BY DEF d
    <3> QED
      BY <3>1, <3>2
  <2>6. w = body(w)
    <3> HIDE DEF body, d
    <3> QED
      BY <2>4, <2>5
  <2> HIDE DEF body
  <2> QED
    BY <2>6
<1>7. DOMAIN visit = 0..d
  <2> HIDE DEF visit
  <2> QED
    BY <1>6
<1>8. visit[0] = CutLevel(nodes) /\ \A room \in 1..d : visit[room] = VisitLevel(nodes, visit[room - 1])
  <2> HIDE DEF visit, body, d
  <2> QED
    BY <1>5, <1>6
<1>9. visit \in [0..d -> P]
  <2> DEFINE S == {room \in 0..d : visit[room] \in P}
  <2> HIDE DEF visit, P, d, body
  <2>1. 0 \in S
    BY <1>1, <1>2, <1>8
  <2>2. \A room \in 1..d : room - 1 \in S => room \in S
    BY <1>1, <1>2, <1>8
  <2>3. \A room \in 0..d : room \in S
    <3> HIDE DEF S
    <3> QED
      BY <1>1, <2>1, <2>2, CountUp
  <2>4. visit = [room \in 0..d |-> visit[room]]
    BY <1>6, <1>7 DEF body, d
  <2> QED
    BY <2>3, <2>4
<1>10. VisitTable(nodes, visit)
  <2> HIDE DEF visit
  <2> QED
    BY <1>4, <1>8, <1>9 DEF VisitTable
<1> QED
  BY <1>10
NoRoutes(nodes) == [at \in DOMAIN nodes |-> {}]

RouteLevel(nodes, below) == [at \in DOMAIN nodes |-> RoutesOf(nodes[at], below)]

(* The routes of every length up to n. *)
RouteTable(nodes, n, routes) ==
    /\ routes \in [0..n -> Reaches(Len(nodes))]
    /\ routes[0] = NoRoutes(nodes)
    /\ \A m \in 1..n : routes[m] = RouteLevel(nodes, routes[m - 1])
    /\ \A root \in DOMAIN nodes : OpenRoutes(nodes, root, n) = routes[n][root]

(* With one node more they are routes again. *)
LEMMA LevelReached ==
    ASSUME NEW nodes, ValueFits(nodes), NEW below \in Reaches(Len(nodes))
    PROVE  RouteLevel(nodes, below) \in Reaches(Len(nodes))
<1> DEFINE n == Len(nodes)
<1>1. n \in Nat /\ DOMAIN nodes = 1..n
  BY LenProperties DEF ValueFits
<1>2. ASSUME NEW at \in 1..n PROVE RoutesOf(nodes[at], below) \in SUBSET Routes
  <2> DEFINE node == nodes[at]
  <2>1. NodeFits(node, n)
    BY DEF ValueFits
  <2> HIDE DEF node, n
  <2>2. <<>> \in Routes
    BY EmptySeq DEF Routes
  <2>3. ASSUME NEW k \in OpenItems(node)
        PROVE  Under(Label(node, k), below[node.to[k]]) \in SUBSET Routes
    <3>1. node.to \in Seq(1..n)
      BY <2>1 DEF NodeFits, NodesTo
    <3>2. k \in 1..Len(node.to)
      BY <3>1, LenProperties DEF OpenItems
    <3>3. node.to[k] \in 1..n
      BY <3>1, <3>2, ElementOfSeq
    <3>4. below[node.to[k]] \in SUBSET Routes
      BY <3>3 DEF Reaches, n
    <3> QED
      BY <1>1, <2>1, <3>2, <3>4, UnderRoutes
  <2>4. RoutesOf(node, below) \in SUBSET Routes
    BY <2>2, <2>3 DEF RoutesOf
  <2> QED
    BY <2>4 DEF node
<1> QED
  BY <1>1, <1>2 DEF RouteLevel, Reaches

(* The routes of the model are the last of such a table. *)
LEMMA RoutesTable ==
    ASSUME NEW nodes, ValueFits(nodes), NEW n \in Nat
    PROVE  \E routes : RouteTable(nodes, n, routes)
<1> DEFINE P == Reaches(Len(nodes))
           F == [m \in 1..n |-> [below \in P |-> RouteLevel(nodes, below)]]
           body(w) ==
             [m \in 0..n |->
                [at \in DOMAIN nodes |->
                    IF m = 0 THEN {}
                    ELSE IF nodes[at].kind = "plain" THEN {<<>>}
                    ELSE UNION {Under(Label(nodes[at], k), w[m - 1][nodes[at].to[k]]) :
                                k \in OpenItems(nodes[at])}]]
           routes == CHOOSE w : w = body(w)
<1>1. Len(nodes) \in Nat /\ DOMAIN nodes = 1..Len(nodes)
  BY LenProperties DEF ValueFits
<1>2. NoRoutes(nodes) \in P /\ \A below \in P : RouteLevel(nodes, below) \in P
  <2>1. NoRoutes(nodes) \in P
    BY <1>1 DEF NoRoutes, Reaches
  <2> QED
    BY <2>1, LevelReached
<1>3. Stepping(P, NoRoutes(nodes), n, F)
  <2> HIDE DEF P
  <2> QED
    BY <1>2 DEF Stepping
<1>4. \A root \in DOMAIN nodes : OpenRoutes(nodes, root, n) = routes[n][root]
  BY Zenon DEF OpenRoutes
<1>5. \A w : /\ body(w)[0] = NoRoutes(nodes)
             /\ \A m \in 1..n : body(w)[m] = RouteLevel(nodes, w[m - 1])
  <2>1. ASSUME NEW w, NEW m \in 1..n PROVE body(w)[m] = RouteLevel(nodes, w[m - 1])
    <3>1. m \in 0..n /\ m # 0
      OBVIOUS
    <3> QED
      BY <3>1 DEF RouteLevel, RoutesOf
  <2>2. ASSUME NEW w PROVE body(w)[0] = NoRoutes(nodes)
    <3>1. 0 \in 0..n
      OBVIOUS
    <3> QED
      BY <3>1 DEF NoRoutes
  <2> HIDE DEF body
  <2> QED
    BY <2>1, <2>2
<1>6. routes = body(routes)
  <2>1. PICK w : Sequenced(P, NoRoutes(nodes), n, F, w)
    <3> HIDE DEF P, F
    <3> QED
      BY <1>3, LevelsExist
  <2>2. w \in [0..n -> P] /\ w[0] = NoRoutes(nodes) /\ \A m \in 1..n : w[m] = F[m][w[m - 1]]
    BY <2>1 DEF Sequenced
  <2>3. \A m \in 1..n : w[m] = RouteLevel(nodes, w[m - 1])
    <3>1. \A m \in 1..n : m - 1 \in 0..n
      OBVIOUS
    <3> HIDE DEF P
    <3> QED
      BY <2>2, <3>1
  <2>4. \A m \in 0..n : w[m] = body(w)[m]
    <3>1. \A m \in 0..n : m = 0 \/ m \in 1..n
      OBVIOUS
    <3> HIDE DEF P, body
    <3> QED
      BY <1>5, <2>2, <2>3, <3>1
  <2>5. w = [m \in 0..n |-> w[m]] /\ body(w) = [m \in 0..n |-> body(w)[m]]
    <3>1. w = [m \in 0..n |-> w[m]]
      <4> HIDE DEF P
      <4> QED
        BY <2>2
    <3> QED
      BY <3>1
  <2>6. w = body(w)
    <3> HIDE DEF body
    <3> QED
      BY <2>4, <2>5
  <2> HIDE DEF body
  <2> QED
    BY <2>6
<1>7. routes = [m \in 0..n |-> routes[m]]
  <2>1. DOMAIN routes = 0..n /\ routes = [m \in 0..n |-> body(routes)[m]]
    <3> HIDE DEF routes
    <3> QED
      BY <1>6
  <2>2. \A m \in 0..n : routes[m] = body(routes)[m]
    <3> HIDE DEF routes, body
    <3> QED
      BY <1>6
  <2> HIDE DEF routes, body
  <2> QED
    BY <2>1, <2>2
<1>8. routes[0] = NoRoutes(nodes) /\ \A m \in 1..n : routes[m] = RouteLevel(nodes, routes[m - 1])
  <2> HIDE DEF routes, body
  <2> QED
    BY <1>5, <1>6
<1>9. routes \in [0..n -> P]
  <2> DEFINE S == {m \in 0..n : routes[m] \in P}
  <2> HIDE DEF routes, P, body
  <2>1. 0 \in S
    BY <1>2, <1>8
  <2>2. \A m \in 1..n : m - 1 \in S => m \in S
    BY <1>2, <1>8
  <2>3. \A m \in 0..n : m \in S
    <3> HIDE DEF S
    <3> QED
      BY <2>1, <2>2, CountUp
  <2> QED
    BY <1>7, <2>3
<1>10. RouteTable(nodes, n, routes)
  <2> HIDE DEF routes
  <2> QED
    BY <1>4, <1>8, <1>9 DEF RouteTable
<1> QED
  BY <1>10

(* Whatever room and visits there are, a copy shows only open routes. *)
LEMMA CopiesHonest ==
    ASSUME NEW nodes, ValueFits(nodes), NEW visit, VisitTable(nodes, visit),
           NEW routes, RouteTable(nodes, MaxDepth + 1, routes)
    PROVE  Honest(visit[MaxDepth + 1], routes[MaxDepth + 1], Len(nodes))
<1> DEFINE n == Len(nodes)
           d == MaxDepth + 1
           S == {room \in 0..d : Honest(visit[room], routes[room], n)}
<1>1. n \in Nat /\ DOMAIN nodes = 1..n /\ d \in Nat /\ MaxVisits \in Nat
  BY LenProperties, SnapshotAssumption DEF ValueFits
<1>2. /\ visit \in [0..d -> Levels(n)] /\ visit[0] = CutLevel(nodes)
      /\ \A room \in 1..d : visit[room] = VisitLevel(nodes, visit[room - 1])
      /\ routes \in [0..d -> Reaches(n)] /\ routes[0] = NoRoutes(nodes)
      /\ \A room \in 1..d : routes[room] = RouteLevel(nodes, routes[room - 1])
  BY DEF VisitTable, RouteTable
<1> HIDE DEF n, d
<1>3. 0 \in S
  <2>1. \A budget \in Budgets : CutOff(budget).shown = {}
    BY DEF CutOff, Copied
  <2>2. Honest(visit[0], routes[0], n)
    BY <1>1, <1>2, <2>1 DEF Honest, CutLevel, NoRoutes
  <2> QED
    BY <1>1, <2>2
<1>4. ASSUME NEW room \in 1..d, room - 1 \in S PROVE room \in S
  <2> DEFINE deeper == visit[room - 1]
             below == routes[room - 1]
  <2>1. room - 1 \in 0..d /\ Honest(deeper, below, n)
    BY <1>4
  <2>2. deeper \in Levels(n) /\ below \in Reaches(n)
    BY <1>2, <2>1
  <2>3. visit[room] = VisitLevel(nodes, deeper) /\ routes[room] = RouteLevel(nodes, below)
    BY <1>2
  <2> HIDE DEF deeper, below
  <2>4. ASSUME NEW at \in 1..n, NEW budget \in Budgets
        PROVE  visit[room][at][budget].shown \subseteq routes[room][at]
    <3>1. CASE budget = 0
      BY <1>1, <2>3, <3>1 DEF VisitLevel, CutOff, Copied
    <3>2. CASE budget # 0
      <4>1. NodeFits(nodes[at], n) /\ budget - 1 \in Budgets
        BY <1>1, <3>2 DEF ValueFits, Budgets, n
      <4>2. Visit(nodes[at], deeper, budget - 1).shown \subseteq RoutesOf(nodes[at], below)
        BY <1>1, <2>1, <2>2, <4>1, NodeTells
      <4>3. visit[room][at][budget] = Visit(nodes[at], deeper, budget - 1)
        BY <1>1, <2>3, <3>2 DEF VisitLevel
      <4>4. routes[room][at] = RoutesOf(nodes[at], below)
        BY <1>1, <2>3 DEF RouteLevel
      <4> QED
        BY <4>2, <4>3, <4>4
    <3> QED
      BY <3>1, <3>2
  <2>5. Honest(visit[room], routes[room], n)
    BY <2>4 DEF Honest
  <2> QED
    BY <2>5
<1>5. d \in S
  <2>1. \A room \in 0..d : room \in S
    <3> HIDE DEF S
    <3> QED
      BY <1>1, <1>3, <1>4, CountUp
  <2> QED
    BY <1>1, <2>1
<1> QED
  BY <1>5 DEF n, d

(* Unless it says that it was truncated, it shows all of any length. *)
LEMMA CopiesComplete ==
    ASSUME NEW nodes, ValueFits(nodes), NEW visit, VisitTable(nodes, visit),
           NEW far \in Nat, NEW routes, RouteTable(nodes, far, routes)
    PROVE  Unabridged(visit[MaxDepth + 1], routes[far], Len(nodes))
<1> DEFINE n == Len(nodes)
           d == MaxDepth + 1
           S == {room \in 0..d : \A m \in 0..far : Unabridged(visit[room], routes[m], n)}
<1>1. n \in Nat /\ DOMAIN nodes = 1..n /\ d \in Nat /\ MaxVisits \in Nat
  BY LenProperties, SnapshotAssumption DEF ValueFits
<1>2. /\ visit \in [0..d -> Levels(n)] /\ visit[0] = CutLevel(nodes)
      /\ \A room \in 1..d : visit[room] = VisitLevel(nodes, visit[room - 1])
      /\ routes \in [0..far -> Reaches(n)] /\ routes[0] = NoRoutes(nodes)
      /\ \A m \in 1..far : routes[m] = RouteLevel(nodes, routes[m - 1])
  BY DEF VisitTable, RouteTable
<1> HIDE DEF n, d
<1>3. 0 \in S
  <2>1. \A budget \in Budgets : CutOff(budget).truncated
    BY DEF CutOff, Copied
  <2>2. \A m \in 0..far : Unabridged(visit[0], routes[m], n)
    BY <1>1, <1>2, <2>1 DEF Unabridged, CutLevel
  <2> QED
    BY <1>1, <2>2
<1>4. ASSUME NEW room \in 1..d, room - 1 \in S PROVE room \in S
  <2> DEFINE deeper == visit[room - 1]
  <2>1. room - 1 \in 0..d /\ \A m \in 0..far : Unabridged(deeper, routes[m], n)
    BY <1>4
  <2>2. deeper \in Levels(n)
    BY <1>2, <2>1
  <2>3. visit[room] = VisitLevel(nodes, deeper)
    BY <1>2
  <2> HIDE DEF deeper
  <2>4. ASSUME NEW m \in 0..far, NEW at \in 1..n, NEW budget \in Budgets,
               ~visit[room][at][budget].truncated
        PROVE  routes[m][at] \subseteq visit[room][at][budget].shown
    <3>1. CASE m = 0
      BY <1>1, <1>2, <3>1 DEF NoRoutes
    <3>2. CASE m # 0
      <4>1. budget # 0
        BY <1>1, <2>3, <2>4 DEF VisitLevel, CutOff, Copied
      <4>2. NodeFits(nodes[at], n) /\ budget - 1 \in Budgets
        BY <1>1, <4>1 DEF ValueFits, Budgets, n
      <4> DEFINE below == routes[m - 1]
      <4>3. m - 1 \in 0..far /\ m \in 1..far
        BY <3>2
      <4>4. below \in Reaches(n) /\ Unabridged(deeper, below, n) /\ routes[m] = RouteLevel(nodes, below)
        BY <1>2, <2>1, <4>3
      <4> HIDE DEF below
      <4>5. visit[room][at][budget] = Visit(nodes[at], deeper, budget - 1)
        BY <1>1, <2>3, <4>1 DEF VisitLevel
      <4>6. routes[m][at] = RoutesOf(nodes[at], below)
        BY <1>1, <4>4 DEF RouteLevel
      <4>7. ~Visit(nodes[at], deeper, budget - 1).truncated
        BY <2>4, <4>5
      <4>8. RoutesOf(nodes[at], below) \subseteq Visit(nodes[at], deeper, budget - 1).shown
        BY <1>1, <2>2, <4>2, <4>4, <4>7, NodeTells
      <4> QED
        BY <4>5, <4>6, <4>8
    <3> QED
      BY <3>1, <3>2
  <2>5. \A m \in 0..far : Unabridged(visit[room], routes[m], n)
    BY <2>4 DEF Unabridged
  <2> QED
    BY <2>5
<1>5. d \in S
  <2>1. \A room \in 0..d : room \in S
    <3> HIDE DEF S
    <3> QED
      BY <1>1, <1>3, <1>4, CountUp
  <2> QED
    BY <1>1, <2>1
<1> QED
  BY <1>5 DEF n, d
(* A snapshot tells the truth about its value. *)
LEMMA SnapshotTells ==
    ASSUME NEW nodes, ValueFits(nodes), NEW root \in DOMAIN nodes, NEW far \in Nat
    PROVE  LET copy == Snapshot(nodes, root)
           IN  /\ copy.shown \subseteq OpenRoutes(nodes, root, MaxDepth + 1)
               /\ ~copy.truncated => OpenRoutes(nodes, root, far) \subseteq copy.shown
<1> DEFINE d == MaxDepth + 1
<1>1. root \in 1..Len(nodes) /\ d \in Nat /\ MaxVisits \in Budgets
  BY LenProperties, SnapshotAssumption DEF ValueFits, Budgets
<1>2. PICK visit : VisitTable(nodes, visit)
  BY SnapshotTable
<1>3. Snapshot(nodes, root) = visit[d][root][MaxVisits]
  BY <1>2 DEF VisitTable
<1>4. Snapshot(nodes, root).shown \subseteq OpenRoutes(nodes, root, d)
  <2>1. PICK routes : RouteTable(nodes, d, routes)
    BY <1>1, RoutesTable
  <2>2. OpenRoutes(nodes, root, d) = routes[d][root]
    BY <2>1 DEF RouteTable
  <2>3. Honest(visit[d], routes[d], Len(nodes))
    BY <1>2, <2>1, CopiesHonest
  <2> QED
    BY <1>1, <1>3, <2>2, <2>3 DEF Honest
<1>5. ASSUME ~Snapshot(nodes, root).truncated
      PROVE  OpenRoutes(nodes, root, far) \subseteq Snapshot(nodes, root).shown
  <2>1. PICK routes : RouteTable(nodes, far, routes)
    BY RoutesTable
  <2>2. OpenRoutes(nodes, root, far) = routes[far][root]
    BY <2>1 DEF RouteTable
  <2>3. Unabridged(visit[d], routes[far], Len(nodes))
    BY <1>2, <2>1, CopiesComplete
  <2> QED
    BY <1>1, <1>3, <1>5, <2>2, <2>3 DEF Unabridged
<1> QED
  BY <1>4, <1>5

(* Whatever a value contains, shares or is contained in, its snapshot      *)
(* shows what stood there and nothing behind the name of a credential, and *)
(* says so unless it shows all the rest (snapshot_value).                  *)
THEOREM SnapshotsTellTheTruth == SubjectsSpec => []SnapshotsTruthful
<1>1. SubjectOK => SnapshotsTruthful
  <2> SUFFICES ASSUME SubjectOK, Is("value") PROVE SnapshotsTruthful
    BY DEF SnapshotsTruthful
  <2> DEFINE nodes == subject.items
             far == MaxDepth + 1 + Len(nodes)
  <2>1. ValueFits(nodes)
    BY DEF SubjectOK
  <2>2. far \in Nat
    BY <2>1, LenProperties, SnapshotAssumption DEF ValueFits
  <2> HIDE DEF far
  <2>3. ASSUME NEW root \in DOMAIN nodes
        PROVE  LET copy == Snapshot(nodes, root)
               IN  /\ copy.shown \subseteq OpenRoutes(nodes, root, MaxDepth + 1)
                   /\ ~copy.truncated => OpenRoutes(nodes, root, far) \subseteq copy.shown
    BY <2>1, <2>2, SnapshotTells
  <2> QED
    BY <2>3 DEF SnapshotsTruthful, far
<1> QED
  BY <1>1, SubjectInvariant, PTL
=============================================================================

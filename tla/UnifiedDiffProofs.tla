-------------------------- MODULE UnifiedDiffProofs --------------------------
(***************************************************************************)
(* What _apply_unified_diff promises, of any text, any diff and any bound: *)
(* a parsed diff goes through exactly if its hunks name blocks of the text *)
(* in order, just these blocks are replaced, neither end leaves a trace,   *)
(* and what a patch did, its reversal takes back.                          *)
(*                                                                         *)
(* The model folds ParseLine over the diff, ApplyHunk over the hunks and   *)
(* ApplyLine over each body.  FoldExists and FoldSteps unfold a fold over  *)
(* 1..n into the states it goes through, once and for all; each fold of    *)
(* the model is then reasoned about state by state, from the first.        *)
(***************************************************************************)
EXTENDS PatchedTexts, FoldLemmas

-----------------------------------------------------------------------------
(* Parsing. *)

HunkSet == [old_start : Nat, body : Seq(EditLines)]

ParserStates ==
    [hunks : Seq(HunkSet), open : BOOLEAN, start : Nat, body : Seq(EditLines),
     old : Int, new : Int, ok : BOOLEAN]

LineSet == HeaderLines \cup EditLines \cup {Blank, NoNewlineMarker, FileHeader, Other}

(* What a line is can be told from its first character. *)
LEMMA LineKinds ==
    ASSUME NEW line \in LineSet
    PROVE  /\ line.op = "@" => line \in HeaderLines
           /\ line.op \in {" ", "-", "+"} => line \in EditLines
<1>1. line \in HeaderLines => line.op = "@"
  BY DEF HeaderLines
<1>2. line \in EditLines => line.op \in {" ", "-", "+"}
  BY DEF EditLines
<1>3. line = Blank => line.op = "blank"
  BY DEF Blank
<1>4. line = NoNewlineMarker => line.op \notin {"@", " ", "-", "+"}
  BY DEF NoNewlineMarker
<1>5. line = FileHeader => line.op \notin {"@", " ", "-", "+"}
  BY DEF FileHeader
<1>6. line = Other => line.op = "other"
  BY DEF Other
<1>7. line \in HeaderLines \cup EditLines \cup {Blank, NoNewlineMarker, FileHeader, Other}
  BY DEF LineSet
<1> QED
  BY <1>1, <1>2, <1>3, <1>4, <1>5, <1>6, <1>7

(* Whatever line comes next, the parser holds well-formed hunks. *)
LEMMA ParseKeeps ==
    ASSUME NEW p \in ParserStates, NEW line \in LineSet
    PROVE  ParseLine(p, line) \in ParserStates
<1>1. CASE ParseLine(p, line) = p
  BY <1>1
<1>2. CASE line.op = "@"
  <2>1. line \in HeaderLines
    BY <1>2, LineKinds
  <2>2. Collected(p) \in Seq(HunkSet)
    <3>1. p.hunks \in Seq(HunkSet) /\ p.start \in Nat /\ p.body \in Seq(EditLines)
      BY DEF ParserStates
    <3>2. [old_start |-> p.start, body |-> p.body] \in HunkSet
      BY <3>1 DEF HunkSet
    <3> QED
      BY <3>1, <3>2, AppendProperties DEF Collected
  <2>3. Count(line.old) \in Int /\ Count(line.new) \in Int /\ line.start \in Nat
    BY <2>1 DEF HeaderLines, Count, Absent
  <2>4. <<>> \in Seq(EditLines)
    BY EmptySeq
  <2>5. OpenHunk(p, line) \in ParserStates
    BY <2>2, <2>3, <2>4 DEF OpenHunk, ParserStates
  <2> QED
    BY <1>2, <2>5 DEF ParseLine
<1>3. ASSUME NEW l \in EditLines PROVE TakeLine(p, l) \in ParserStates
  <2>1. /\ p.body \in Seq(EditLines) /\ p.old \in Int /\ p.new \in Int
        /\ [op |-> l.op, text |-> l.text] \in EditLines
    BY DEF ParserStates, EditLines
  <2>2. Append(p.body, [op |-> l.op, text |-> l.text]) \in Seq(EditLines)
    BY <2>1, AppendProperties
  <2> DEFINE b == Append(p.body, [op |-> l.op, text |-> l.text])
             m == IF l.op = "+" THEN p.old ELSE p.old - 1
             n == IF l.op = "-" THEN p.new ELSE p.new - 1
  <2>3. m \in Int /\ n \in Int
    BY <2>1
  <2>4. TakeLine(p, l) = [p EXCEPT !.body = b, !.old = m, !.new = n]
    BY DEF TakeLine
  <2> HIDE DEF b, m, n
  <2> QED
    BY <2>2, <2>3, <2>4 DEF ParserStates, b
<1>4. CASE line.op \in {" ", "-", "+"}
  <2>1. line \in EditLines
    BY <1>4, LineKinds
  <2>2. [p EXCEPT !.ok = FALSE] \in ParserStates
    BY DEF ParserStates
  <2>3. BodyLine(" ", "") \in EditLines
    BY DiffAssumption DEF EditLines, BodyLine
  <2> QED
    BY <1>3, <1>4, <2>1, <2>2, <2>3 DEF ParseLine
<1>5. CASE line.op \notin {"@", " ", "-", "+"}
  <2>1. [p EXCEPT !.ok = FALSE] \in ParserStates
    BY DEF ParserStates
  <2>2. BodyLine(" ", "") \in EditLines
    BY DiffAssumption DEF EditLines, BodyLine
  <2> QED
    BY <1>3, <1>5, <2>1, <2>2 DEF ParseLine
<1> QED
  BY <1>2, <1>4, <1>5

(* The parser's states over a diff, from ParserStart to what it returns. *)
LEMMA ParsedSteps ==
    ASSUME NEW d \in Seq(LineSet)
    PROVE  \E st \in [0..Len(d) -> ParserStates] :
              /\ st[0] = ParserStart /\ st[Len(d)] = Parsed(d)
              /\ \A k \in 1..Len(d) : st[k] = ParseLine(st[k - 1], d[k])
<1> DEFINE n == Len(d)
           F == [k \in 1..n |-> [p \in ParserStates |-> ParseLine(p, d[k])]]
           Grown(w, s) == IF s = {} THEN ParserStart
                         ELSE ParseLine(w[s \ {Max(s)}], d[Max(s)])
           body(w) == [s \in SUBSET DOMAIN d |-> Grown(w, s)]
           iter == CHOOSE w : w = body(w)
<1>1. n \in Nat /\ DOMAIN d = 1..n /\ \A k \in 1..n : d[k] \in LineSet
  BY LenProperties, ElementOfSeq
<1>2. ParserStart \in ParserStates
  BY EmptySeq DEF ParserStart, ParserStates
<1>3. Stepping(ParserStates, ParserStart, n, F)
  BY <1>1, <1>2, ParseKeeps DEF Stepping
<1>4. Parsed(d) = iter[DOMAIN d]
  BY Zenon DEF Parsed, FoldLeft, MapThenFoldSet
<1>5. iter = body(iter)
  <2>1. PICK w \in [SUBSET (1..n) -> ParserStates] : Walked(ParserStates, ParserStart, n, F, w)
    <3> HIDE DEF F, n
    <3> QED
      BY <1>3, FoldExists
  <2>2. ASSUME NEW s \in SUBSET (1..n) PROVE w[s] = Grown(w, s)
    <3>1. CASE s # {}
      <4>1. Max(s) \in 1..n /\ s \ {Max(s)} \in SUBSET (1..n)
        BY <1>1, <3>1, MaxOfFirst
      <4>2. w[s \ {Max(s)}] \in ParserStates
        BY <4>1
      <4> QED
        BY <2>1, <3>1, <4>1, <4>2 DEF Walked
    <3> QED
      BY <2>1, <3>1 DEF Walked
  <2>3. w = body(w)
    BY <1>1, <2>2
  <2> HIDE DEF body
  <2> QED
    BY <2>3
<1>6. \A s \in SUBSET (1..n) : iter[s] = Grown(iter, s)
  <2> HIDE DEF iter, Grown, n
  <2> QED
    BY <1>1, <1>5
<1> HIDE DEF iter
<1>7. Retraced(ParserStates, ParserStart, n, F, iter)
  <2>1. \A s \in SUBSET (1..n) : s # {} => Max(s) \in 1..n
    BY <1>1, MaxOfFirst
  <2> QED
    BY <1>6, <2>1 DEF Retraced
<1>8. PICK st : Sequenced(ParserStates, ParserStart, n, F, st) /\ st[n] = iter[1..n]
  <2> HIDE DEF F, n
  <2> QED
    BY <1>3, <1>7, FoldSteps
<1>9. \A k \in 1..n : st[k] = ParseLine(st[k - 1], d[k])
  <2>1. \A k \in 1..n : k - 1 \in 0..n
    BY <1>1
  <2> QED
    BY <1>8, <2>1 DEF Sequenced
<1> QED
  BY <1>1, <1>4, <1>8, <1>9 DEF Sequenced

(* What parse_unified_diff returns is well-formed, *)
LEMMA HunksTyped ==
    ASSUME NEW d \in Seq(LineSet)
    PROVE  Parsed(d) \in ParserStates /\ Hunks(d) \in Seq(HunkSet)
<1>1. Parsed(d) \in ParserStates
  <2>1. PICK st \in [0..Len(d) -> ParserStates] : st[Len(d)] = Parsed(d)
    BY ParsedSteps
  <2>2. Len(d) \in 0..Len(d)
    BY LenProperties
  <2> QED
    BY <2>1, <2>2
<1> DEFINE p == Parsed(d)
<1>2. p.hunks \in Seq(HunkSet) /\ p.start \in Nat /\ p.body \in Seq(EditLines)
  BY <1>1 DEF ParserStates
<1>3. [old_start |-> p.start, body |-> p.body] \in HunkSet
  BY <1>2 DEF HunkSet
<1> QED
  BY <1>1, <1>2, <1>3, AppendProperties DEF Hunks, Collected

(* and it reads line by line. *)
LEMMA ParsedLast ==
    ASSUME NEW d \in Seq(LineSet), NEW line \in LineSet
    PROVE  Parsed(Append(d, line)) = ParseLine(Parsed(d), line)
<1> DEFINE e == Append(d, line)
           n == Len(d)
<1>1. /\ n \in Nat /\ e \in Seq(LineSet) /\ Len(e) = n + 1
      /\ e[n + 1] = line /\ \A k \in 1..n : e[k] = d[k]
  BY LenProperties, AppendProperties
<1>2. PICK st \in [0..n -> ParserStates] :
        /\ st[0] = ParserStart /\ st[n] = Parsed(d)
        /\ \A k \in 1..n : st[k] = ParseLine(st[k - 1], d[k])
  BY ParsedSteps
<1>3. PICK su \in [0..(n + 1) -> ParserStates] :
        /\ su[0] = ParserStart /\ su[n + 1] = Parsed(e)
        /\ \A k \in 1..(n + 1) : su[k] = ParseLine(su[k - 1], e[k])
  <2> HIDE DEF e
  <2> QED
    BY <1>1, ParsedSteps
<1>4. ASSUME NEW k \in 1..n, su[k - 1] = st[k - 1] PROVE su[k] = st[k]
  <2>1. k \in 1..(n + 1)
    BY <1>1
  <2> QED
    BY <1>1, <1>2, <1>3, <1>4, <2>1
<1>5. su[n] = st[n]
  <2> DEFINE S == {k \in 0..n : su[k] = st[k]}
  <2>1. 0 \in S
    BY <1>1, <1>2, <1>3
  <2>2. ASSUME NEW k \in 1..n, k - 1 \in S PROVE k \in S
    BY <1>1, <1>4, <2>2
  <2>3. n \in 0..n
    BY <1>1
  <2>4. n \in S
    <3> HIDE DEF S
    <3> QED
      BY <1>1, <2>1, <2>2, <2>3, CountUp
  <2> QED
    BY <2>4
<1>6. n + 1 \in 1..(n + 1) /\ (n + 1) - 1 = n
  BY <1>1
<1>7. su[n + 1] = ParseLine(su[n], e[n + 1])
  BY <1>3, <1>6
<1> QED
  BY <1>1, <1>2, <1>3, <1>5, <1>7

-----------------------------------------------------------------------------
(* The two sides of a hunk. *)

(* The side that consists of the lines with these marks, line by line.     *)
Picked(h, ops, st) ==
    /\ st \in [0..Len(h.body) -> Seq(Words)]
    /\ st[0] = <<>> /\ st[Len(h.body)] = Block(h, ops)
    /\ \A k \in 1..Len(h.body) :
          st[k] = IF h.body[k].op \in ops
                  THEN Append(st[k - 1], h.body[k].text) ELSE st[k - 1]

(* There is one, whatever the marks. *)
LEMMA BlockSteps ==
    ASSUME NEW h \in HunkSet, NEW ops PROVE \E st : Picked(h, ops, st)
<1> DEFINE b == h.body
           n == Len(b)
           P == Seq(Words)
           pick(texts, line) == IF line.op \in ops THEN Append(texts, line.text) ELSE texts
           F == [k \in 1..n |-> [p \in P |-> pick(p, b[k])]]
           Grown(w, s) == IF s = {} THEN <<>> ELSE pick(w[s \ {Max(s)}], b[Max(s)])
           body(w) == [s \in SUBSET DOMAIN b |-> Grown(w, s)]
           iter == CHOOSE w : w = body(w)
<1>1. n \in Nat /\ DOMAIN b = 1..n /\ \A k \in 1..n : b[k].text \in Words
  <2>1. b \in Seq(EditLines)
    BY DEF HunkSet
  <2>2. n \in Nat /\ DOMAIN b = 1..n /\ \A k \in 1..n : b[k] \in EditLines
    BY <2>1, LenProperties, ElementOfSeq
  <2> QED
    BY <2>2 DEF EditLines
<1>2. <<>> \in P
  BY EmptySeq
<1>3. Stepping(P, <<>>, n, F)
  <2>1. ASSUME NEW k \in 1..n, NEW p \in P PROVE pick(p, b[k]) \in P
    BY <1>1, <2>1, AppendProperties
  <2> HIDE DEF pick
  <2> QED
    BY <1>1, <1>2, <2>1 DEF Stepping
<1>4. Block(h, ops) = iter[DOMAIN b]
  BY Zenon DEF Block, FoldLeft, MapThenFoldSet
<1> HIDE DEF pick, P
<1>5. iter = body(iter)
  <2>1. PICK w \in [SUBSET (1..n) -> P] : Walked(P, <<>>, n, F, w)
    <3> HIDE DEF F, n
    <3> QED
      BY <1>3, FoldExists
  <2>2. ASSUME NEW s \in SUBSET (1..n) PROVE w[s] = Grown(w, s)
    <3>1. CASE s # {}
      <4>1. Max(s) \in 1..n /\ s \ {Max(s)} \in SUBSET (1..n)
        BY <1>1, <3>1, MaxOfFirst
      <4>2. w[s \ {Max(s)}] \in P
        BY <4>1
      <4> QED
        BY <2>1, <3>1, <4>1, <4>2 DEF Walked
    <3> QED
      BY <2>1, <3>1 DEF Walked
  <2>3. w = body(w)
    BY <1>1, <2>2
  <2> HIDE DEF body
  <2> QED
    BY <2>3
<1>6. \A s \in SUBSET (1..n) : iter[s] = Grown(iter, s)
  <2> HIDE DEF iter, Grown, n
  <2> QED
    BY <1>1, <1>5
<1> HIDE DEF iter
<1>7. Retraced(P, <<>>, n, F, iter)
  <2>1. \A s \in SUBSET (1..n) : s # {} => Max(s) \in 1..n
    BY <1>1, MaxOfFirst
  <2> QED
    BY <1>6, <2>1 DEF Retraced
<1>8. PICK st : Sequenced(P, <<>>, n, F, st) /\ st[n] = iter[1..n]
  <2> HIDE DEF F, n
  <2> QED
    BY <1>3, <1>7, FoldSteps
<1>9. \A k \in 1..n : st[k] = pick(st[k - 1], b[k])
  <2>1. \A k \in 1..n : k - 1 \in 0..n
    BY <1>1
  <2> QED
    BY <1>8, <2>1 DEF Sequenced
<1>10. st \in [0..n -> P] /\ st[0] = <<>> /\ st[n] = Block(h, ops)
  BY <1>1, <1>4, <1>8 DEF Sequenced
<1>11. Picked(h, ops, st)
  BY <1>9, <1>10 DEF Picked, pick, P
<1> QED
  BY <1>11

-----------------------------------------------------------------------------
(* Applying one hunk. *)

AppliedStates == [out : Seq(Words), cursor : Nat, ok : BOOLEAN]

Run(lines, there, body) ==
    FoldLeft(LAMBDA u, line : ApplyLine(lines, u, line), there, body)

(* A line of a body leaves the text, the cursor and ok well-typed. *)
LEMMA LineKeeps ==
    ASSUME NEW lines \in Seq(Words), NEW s \in AppliedStates, NEW line \in EditLines
    PROVE  ApplyLine(lines, s, line) \in AppliedStates
<1>1. s.out \in Seq(Words) /\ s.cursor \in Nat /\ line.text \in Words
  BY DEF AppliedStates, EditLines
<1>2. Append(s.out, line.text) \in Seq(Words) /\ s.cursor + 1 \in Nat
  BY <1>1, AppendProperties
<1> QED
  BY <1>1, <1>2 DEF ApplyLine, AppliedStates

Applied(lines, there, b, st) ==
    /\ st \in [0..Len(b) -> AppliedStates]
    /\ st[0] = there /\ st[Len(b)] = Run(lines, there, b)
    /\ \A k \in 1..Len(b) : st[k] = ApplyLine(lines, st[k - 1], b[k])

(* A body is applied line by line. *)
LEMMA RunSteps ==
    ASSUME NEW lines \in Seq(Words), NEW there \in AppliedStates, NEW b \in Seq(EditLines)
    PROVE  \E st : Applied(lines, there, b, st)
<1> DEFINE n == Len(b)
           P == AppliedStates
           F == [k \in 1..n |-> [p \in P |-> ApplyLine(lines, p, b[k])]]
           Grown(w, s) == IF s = {} THEN there ELSE ApplyLine(lines, w[s \ {Max(s)}], b[Max(s)])
           body(w) == [s \in SUBSET DOMAIN b |-> Grown(w, s)]
           iter == CHOOSE w : w = body(w)
<1>1. n \in Nat /\ DOMAIN b = 1..n /\ \A k \in 1..n : b[k] \in EditLines
  BY LenProperties, ElementOfSeq
<1>3. Stepping(P, there, n, F)
  BY <1>1, LineKeeps DEF Stepping
<1>4. Run(lines, there, b) = iter[DOMAIN b]
  BY Zenon DEF Run, FoldLeft, MapThenFoldSet
<1>5. iter = body(iter)
  <2>1. PICK w \in [SUBSET (1..n) -> P] : Walked(P, there, n, F, w)
    <3> HIDE DEF F, n
    <3> QED
      BY <1>3, FoldExists
  <2>2. ASSUME NEW s \in SUBSET (1..n) PROVE w[s] = Grown(w, s)
    <3>1. CASE s # {}
      <4>1. Max(s) \in 1..n /\ s \ {Max(s)} \in SUBSET (1..n)
        BY <1>1, <3>1, MaxOfFirst
      <4>2. w[s \ {Max(s)}] \in P
        BY <4>1
      <4> QED
        BY <2>1, <3>1, <4>1, <4>2 DEF Walked
    <3> QED
      BY <2>1, <3>1 DEF Walked
  <2>3. w = body(w)
    BY <1>1, <2>2
  <2> HIDE DEF body
  <2> QED
    BY <2>3
<1>6. \A s \in SUBSET (1..n) : iter[s] = Grown(iter, s)
  <2> HIDE DEF iter, Grown, n
  <2> QED
    BY <1>1, <1>5
<1> HIDE DEF iter
<1>7. Retraced(P, there, n, F, iter)
  <2>1. \A s \in SUBSET (1..n) : s # {} => Max(s) \in 1..n
    BY <1>1, MaxOfFirst
  <2> QED
    BY <1>6, <2>1 DEF Retraced
<1>8. PICK st : Sequenced(P, there, n, F, st) /\ st[n] = iter[1..n]
  <2> HIDE DEF F, n
  <2> QED
    BY <1>3, <1>7, FoldSteps
<1>9. \A k \in 1..n : st[k] = ApplyLine(lines, st[k - 1], b[k])
  <2>1. \A k \in 1..n : k - 1 \in 0..n
    BY <1>1
  <2> QED
    BY <1>8, <2>1 DEF Sequenced
<1>10. Applied(lines, there, b, st)
  BY <1>1, <1>4, <1>8, <1>9 DEF Sequenced, Applied
<1> QED
  BY <1>10

(* The block stands in the lines, behind the first c of them. *)
Reads(lines, c, block) ==
    /\ c + Len(block) <= Len(lines)
    /\ \A j \in 1..Len(block) : lines[c + j] = block[j]

(* Which is what the model compares: the stretch of that length. *)
LEMMA ReadsBlock ==
    ASSUME NEW lines \in Seq(Words), NEW c \in Nat, NEW block \in Seq(Words)
    PROVE  Reads(lines, c, block) <=>
              /\ c + Len(block) <= Len(lines)
              /\ SubSeq(lines, c + 1, c + Len(block)) = block
<1> DEFINE m == c + 1
           n == c + Len(block)
<1>1. Len(lines) \in Nat /\ Len(block) \in Nat /\ \A i \in 1..Len(lines) : lines[i] \in Words
  BY LenProperties, ElementOfSeq
<1>2. CASE n > Len(lines)
  BY <1>1, <1>2 DEF Reads
<1>3. CASE n <= Len(lines)
  <2>1. m \in Int /\ n \in Int /\ \A i \in m..n : lines[i] \in Words
    BY <1>1, <1>3
  <2>2. /\ SubSeq(lines, m, n) \in Seq(Words)
        /\ Len(SubSeq(lines, m, n)) = IF m <= n THEN n - m + 1 ELSE 0
        /\ \A i \in 1..(n - m + 1) : SubSeq(lines, m, n)[i] = lines[m + i - 1]
    <3> HIDE DEF m, n
    <3> QED
      BY <2>1, SubSeqProperties
  <2>3. Len(SubSeq(lines, m, n)) = Len(block)
    BY <1>1, <2>2
  <2>4. \A i \in 1..Len(block) : SubSeq(lines, m, n)[i] = lines[c + i]
    <3>1. ASSUME NEW i \in 1..Len(block) PROVE SubSeq(lines, m, n)[i] = lines[c + i]
      <4>1. i \in 1..(n - m + 1) /\ m + i - 1 = c + i
        BY <1>1
      <4> QED
        BY <2>2, <4>1
    <3> QED
      BY <3>1
  <2>5. SubSeq(lines, m, n) = block <=> \A i \in 1..Len(block) : lines[c + i] = block[i]
    <3>1. ASSUME \A i \in 1..Len(block) : lines[c + i] = block[i]
          PROVE  SubSeq(lines, m, n) = block
      <4> HIDE DEF m, n
      <4> QED
        BY <2>2, <2>3, <2>4, <3>1, SeqEqual
    <3> HIDE DEF m, n
    <3> QED
      BY <2>4, <3>1
  <2> QED
    BY <1>3, <2>5 DEF Reads
<1> QED
  BY <1>1, <1>2, <1>3

(* A block with one more line stands there if that line does too. *)
LEMMA ReadsOn ==
    ASSUME NEW lines \in Seq(Words), NEW c \in Nat, NEW block \in Seq(Words), NEW x \in Words
    PROVE  Reads(lines, c, Append(block, x)) <=>
              /\ Reads(lines, c, block) /\ c + Len(block) < Len(lines)
              /\ lines[c + Len(block) + 1] = x
<1> DEFINE n == Len(block)
           more == Append(block, x)
<1>1. n \in Nat /\ Len(lines) \in Nat
  BY LenProperties
<1>2. Len(more) = n + 1 /\ (\A i \in 1..n : more[i] = block[i]) /\ more[n + 1] = x
  BY AppendProperties
<1>3. 1..(n + 1) = (1..n) \cup {n + 1}
  BY <1>1
<1>4. (\A j \in 1..(n + 1) : lines[c + j] = more[j]) <=>
        (\A j \in 1..n : lines[c + j] = block[j]) /\ lines[c + (n + 1)] = x
  <2> HIDE DEF more
  <2> QED
    BY <1>2, <1>3
<1>5. c + (n + 1) = c + n + 1
  BY <1>1
<1> HIDE DEF more
<1> QED
  BY <1>1, <1>2, <1>4, <1>5 DEF Reads, more

(* Joining and then appending is appending and then joining. *)
LEMMA JoinOn ==
    ASSUME NEW s \in Seq(Words), NEW t \in Seq(Words), NEW x \in Words
    PROVE  s \o Append(t, x) = Append(s \o t, x)
<1>1. <<x>> \in Seq(Words) /\ s \o t \in Seq(Words)
  BY ConcatProperties
<1>2. Append(t, x) = t \o <<x>> /\ Append(s \o t, x) = (s \o t) \o <<x>>
  BY <1>1, AppendIsConcat
<1> QED
  BY <1>1, <1>2, ConcatAssociative

(* The body of a hunk, line by line: it goes through exactly if the old    *)
(* side stands at the cursor, and then puts the new side in its place.     *)
LEMMA BodyApplied ==
    ASSUME NEW lines \in Seq(Words), NEW there \in AppliedStates, there.ok,
           there.cursor <= Len(lines), NEW h \in HunkSet
    PROVE  LET r == Run(lines, there, h.body)
           IN  /\ r \in AppliedStates
               /\ r.ok <=> Reads(lines, there.cursor, OldBlock(h))
               /\ r.ok => /\ r.cursor = there.cursor + Len(OldBlock(h))
                          /\ r.out = there.out \o NewBlock(h)
<1> DEFINE b == h.body
           n == Len(b)
           c == there.cursor
<1>1. /\ b \in Seq(EditLines) /\ n \in Nat
      /\ \A k \in 1..n : b[k].text \in Words /\ b[k].op \in {" ", "-", "+"}
  <2>1. b \in Seq(EditLines)
    BY DEF HunkSet
  <2>2. n \in Nat /\ \A k \in 1..n : b[k] \in EditLines
    BY <2>1, LenProperties, ElementOfSeq
  <2> QED
    BY <2>1, <2>2 DEF EditLines
<1>2. c \in Nat /\ there.out \in Seq(Words) /\ c <= Len(lines)
  BY DEF AppliedStates
<1>3. PICK st : Applied(lines, there, b, st)
  BY <1>1, RunSteps
<1>4. PICK old : Picked(h, {" ", "-"}, old)
  BY BlockSteps
<1>5. PICK new : Picked(h, {" ", "+"}, new)
  BY BlockSteps
<1> DEFINE Good(k) ==
              /\ st[k].ok <=> Reads(lines, c, old[k])
              /\ st[k].ok => st[k].cursor = c + Len(old[k]) /\ st[k].out = there.out \o new[k]
<1> HIDE DEF n, b, c
<1>10. n \in Nat
  BY <1>1
<1>11. c \in Nat
  BY <1>2
<1>12. Len(lines) \in Nat
  BY LenProperties
<1>6. Good(0)
  <2>1. Reads(lines, c, <<>>)
    <3>1. Len(lines) \in Nat /\ Len(<<>>) = 0
      BY LenProperties, EmptySeq
    <3> QED
      BY <1>2, <3>1 DEF Reads
  <2>2. /\ st[0] = there /\ old[0] = <<>> /\ new[0] = <<>>
        /\ there.out \o <<>> = there.out /\ Len(<<>>) = 0
    BY <1>2, <1>3, <1>4, <1>5, ConcatEmptySeq, EmptySeq DEF Applied, Picked
  <2> QED
    BY <1>2, <2>1, <2>2 DEF c
<1>7. ASSUME NEW k \in 1..n, Good(k - 1) PROVE Good(k)
  <2> DEFINE s == st[k - 1]
             x == b[k].text
             o == old[k - 1]
             w == new[k - 1]
  <2>0. k - 1 \in 0..n /\ k \in 0..n
    BY <1>10
  <2>1. x \in Words /\ b[k].op \in {" ", "-", "+"}
    BY <1>1
  <2>2. /\ o \in Seq(Words) /\ w \in Seq(Words) /\ Len(o) \in Nat
        /\ old[k] = IF b[k].op \in {" ", "-"} THEN Append(o, x) ELSE o
        /\ new[k] = IF b[k].op \in {" ", "+"} THEN Append(w, x) ELSE w
    BY <1>4, <1>5, <2>0, LenProperties DEF Picked, n, b
  <2>3. s \in AppliedStates /\ st[k] = ApplyLine(lines, s, b[k])
    BY <1>3, <2>0 DEF Applied, n
  <2>4. /\ Len(Append(o, x)) = Len(o) + 1
        /\ there.out \o Append(w, x) = Append(there.out \o w, x)
        /\ Reads(lines, c, Append(o, x)) <=>
              Reads(lines, c, o) /\ c + Len(o) < Len(lines) /\ lines[c + Len(o) + 1] = x
    <3>1. there.out \in Seq(Words)
      BY <1>2
    <3>2. o \in Seq(Words) /\ w \in Seq(Words) /\ x \in Words
      BY <2>1, <2>2
    <3> HIDE DEF o, w, x
    <3>3. Len(Append(o, x)) = Len(o) + 1
      BY <3>2, AppendProperties
    <3>4. there.out \o Append(w, x) = Append(there.out \o w, x)
      BY <3>1, <3>2, JoinOn
    <3>5. Reads(lines, c, Append(o, x)) <=>
              Reads(lines, c, o) /\ c + Len(o) < Len(lines) /\ lines[c + Len(o) + 1] = x
      BY <1>11, <3>2, ReadsOn
    <3> QED
      BY <3>3, <3>4, <3>5
  <2>5. /\ s.ok <=> Reads(lines, c, o)
        /\ s.ok => s.cursor = c + Len(o) /\ s.out = there.out \o w
    BY <1>7
  <2>6. c + Len(o) + 1 = c + (Len(o) + 1)
    <3>1. Len(o) \in Nat
      BY <2>2
    <3> QED
      BY <1>11, <3>1
  <2> HIDE DEF s, x, o, w
  <2>7. CASE b[k].op = "+"
    <3>1. st[k] = [s EXCEPT !.out = Append(s.out, x)]
      BY <2>3, <2>7 DEF ApplyLine, x
    <3>2. st[k].ok = s.ok /\ st[k].cursor = s.cursor /\ st[k].out = Append(s.out, x)
      BY <2>3, <3>1 DEF AppliedStates
    <3> QED
      BY <2>2, <2>4, <2>5, <2>7, <3>2
  <2>8. CASE b[k].op # "+"
    <3> DEFINE fits == s.ok /\ s.cursor < Len(lines) /\ lines[s.cursor + 1] = x
    <3>1. fits <=> Reads(lines, c, Append(o, x))
      BY <2>4, <2>5
    <3>2. CASE ~fits
      <4>1. st[k] = [s EXCEPT !.ok = FALSE]
        BY <2>3, <2>8, <3>2 DEF ApplyLine, x
      <4>2. ~st[k].ok
        BY <2>3, <4>1 DEF AppliedStates
      <4> QED
        BY <2>1, <2>2, <2>8, <3>1, <3>2, <4>2
    <3>3. CASE fits
      <4>1. st[k] = [s EXCEPT !.out = IF b[k].op = " " THEN Append(s.out, x) ELSE s.out,
                              !.cursor = s.cursor + 1]
        BY <2>3, <2>8, <3>3 DEF ApplyLine, x
      <4>2. /\ st[k].ok /\ st[k].cursor = c + (Len(o) + 1)
            /\ st[k].out = IF b[k].op = " " THEN Append(s.out, x) ELSE s.out
        BY <2>3, <2>5, <2>6, <3>3, <4>1 DEF AppliedStates
      <4> QED
        BY <2>1, <2>2, <2>4, <2>5, <2>8, <3>1, <3>3, <4>2
    <3> QED
      BY <3>2, <3>3
  <2> QED
    BY <2>7, <2>8
<1> HIDE DEF Good
<1>8. Good(n)
  <2> DEFINE S == {k \in 0..n : Good(k)}
  <2>1. 0 \in S
    BY <1>6, <1>10
  <2>2. ASSUME NEW k \in 1..n, k - 1 \in S PROVE k \in S
    BY <1>7, <1>10, <2>2
  <2>3. n \in 0..n
    BY <1>10
  <2>4. n \in S
    <3> HIDE DEF S
    <3> QED
      BY <1>10, <2>1, <2>2, <2>3, CountUp
  <2> QED
    BY <2>4
<1>9. /\ st[n] = Run(lines, there, b) /\ st[n] \in AppliedStates
      /\ old[n] = OldBlock(h) /\ new[n] = NewBlock(h)
  <2>1. n \in 0..n
    BY <1>10
  <2> QED
    BY <1>3, <1>4, <1>5, <2>1 DEF Applied, Picked, OldBlock, NewBlock, n, b
<1> QED
  BY <1>8, <1>9 DEF Good, b, c

(* A hunk inserts only if no line of its old side is to be found. *)
LEMMA StartIsBegin ==
    ASSUME NEW h \in HunkSet
    PROVE  /\ StartIndex(h) = IF OldBlock(h) = <<>> \/ h.old_start = 0 THEN h.old_start
                              ELSE h.old_start - 1
           /\ StartIndex(h) \in Nat /\ OldBlock(h) \in Seq(Words) /\ NewBlock(h) \in Seq(Words)
<1> DEFINE b == h.body
           n == Len(b)
<1>1. /\ n \in Nat /\ DOMAIN b = 1..n /\ h.old_start \in Nat
      /\ \A k \in 1..n : b[k].text \in Words /\ b[k].op \in {" ", "-", "+"}
  <2>1. b \in Seq(EditLines) /\ h.old_start \in Nat
    BY DEF HunkSet
  <2>2. n \in Nat /\ DOMAIN b = 1..n /\ \A k \in 1..n : b[k] \in EditLines
    BY <2>1, LenProperties, ElementOfSeq
  <2> QED
    BY <2>1, <2>2 DEF EditLines
<1>2. PICK old : Picked(h, {" ", "-"}, old)
  BY BlockSteps
<1>3. PICK new : Picked(h, {" ", "+"}, new)
  BY BlockSteps
<1>20. n \in Nat
  BY <1>1
<1>21. \A k \in 1..n : b[k].text \in Words
  BY <1>1
<1>22. \A k \in 1..n : b[k].op \in {" ", "-"} <=> b[k].op # "+"
  BY <1>1
<1>23. /\ old \in [0..n -> Seq(Words)] /\ old[0] = <<>> /\ old[n] = OldBlock(h)
       /\ \A k \in 1..n : old[k] = IF b[k].op # "+" THEN Append(old[k - 1], b[k].text)
                                   ELSE old[k - 1]
  <2> HIDE DEF b
  <2> QED
    BY <1>2, <1>22 DEF Picked, OldBlock, b
<1>24. new \in [0..n -> Seq(Words)] /\ new[n] = NewBlock(h)
  BY <1>3 DEF Picked, NewBlock
<1>25. DOMAIN b = 1..n /\ h.old_start \in Nat
  BY <1>1
<1> HIDE DEF b, n
<1>4. n \in 0..n
  BY <1>20
<1>5. OldBlock(h) = old[n] /\ OldBlock(h) \in Seq(Words) /\ NewBlock(h) \in Seq(Words)
  BY <1>4, <1>23, <1>24
<1>6. ASSUME NEW k \in 1..n, b[k].op # "+", old[n] = <<>> PROVE FALSE
  <2> DEFINE Short == {j \in k..n : old[j] = <<>>}
  <2>1. PICK j \in Short : \A i \in Short : j <= i
    <3>1. Short \subseteq Nat
      BY <1>20
    <3>2. n \in k..n
      BY <1>20
    <3>3. n \in Short
      BY <1>6, <3>2
    <3> HIDE DEF Short
    <3> QED
      BY <3>1, <3>3, LeastNumber
  <2>2. j \in 1..n /\ j - 1 \in 0..n /\ j \in k..n
    <3>1. j \in k..n
      BY <2>1
    <3> HIDE DEF Short
    <3> QED
      BY <1>20, <3>1
  <2>3. old[j] = <<>>
    BY <2>1
  <2> HIDE DEF Short
  <2>10. old[j - 1] \in Seq(Words) /\ b[j].text \in Words
    BY <1>21, <1>23, <2>2
  <2>5. Append(old[j - 1], b[j].text) # <<>>
    BY <2>10, AppendProperties
  <2>4. old[j] = IF b[j].op # "+" THEN Append(old[j - 1], b[j].text) ELSE old[j - 1]
    BY <1>23, <2>2
  <2>6. b[j].op = "+" /\ old[j - 1] = <<>>
    BY <2>3, <2>4, <2>5
  <2>7. j # k
    BY <1>6, <2>6
  <2>8. j - 1 \in k..n /\ j - 1 < j
    BY <1>20, <2>2, <2>7
  <2>9. j - 1 \in Short
    BY <2>6, <2>8 DEF Short
  <2>11. j <= j - 1
    BY <2>1, <2>9
  <2> QED
    BY <2>2, <2>11
<1>7. ASSUME \A k \in 1..n : b[k].op = "+" PROVE old[n] = <<>>
  <2> DEFINE S == {k \in 0..n : old[k] = <<>>}
  <2>1. 0 \in S
    BY <1>20, <1>23
  <2>2. ASSUME NEW k \in 1..n, k - 1 \in S PROVE k \in S
    <3>1. b[k].op = "+" /\ old[k - 1] = <<>>
      BY <1>7, <2>2
    <3>2. old[k] = old[k - 1] /\ k \in 0..n
      BY <1>20, <1>23, <3>1
    <3> QED
      BY <3>1, <3>2
  <2>3. n \in S
    <3> HIDE DEF S
    <3> QED
      BY <1>4, <1>20, <2>1, <2>2, CountUp
  <2> QED
    BY <2>3
<1>8. OldBlock(h) = <<>> <=> \A k \in DOMAIN b : b[k].op = "+"
  BY <1>5, <1>6, <1>7, <1>25
<1>30. h.old_start \in Nat
  BY <1>25
<1>9. StartIndex(h) = IF OldBlock(h) = <<>> \/ h.old_start = 0 THEN h.old_start
                      ELSE h.old_start - 1
  <2>1. h.old_start > 0 <=> h.old_start # 0
    BY <1>30
  <2> QED
    BY <1>8, <2>1 DEF StartIndex, b
<1>31. StartIndex(h) \in Nat
  BY <1>9, <1>30
<1> QED
  BY <1>5, <1>9, <1>31

(* One hunk: where its old side stands, behind the cursor.                 *)
LEMMA HunkApplied ==
    ASSUME NEW lines \in Seq(Words), NEW s \in AppliedStates, NEW h \in HunkSet
    PROVE  LET r == ApplyHunk(lines, s, h)
               begin == StartIndex(h)
               end == begin + Len(OldBlock(h))
           IN  /\ r \in AppliedStates
               /\ r.ok <=> /\ s.ok /\ s.cursor <= begin /\ end <= Len(lines)
                           /\ SubSeq(lines, begin + 1, end) = OldBlock(h)
               /\ r.ok => /\ r.cursor = end
                          /\ r.out = (s.out \o SubSeq(lines, s.cursor + 1, begin)) \o NewBlock(h)
<1> DEFINE begin == StartIndex(h)
           out == s.out \o SubSeq(lines, s.cursor + 1, begin)
           there == [s EXCEPT !.out = out, !.cursor = begin]
           r == ApplyHunk(lines, s, h)
<1>1. /\ begin \in Nat /\ OldBlock(h) \in Seq(Words) /\ Len(OldBlock(h)) \in Nat
      /\ Len(lines) \in Nat
  BY StartIsBegin, LenProperties
<1>2. s.out \in Seq(Words) /\ s.cursor \in Nat /\ s.ok \in BOOLEAN
  BY DEF AppliedStates
<1> HIDE DEF begin
<1>3. CASE ~s.ok \/ begin < s.cursor \/ begin > Len(lines)
  <2>1. r = [s EXCEPT !.ok = FALSE]
    BY <1>3 DEF ApplyHunk, begin
  <2>2. r \in AppliedStates /\ ~r.ok
    BY <2>1 DEF AppliedStates
  <2>3. ~(/\ s.ok /\ s.cursor <= begin /\ begin + Len(OldBlock(h)) <= Len(lines))
    BY <1>1, <1>2, <1>3
  <2> QED
    BY <2>2, <2>3 DEF begin
<1>4. CASE s.ok /\ s.cursor <= begin /\ begin <= Len(lines)
  <2>1. r = Run(lines, there, h.body)
    <3>1. ~(~s.ok \/ begin < s.cursor \/ begin > Len(lines))
      BY <1>1, <1>2, <1>4
    <3> QED
      BY <3>1, Zenon DEF ApplyHunk, Run, begin
  <2>2. SubSeq(lines, s.cursor + 1, begin) \in Seq(Words)
    <3>1. \A i \in 1..Len(lines) : lines[i] \in Words
      BY ElementOfSeq
    <3>2. \A i \in (s.cursor + 1)..begin : lines[i] \in Words
      BY <1>1, <1>2, <1>4, <3>1
    <3>3. s.cursor + 1 \in Int /\ begin \in Int
      BY <1>1, <1>2
    <3> QED
      BY <3>2, <3>3, SubSeqProperties
  <2>3. out \in Seq(Words)
    BY <1>2, <2>2, ConcatProperties
  <2> HIDE DEF out
  <2>4. /\ there \in AppliedStates /\ there.ok
        /\ there.cursor = begin /\ there.out = out
    BY <1>1, <1>4, <2>3 DEF AppliedStates
  <2>7. /\ StartIndex(h) = begin
        /\ out = s.out \o SubSeq(lines, s.cursor + 1, begin)
    BY DEF begin, out
  <2>8. r = ApplyHunk(lines, s, h)
    OBVIOUS
  <2> HIDE DEF there, r
  <2>5. /\ r \in AppliedStates
        /\ r.ok <=> Reads(lines, begin, OldBlock(h))
        /\ r.ok => r.cursor = begin + Len(OldBlock(h)) /\ r.out = out \o NewBlock(h)
    BY <1>4, <2>1, <2>4, BodyApplied
  <2>6. Reads(lines, begin, OldBlock(h)) <=>
            /\ begin + Len(OldBlock(h)) <= Len(lines)
            /\ SubSeq(lines, begin + 1, begin + Len(OldBlock(h))) = OldBlock(h)
    BY <1>1, ReadsBlock
  <2> QED
    BY <1>4, <2>5, <2>6, <2>7, <2>8
<1>5. (~s.ok \/ begin < s.cursor \/ begin > Len(lines)) \/ (s.ok /\ s.cursor <= begin /\ begin <= Len(lines))
  BY <1>1, <1>2
<1> QED
  BY <1>3, <1>4, <1>5

-----------------------------------------------------------------------------
(* All hunks, one after the other. *)

Base == [out |-> <<>>, cursor |-> 0, ok |-> TRUE]

RunAll(lines, hunks) ==
    FoldLeft(LAMBDA u, h : ApplyHunk(lines, u, h), Base, hunks)

AllApplied(lines, hunks, st) ==
    /\ st \in [0..Len(hunks) -> AppliedStates]
    /\ st[0] = Base /\ st[Len(hunks)] = RunAll(lines, hunks)
    /\ \A k \in 1..Len(hunks) : st[k] = ApplyHunk(lines, st[k - 1], hunks[k])

(* The hunks are applied one after the other. *)
LEMMA RunAllSteps ==
    ASSUME NEW lines \in Seq(Words), NEW b \in Seq(HunkSet)
    PROVE  \E st : AllApplied(lines, b, st)
<1> DEFINE n == Len(b)
           P == AppliedStates
           F == [k \in 1..n |-> [p \in P |-> ApplyHunk(lines, p, b[k])]]
           Grown(w, s) == IF s = {} THEN Base ELSE ApplyHunk(lines, w[s \ {Max(s)}], b[Max(s)])
           body(w) == [s \in SUBSET DOMAIN b |-> Grown(w, s)]
           iter == CHOOSE w : w = body(w)
<1>1. n \in Nat /\ DOMAIN b = 1..n /\ \A k \in 1..n : b[k] \in HunkSet
  BY LenProperties, ElementOfSeq
<1>2. Base \in P
  BY EmptySeq DEF Base, AppliedStates
<1>3. Stepping(P, Base, n, F)
  <2>1. ASSUME NEW k \in 1..n, NEW p \in P PROVE ApplyHunk(lines, p, b[k]) \in P
    <3>1. b[k] \in HunkSet
      BY <1>1
    <3> QED
      BY <3>1, HunkApplied
  <2> HIDE DEF P
  <2> QED
    BY <1>1, <1>2, <2>1 DEF Stepping
<1>4. RunAll(lines, b) = iter[DOMAIN b]
  BY Zenon DEF RunAll, FoldLeft, MapThenFoldSet
<1>5. iter = body(iter)
  <2>1. PICK w \in [SUBSET (1..n) -> P] : Walked(P, Base, n, F, w)
    <3> HIDE DEF F, n
    <3> QED
      BY <1>3, FoldExists
  <2>2. ASSUME NEW s \in SUBSET (1..n) PROVE w[s] = Grown(w, s)
    <3>1. CASE s # {}
      <4>1. Max(s) \in 1..n /\ s \ {Max(s)} \in SUBSET (1..n)
        BY <1>1, <3>1, MaxOfFirst
      <4>2. w[s \ {Max(s)}] \in P
        BY <4>1
      <4> QED
        BY <2>1, <3>1, <4>1, <4>2 DEF Walked
    <3> QED
      BY <2>1, <3>1 DEF Walked
  <2>3. w = body(w)
    BY <1>1, <2>2
  <2> HIDE DEF body
  <2> QED
    BY <2>3
<1>6. \A s \in SUBSET (1..n) : iter[s] = Grown(iter, s)
  <2> HIDE DEF iter, Grown, n
  <2> QED
    BY <1>1, <1>5
<1> HIDE DEF iter
<1>7. Retraced(P, Base, n, F, iter)
  <2>1. \A s \in SUBSET (1..n) : s # {} => Max(s) \in 1..n
    BY <1>1, MaxOfFirst
  <2> QED
    BY <1>6, <2>1 DEF Retraced
<1>8. PICK st : Sequenced(P, Base, n, F, st) /\ st[n] = iter[1..n]
  <2> HIDE DEF F, n
  <2> QED
    BY <1>3, <1>7, FoldSteps
<1>9. \A k \in 1..n : st[k] = ApplyHunk(lines, st[k - 1], b[k])
  <2>1. \A k \in 1..n : k - 1 \in 0..n
    BY <1>1
  <2> QED
    BY <1>8, <2>1 DEF Sequenced
<1>10. AllApplied(lines, b, st)
  BY <1>1, <1>4, <1>8, <1>9 DEF Sequenced, AllApplied
<1> QED
  BY <1>10

(* What Fits says of hunk k. *)
FitsAt(lines, hunks, k) ==
    /\ End(hunks, k - 1) <= Begin(hunks, k)
    /\ End(hunks, k) <= Len(lines)
    /\ SubSeq(lines, Begin(hunks, k) + 1, End(hunks, k)) = OldBlock(hunks[k])

(* A hunk starts where its block begins, and ends behind it. *)
LEMMA PlacesTyped ==
    ASSUME NEW hunks \in Seq(HunkSet)
    PROVE  /\ \A k \in 1..Len(hunks) :
                 /\ Begin(hunks, k) = StartIndex(hunks[k])
                 /\ End(hunks, k) = Begin(hunks, k) + Len(OldBlock(hunks[k]))
                 /\ Begin(hunks, k) \in Nat /\ NewBlock(hunks[k]) \in Seq(Words)
           /\ \A k \in 0..Len(hunks) : End(hunks, k) \in Nat
<1>1. Len(hunks) \in Nat /\ \A k \in 1..Len(hunks) : hunks[k] \in HunkSet
  BY LenProperties, ElementOfSeq
<1>2. ASSUME NEW k \in 1..Len(hunks)
      PROVE  /\ Begin(hunks, k) = StartIndex(hunks[k])
             /\ End(hunks, k) = Begin(hunks, k) + Len(OldBlock(hunks[k]))
             /\ Begin(hunks, k) \in Nat /\ NewBlock(hunks[k]) \in Seq(Words)
             /\ End(hunks, k) \in Nat
  <2> DEFINE h == hunks[k]
  <2>1. h \in HunkSet
    BY <1>1
  <2> HIDE DEF h
  <2>2. /\ StartIndex(h) = IF OldBlock(h) = <<>> \/ h.old_start = 0 THEN h.old_start
                           ELSE h.old_start - 1
        /\ StartIndex(h) \in Nat /\ OldBlock(h) \in Seq(Words) /\ NewBlock(h) \in Seq(Words)
    BY <2>1, StartIsBegin
  <2>3. Begin(hunks, k) = StartIndex(h)
    BY <2>2 DEF Begin, h
  <2>4. End(hunks, k) = Begin(hunks, k) + Len(OldBlock(h))
    <3>1. k # 0
      BY <1>1
    <3> QED
      BY <3>1 DEF End, h
  <2>5. Len(OldBlock(h)) \in Nat
    BY <2>2, LenProperties
  <2>6. Begin(hunks, k) \in Nat /\ End(hunks, k) \in Nat
    BY <2>2, <2>3, <2>4, <2>5
  <2> QED
    BY <2>2, <2>3, <2>4, <2>6 DEF h
<1>3. End(hunks, 0) \in Nat
  BY DEF End
<1>4. ASSUME NEW k \in 0..Len(hunks) PROVE End(hunks, k) \in Nat
  <2>1. k = 0 \/ k \in 1..Len(hunks)
    BY <1>1
  <2> QED
    BY <1>2, <1>3, <2>1
<1> QED
  BY <1>2, <1>4

(* Hunks go through exactly as far as they fit, up to the end of each. *)
LEMMA HunksFit ==
    ASSUME NEW lines \in Seq(Words), NEW hunks \in Seq(HunkSet),
           NEW st, AllApplied(lines, hunks, st)
    PROVE  \A k \in 0..Len(hunks) :
              /\ st[k].ok <=> \A j \in 1..k : FitsAt(lines, hunks, j)
              /\ st[k].ok => st[k].cursor = End(hunks, k)
<1> DEFINE n == Len(hunks)
           Good(k) == /\ st[k].ok <=> \A j \in 1..k : FitsAt(lines, hunks, j)
                      /\ st[k].ok => st[k].cursor = End(hunks, k)
           S == {k \in 0..n : Good(k)}
<1>1. n \in Nat /\ \A k \in 1..n : hunks[k] \in HunkSet
  BY LenProperties, ElementOfSeq
<1>2. Good(0)
  BY DEF AllApplied, Base, End
<1>3. ASSUME NEW k \in 1..n, Good(k - 1) PROVE Good(k)
  <2>1. k - 1 \in 0..n /\ k \in 0..n /\ 1..k = (1..(k - 1)) \cup {k}
    BY <1>1
  <2> DEFINE h == hunks[k]
             s == st[k - 1]
             b == Begin(hunks, k)
             e == End(hunks, k)
  <2>2. h \in HunkSet /\ s \in AppliedStates /\ st[k] = ApplyHunk(lines, s, h)
    BY <1>1, <2>1 DEF AllApplied
  <2>3. b = StartIndex(h) /\ e = b + Len(OldBlock(h))
    BY PlacesTyped
  <2> HIDE DEF h, s, b, e
  <2>4. /\ st[k].ok <=> /\ s.ok /\ s.cursor <= b /\ e <= Len(lines)
                        /\ SubSeq(lines, b + 1, e) = OldBlock(h)
        /\ st[k].ok => st[k].cursor = e
    <3>1. LET r == ApplyHunk(lines, s, h)
          IN  /\ r.ok <=> /\ s.ok /\ s.cursor <= b /\ e <= Len(lines)
                          /\ SubSeq(lines, b + 1, e) = OldBlock(h)
              /\ r.ok => r.cursor = e
      <4>1. lines \in Seq(Words) /\ s \in AppliedStates /\ h \in HunkSet
        BY <2>2
      <4> QED
        BY <2>3, <4>1, HunkApplied
    <3> QED
      BY <2>2, <3>1, Zenon
  <2>5. FitsAt(lines, hunks, k) <=> /\ End(hunks, k - 1) <= b /\ e <= Len(lines)
                                    /\ SubSeq(lines, b + 1, e) = OldBlock(h)
    BY DEF FitsAt, b, e, h
  <2>6. st[k].ok <=> s.ok /\ FitsAt(lines, hunks, k)
    BY <1>3, <2>4, <2>5 DEF s
  <2>7. st[k].ok <=> \A j \in 1..k : FitsAt(lines, hunks, j)
    BY <1>3, <2>1, <2>6 DEF s
  <2> QED
    BY <2>4, <2>7 DEF e
<1> HIDE DEF Good
<1>4. \A k \in 0..n : k \in S
  <2>1. 0 \in S
    BY <1>1, <1>2
  <2>2. \A k \in 1..n : k - 1 \in S => k \in S
    BY <1>1, <1>3
  <2> HIDE DEF S
  <2> QED
    BY <1>1, <2>1, <2>2, CountUp
<1> QED
  BY <1>4 DEF Good

(* What FitsAt says of the places in the text: a stretch between two hunks *)
(* is a stretch of the text. *)
LEMMA StretchTyped ==
    ASSUME NEW lines \in Seq(Words), NEW c \in Nat, NEW m \in Nat, m <= Len(lines)
    PROVE  SubSeq(lines, c + 1, m) \in Seq(Words)
<1>1. \A i \in 1..Len(lines) : lines[i] \in Words
  BY ElementOfSeq
<1>2. Len(lines) \in Nat
  BY LenProperties
<1>3. \A i \in (c + 1)..m : lines[i] \in Words
  BY <1>1, <1>2
<1>4. c + 1 \in Int /\ m \in Int
  OBVIOUS
<1> QED
  BY <1>3, <1>4, SubSeqProperties

(* What a hunk puts in the place of the text up to its end. *)
Piece(lines, hunks, k) ==
    SubSeq(lines, End(hunks, k - 1) + 1, Begin(hunks, k)) \o NewBlock(hunks[k])

(* Once all went through, the text so far is their pieces joined. *)
LEMMA PiecesJoined ==
    ASSUME NEW lines \in Seq(Words), NEW hunks \in Seq(HunkSet),
           NEW st, AllApplied(lines, hunks, st), st[Len(hunks)].ok
    PROVE  st[Len(hunks)].out = FlattenSeq([k \in DOMAIN hunks |-> Piece(lines, hunks, k)])
<1> DEFINE n == Len(hunks)
           seqs == [k \in DOMAIN hunks |-> Piece(lines, hunks, k)]
<1>1. n \in Nat /\ DOMAIN hunks = 1..n /\ \A k \in 1..n : hunks[k] \in HunkSet
  BY LenProperties, ElementOfSeq
<1>20. n \in Nat
  BY <1>1
<1>2. \A k \in 0..n : st[k].ok /\ st[k].cursor = End(hunks, k)
  <2>1. \A j \in 1..n : FitsAt(lines, hunks, j)
    <3>1. n \in 0..n /\ st[n].ok
      BY <1>20
    <3> QED
      BY <3>1, HunksFit
  <2>2. ASSUME NEW k \in 0..n PROVE st[k].ok /\ st[k].cursor = End(hunks, k)
    <3>1. \A j \in 1..k : j \in 1..n
      BY <1>20
    <3>2. st[k].ok <=> \A j \in 1..k : FitsAt(lines, hunks, j)
      BY HunksFit
    <3>3. st[k].ok => st[k].cursor = End(hunks, k)
      BY HunksFit
    <3> QED
      BY <2>1, <3>1, <3>2, <3>3
  <2> QED
    BY <2>2
<1>3. ASSUME NEW k \in 1..n
      PROVE  /\ Piece(lines, hunks, k) \in Seq(Words)
             /\ st[k].out = st[k - 1].out \o Piece(lines, hunks, k)
  <2> DEFINE h == hunks[k]
             s == st[k - 1]
             b == Begin(hunks, k)
             e == End(hunks, k)
             gap == SubSeq(lines, End(hunks, k - 1) + 1, b)
             new == NewBlock(h)
  <2>1. k - 1 \in 0..n /\ k \in 0..n
    BY <1>20
  <2>2. h \in HunkSet /\ s \in AppliedStates /\ st[k] = ApplyHunk(lines, s, h)
    BY <1>1, <2>1 DEF AllApplied
  <2>3. /\ b = StartIndex(h) /\ e = b + Len(OldBlock(h)) /\ b \in Nat
        /\ End(hunks, k - 1) \in Nat /\ new \in Seq(Words) /\ OldBlock(h) \in Seq(Words)
    BY <2>1, <2>2, PlacesTyped, StartIsBegin
  <2>4. st[k].ok /\ s.cursor = End(hunks, k - 1) /\ s.out \in Seq(Words)
    BY <1>2, <2>1, <2>2 DEF AppliedStates
  <2> HIDE DEF h, s, b, e, new
  <2>5. /\ e <= Len(lines)
        /\ st[k].out = (s.out \o SubSeq(lines, s.cursor + 1, b)) \o new
    <3>1. LET r == ApplyHunk(lines, s, h)
          IN  /\ r.ok => e <= Len(lines)
              /\ r.ok => r.out = (s.out \o SubSeq(lines, s.cursor + 1, b)) \o NewBlock(h)
      <4>1. lines \in Seq(Words) /\ s \in AppliedStates /\ h \in HunkSet
        BY <2>2
      <4> QED
        BY <2>3, <4>1, HunkApplied
    <3> QED
      BY <2>2, <2>4, <3>1, Zenon DEF new
  <2>6. gap \in Seq(Words)
    <3>1. Len(lines) \in Nat /\ Len(OldBlock(h)) \in Nat
      BY <2>3, LenProperties
    <3>2. b <= Len(lines)
      BY <2>3, <2>5, <3>1
    <3> QED
      BY <2>3, <3>2, StretchTyped
  <2>7. st[k].out = (s.out \o gap) \o new
    BY <2>4, <2>5
  <2>8. Piece(lines, hunks, k) = gap \o new
    BY DEF Piece, b, new, h
  <2> HIDE DEF gap
  <2>9. (s.out \o gap) \o new = s.out \o (gap \o new)
    <3>1. s.out \in Seq(Words) /\ new \in Seq(Words)
      BY <2>3, <2>4
    <3>2. \A x, y, z \in Seq(Words) : (x \o y) \o z = x \o (y \o z)
      BY ConcatAssociative
    <3> QED
      BY <2>6, <3>1, <3>2, Zenon
  <2>10. gap \o new \in Seq(Words)
    BY <2>3, <2>6, ConcatProperties
  <2> QED
    BY <2>7, <2>8, <2>9, <2>10 DEF s
<1>4. seqs \in Seq(Seq(Words)) /\ Len(seqs) = n /\ \A k \in 1..n : seqs[k] = Piece(lines, hunks, k)
  <2>1. seqs = [k \in 1..n |-> Piece(lines, hunks, k)]
    BY <1>1
  <2>2. \A k \in 1..n : Piece(lines, hunks, k) \in Seq(Words)
    BY <1>3
  <2> HIDE DEF seqs, n
  <2> QED
    BY <1>20, <2>1, <2>2
<1> HIDE DEF seqs
<1>9. PICK flat : Flattened(Words, seqs, flat)
  <2>1. seqs \in Seq(Seq(Words))
    BY <1>4
  <2> QED
    BY <2>1, FlattenSteps
<1>5. /\ flat[0] = <<>> /\ flat[n] = FlattenSeq(seqs)
      /\ \A k \in 1..n : flat[k] = flat[k - 1] \o seqs[k]
  BY <1>4, <1>9 DEF Flattened
<1> DEFINE S == {k \in 0..n : st[k].out = flat[k]}
<1>6. \A k \in 0..n : k \in S
  <2>1. 0 \in S
    BY <1>5, <1>20 DEF AllApplied, Base
  <2>2. \A k \in 1..n : k - 1 \in S => k \in S
    <3>1. ASSUME NEW k \in 1..n, k - 1 \in S PROVE k \in S
      <4>1. st[k - 1].out = flat[k - 1] /\ k \in 0..n
        BY <3>1, <1>20
      <4>2. st[k].out = st[k - 1].out \o seqs[k]
        BY <1>3, <1>4
      <4>3. flat[k] = flat[k - 1] \o seqs[k]
        BY <1>5
      <4> QED
        BY <4>1, <4>2, <4>3
    <3> HIDE DEF S
    <3> QED
      BY <3>1
  <2> HIDE DEF S, n
  <2> QED
    BY <1>20, <2>1, <2>2, CountUp
<1>7. n \in 0..n
  BY <1>20
<1>8. st[n].out = flat[n]
  BY <1>6, <1>7
<1> QED
  BY <1>5, <1>8 DEF seqs

(* Whatever the hunks, on any text: _apply_unified_diff goes through       *)
(* exactly if they fit, and replaces just what they name. *)
LEMMA HunksExact ==
    ASSUME NEW lines \in Seq(Words), NEW hunks \in Seq(HunkSet)
    PROVE  LET r == ApplyHunks(lines, hunks)
           IN  /\ r.ok <=> Fits(lines, hunks)
               /\ r.ok => r.out = Replaced(lines, hunks)
<1> DEFINE n == Len(hunks)
           r == ApplyHunks(lines, hunks)
           s == RunAll(lines, hunks)
           flat == FlattenSeq([k \in DOMAIN hunks |-> Piece(lines, hunks, k)])
<1>1. n \in Nat /\ DOMAIN hunks = 1..n /\ n \in 0..n
  BY LenProperties
<1>2. PICK st : AllApplied(lines, hunks, st)
  BY RunAllSteps
<1>3. s = st[n]
  BY <1>2 DEF AllApplied
<1>4. r.ok = s.ok /\ r.out = s.out \o SubSeq(lines, s.cursor + 1, Len(lines))
  BY Zenon DEF ApplyHunks, RunAll, Base
<1>5. Fits(lines, hunks) <=> \A j \in 1..n : FitsAt(lines, hunks, j)
  BY <1>1 DEF Fits, FitsAt
<1>6. Replaced(lines, hunks) = flat \o SubSeq(lines, End(hunks, n) + 1, Len(lines))
  BY Zenon DEF Replaced, Piece
<1> HIDE DEF r, s, flat
<1>7. /\ st[n].ok <=> \A j \in 1..n : FitsAt(lines, hunks, j)
      /\ st[n].ok => st[n].cursor = End(hunks, n)
  BY <1>1, <1>2, HunksFit
<1>8. st[n].ok => st[n].out = flat
  BY <1>2, PiecesJoined DEF flat
<1>9. r.ok <=> Fits(lines, hunks)
  BY <1>3, <1>4, <1>5, <1>7
<1>10. r.ok => r.out = Replaced(lines, hunks)
  BY <1>3, <1>4, <1>6, <1>7, <1>8
<1> QED
  BY <1>9, <1>10, Zenon DEF r

(* The text that is put together consists of words. *)
LEMMA OutTyped ==
    ASSUME NEW lines \in Seq(Words), NEW hunks \in Seq(HunkSet), ApplyHunks(lines, hunks).ok
    PROVE  ApplyHunks(lines, hunks).out \in Seq(Words)
<1> DEFINE n == Len(hunks)
           r == ApplyHunks(lines, hunks)
           s == RunAll(lines, hunks)
<1>1. n \in 0..n /\ Len(lines) \in Nat
  BY LenProperties
<1>2. PICK st : AllApplied(lines, hunks, st)
  BY RunAllSteps
<1>3. s \in AppliedStates
  BY <1>1, <1>2 DEF AllApplied
<1>4. r.out = s.out \o SubSeq(lines, s.cursor + 1, Len(lines))
  BY Zenon DEF ApplyHunks, RunAll, Base
<1> HIDE DEF r, s
<1>5. s.out \in Seq(Words) /\ s.cursor \in Nat
  BY <1>3 DEF AppliedStates
<1>6. SubSeq(lines, s.cursor + 1, Len(lines)) \in Seq(Words)
  <2>1. s.cursor \in Nat /\ Len(lines) <= Len(lines)
    BY <1>1, <1>5
  <2> QED
    BY <1>1, <2>1, StretchTyped
<1>7. r.out \in Seq(Words)
  BY <1>4, <1>5, <1>6, ConcatProperties
<1> QED
  BY <1>7 DEF r

-----------------------------------------------------------------------------
(* Taking a patch back. *)

(* Two blocks stand one behind the other where their join does.            *)
LEMMA ReadsParts ==
    ASSUME NEW lines \in Seq(Words), NEW c \in Nat, NEW s \in Seq(Words), NEW t \in Seq(Words)
    PROVE  Reads(lines, c, s \o t) <=>
              c + Len(s) <= Len(lines) /\ Reads(lines, c, s) /\ Reads(lines, c + Len(s), t)
<1> DEFINE both == s \o t
           m == Len(s)
           n == Len(t)
<1>1. m \in Nat /\ n \in Nat /\ Len(lines) \in Nat
  BY LenProperties
<1>2. /\ Len(both) = m + n
      /\ \A i \in 1..(m + n) : both[i] = IF i <= m THEN s[i] ELSE t[i - m]
  BY ConcatProperties
<1> HIDE DEF both
<1>3. \A i \in 1..m : i \in 1..(m + n) /\ both[i] = s[i]
  BY <1>1, <1>2
<1>4. ASSUME NEW i \in 1..n PROVE m + i \in 1..(m + n) /\ both[m + i] = t[i] /\ c + (m + i) = (c + m) + i
  <2>1. m + i \in 1..(m + n) /\ ~(m + i <= m) /\ (m + i) - m = i
    BY <1>1
  <2> QED
    BY <1>1, <1>2, <2>1
<1>5. ASSUME NEW i \in 1..(m + n), i \notin 1..m PROVE i - m \in 1..n /\ i = m + (i - m)
  BY <1>1, <1>5
<1> HIDE DEF m, n
<1>6. ASSUME Reads(lines, c, both) PROVE Reads(lines, c, s) /\ Reads(lines, c + m, t) /\ c + m <= Len(lines)
  <2>1. c + (m + n) <= Len(lines) /\ \A j \in 1..(m + n) : lines[c + j] = both[j]
    BY <1>2, <1>6 DEF Reads
  <2>2. c + m <= Len(lines) /\ (c + m) + n <= Len(lines)
    BY <1>1, <2>1
  <2>3. \A i \in 1..m : lines[c + i] = s[i]
    BY <1>3, <2>1
  <2>4. \A i \in 1..n : lines[(c + m) + i] = t[i]
    BY <1>4, <2>1
  <2> QED
    BY <2>2, <2>3, <2>4 DEF Reads, m, n
<1>7. ASSUME Reads(lines, c, s), Reads(lines, c + m, t) PROVE Reads(lines, c, both)
  <2>1. /\ (c + m) + n <= Len(lines)
        /\ \A i \in 1..m : lines[c + i] = s[i]
        /\ \A i \in 1..n : lines[(c + m) + i] = t[i]
    BY <1>7 DEF Reads, m, n
  <2>2. ASSUME NEW i \in 1..(m + n) PROVE lines[c + i] = both[i]
    <3>1. CASE i \in 1..m
      BY <1>3, <2>1, <3>1
    <3>2. CASE i \notin 1..m
      <4>1. i - m \in 1..n /\ i = m + (i - m)
        BY <1>5, <3>2
      <4>2. both[m + (i - m)] = t[i - m] /\ c + (m + (i - m)) = (c + m) + (i - m)
        BY <1>4, <4>1
      <4> QED
        BY <2>1, <4>1, <4>2
    <3> QED
      BY <3>1, <3>2
  <2>3. c + (m + n) <= Len(lines)
    BY <1>1, <2>1
  <2> QED
    BY <1>2, <2>2, <2>3 DEF Reads
<1> QED
  BY <1>6, <1>7 DEF both, m

(* A text that stands at the start of another as long is that text.        *)
LEMMA ReadsAll ==
    ASSUME NEW lines \in Seq(Words), NEW s \in Seq(Words), Len(s) = Len(lines),
           Reads(lines, 0, s)
    PROVE  s = lines
<1>1. \A i \in 1..Len(s) : s[i] = lines[i]
  <2>1. ASSUME NEW i \in 1..Len(s) PROVE s[i] = lines[i]
    <3>1. 0 + i = i /\ lines[0 + i] = s[i]
      BY LenProperties DEF Reads
    <3> QED
      BY <3>1
  <2> QED
    BY <2>1
<1> QED
  BY <1>1, SeqEqual

(* A stretch of the text stands where it was taken from.                   *)
LEMMA ReadsStretch ==
    ASSUME NEW lines \in Seq(Words), NEW c \in Nat, NEW m \in Nat, c <= m, m <= Len(lines)
    PROVE  LET gap == SubSeq(lines, c + 1, m)
           IN  gap \in Seq(Words) /\ Len(gap) = m - c /\ Reads(lines, c, gap)
<1> DEFINE gap == SubSeq(lines, c + 1, m)
<1>1. gap \in Seq(Words)
  BY StretchTyped
<1>2. Len(gap) = m - c /\ \A i \in 1..(m - c) : gap[i] = lines[c + i]
  <2>1. Len(lines) \in Nat /\ \A i \in 1..Len(lines) : lines[i] \in Words
    BY LenProperties, ElementOfSeq
  <2>2. c + 1 \in Int /\ m \in Int /\ \A i \in (c + 1)..m : lines[i] \in Words
    BY <2>1
  <2>3. /\ Len(gap) = IF c + 1 <= m THEN m - (c + 1) + 1 ELSE 0
        /\ \A i \in 1..(m - (c + 1) + 1) : gap[i] = lines[(c + 1) + i - 1]
    BY <2>2, SubSeqProperties
  <2>4. m - (c + 1) + 1 = m - c /\ \A i \in Nat : (c + 1) + i - 1 = c + i
    OBVIOUS
  <2> HIDE DEF gap
  <2> QED
    BY <2>3, <2>4
<1> HIDE DEF gap
<1>3. Reads(lines, c, gap)
  <2>1. c + (m - c) <= Len(lines)
    OBVIOUS
  <2> QED
    BY <1>2, <2>1 DEF Reads
<1> QED
  BY <1>1, <1>2, <1>3 DEF gap

(* Sides of two hunks with the same lines, marked so that the same ones    *)
(* are picked, are the same.                                               *)
LEMMA SameBlock ==
    ASSUME NEW g \in HunkSet, NEW h \in HunkSet, NEW ops, NEW picks,
           Len(g.body) = Len(h.body),
           \A k \in 1..Len(h.body) :
              g.body[k].text = h.body[k].text /\ (g.body[k].op \in ops <=> h.body[k].op \in picks)
    PROVE  Block(g, ops) = Block(h, picks)
<1> DEFINE n == Len(h.body)
<1>1. n \in Nat
  <2>1. h.body \in Seq(EditLines)
    BY DEF HunkSet
  <2> QED
    BY <2>1, LenProperties
<1>2. PICK sg : Picked(g, ops, sg)
  BY BlockSteps
<1>3. PICK sh : Picked(h, picks, sh)
  BY BlockSteps
<1> DEFINE S == {k \in 0..n : sg[k] = sh[k]}
<1>4. 0 \in S
  BY <1>1, <1>2, <1>3 DEF Picked
<1>5. ASSUME NEW k \in 1..n, k - 1 \in S PROVE k \in S
  BY <1>1, <1>2, <1>3, <1>5 DEF Picked
<1>6. n \in S
  <2>1. n \in 0..n
    BY <1>1
  <2> HIDE DEF S, n
  <2> QED
    BY <1>1, <1>4, <1>5, <2>1, CountUp
<1> QED
  BY <1>2, <1>3, <1>6 DEF Picked

(* By how much a hunk makes the text longer, *)
Growth(h) == Len(NewBlock(h)) - Len(OldBlock(h))

(* and those before hunk k move it. *)
Shift(hunks, k) ==
    FoldLeft(LAMBDA m, h : m + Len(NewBlock(h)) - Len(OldBlock(h)), 0, SubSeq(hunks, 1, k - 1))

(* A hunk has a growth, positive or not. *)
LEMMA GrowthTyped == ASSUME NEW h \in HunkSet PROVE Growth(h) \in Int
<1>1. OldBlock(h) \in Seq(Words) /\ NewBlock(h) \in Seq(Words)
  BY StartIsBegin
<1>2. Len(OldBlock(h)) \in Nat /\ Len(NewBlock(h)) \in Nat
  BY <1>1, LenProperties
<1> QED
  BY <1>2 DEF Growth

(* The growth of the hunks before it is added up one by one.               *)
LEMMA ShiftAddsUp ==
    ASSUME NEW hunks \in Seq(HunkSet), NEW at \in [0..Len(hunks) -> Int], at[0] = 0,
           \A j \in 1..Len(hunks) : at[j] = at[j - 1] + Growth(hunks[j]),
           NEW i \in 1..Len(hunks)
    PROVE  Shift(hunks, i) = at[i - 1]
<1> DEFINE d == SubSeq(hunks, 1, i - 1)
           n == i - 1
           P == Int
           add(m, h) == m + Len(NewBlock(h)) - Len(OldBlock(h))
           F == [k \in 1..n |-> [p \in P |-> add(p, d[k])]]
           Grown(w, s) == IF s = {} THEN 0 ELSE add(w[s \ {Max(s)}], d[Max(s)])
           body(w) == [s \in SUBSET DOMAIN d |-> Grown(w, s)]
           iter == CHOOSE w : w = body(w)
<1>1. /\ n \in Nat /\ DOMAIN d = 1..n
      /\ \A k \in 1..n : d[k] = hunks[k] /\ d[k] \in HunkSet /\ k \in 1..Len(hunks)
  <2>1. Len(hunks) \in Nat /\ n \in Nat /\ n < Len(hunks)
    BY LenProperties
  <2>2. \A k \in 1..n : k \in 1..Len(hunks) /\ hunks[k] \in HunkSet
    BY <2>1, ElementOfSeq
  <2>3. /\ d \in Seq(HunkSet)
        /\ Len(d) = IF 1 <= n THEN n - 1 + 1 ELSE 0
        /\ \A k \in 1..(n - 1 + 1) : d[k] = hunks[1 + k - 1]
    <3>1. 1 \in Int /\ n \in Int
      BY <2>1
    <3> HIDE DEF n
    <3> QED
      BY <2>2, <3>1, SubSeqProperties DEF n
  <2>4. Len(d) = n /\ \A k \in 1..n : d[k] = hunks[k]
    <3>1. n - 1 + 1 = n /\ \A k \in 1..n : 1 + k - 1 = k
      BY <2>1
    <3> HIDE DEF d
    <3> QED
      BY <2>1, <2>3, <3>1
  <2>5. DOMAIN d = 1..n
    BY <2>3, <2>4, LenProperties
  <2> HIDE DEF d, n
  <2> QED
    BY <2>1, <2>2, <2>4, <2>5
<1> HIDE DEF d
<1>2. \A k \in 1..n, p \in P : add(p, d[k]) = p + Growth(d[k]) /\ add(p, d[k]) \in P
  <2>1. ASSUME NEW k \in 1..n, NEW p \in P
        PROVE  add(p, d[k]) = p + Growth(d[k]) /\ add(p, d[k]) \in P
    <3>1. OldBlock(d[k]) \in Seq(Words) /\ NewBlock(d[k]) \in Seq(Words)
      BY <1>1, StartIsBegin
    <3>2. Len(OldBlock(d[k])) \in Nat /\ Len(NewBlock(d[k])) \in Nat
      BY <3>1, LenProperties
    <3> QED
      BY <3>2 DEF Growth
  <2> QED
    BY <2>1
<1>3. Stepping(P, 0, n, F)
  <2> HIDE DEF add
  <2> QED
    BY <1>1, <1>2 DEF Stepping
<1>4. Shift(hunks, i) = iter[DOMAIN d]
  BY Zenon DEF Shift, FoldLeft, MapThenFoldSet, d
<1> HIDE DEF add, P
<1>5. iter = body(iter)
  <2>1. PICK w \in [SUBSET (1..n) -> P] : Walked(P, 0, n, F, w)
    <3> HIDE DEF F, n
    <3> QED
      BY <1>3, FoldExists
  <2>2. ASSUME NEW s \in SUBSET (1..n) PROVE w[s] = Grown(w, s)
    <3>1. CASE s # {}
      <4>1. Max(s) \in 1..n /\ s \ {Max(s)} \in SUBSET (1..n)
        BY <1>1, <3>1, MaxOfFirst
      <4>2. w[s \ {Max(s)}] \in P
        BY <4>1
      <4> QED
        BY <2>1, <3>1, <4>1, <4>2 DEF Walked
    <3> QED
      BY <2>1, <3>1 DEF Walked
  <2>3. w = body(w)
    BY <1>1, <2>2
  <2> HIDE DEF body
  <2> QED
    BY <2>3
<1>6. \A s \in SUBSET (1..n) : iter[s] = Grown(iter, s)
  <2> HIDE DEF iter, Grown, n
  <2> QED
    BY <1>1, <1>5
<1> HIDE DEF iter
<1>7. Retraced(P, 0, n, F, iter)
  <2>1. \A s \in SUBSET (1..n) : s # {} => Max(s) \in 1..n
    BY <1>1, MaxOfFirst
  <2> QED
    BY <1>6, <2>1 DEF Retraced
<1>8. PICK st : Sequenced(P, 0, n, F, st) /\ st[n] = iter[1..n]
  <2> HIDE DEF F, n
  <2> QED
    BY <1>3, <1>7, FoldSteps
<1> DEFINE S == {k \in 0..n : st[k] = at[k]}
<1>9. 0 \in S
  BY <1>1, <1>8 DEF Sequenced
<1>10. ASSUME NEW k \in 1..n, k - 1 \in S PROVE k \in S
  <2>1. st[k - 1] = at[k - 1] /\ k \in 0..n /\ k - 1 \in 0..n
    BY <1>1, <1>10
  <2>2. at[k] = at[k - 1] + Growth(hunks[k]) /\ d[k] = hunks[k]
    BY <1>1
  <2>3. st[k - 1] \in P /\ st[k] = add(st[k - 1], d[k])
    BY <1>8, <2>1 DEF Sequenced
  <2>4. add(st[k - 1], d[k]) = st[k - 1] + Growth(d[k])
    BY <1>2, <2>3
  <2> QED
    BY <2>1, <2>2, <2>3, <2>4
<1>11. n \in S
  <2>1. n \in 0..n
    BY <1>1
  <2> HIDE DEF S, n
  <2> QED
    BY <1>1, <1>9, <1>10, <2>1, CountUp
<1> QED
  BY <1>1, <1>4, <1>8, <1>11

(* What Undo makes of hunk k. *)
Opposite(op) == CASE op = "+" -> "-" [] op = "-" -> "+" [] OTHER -> op

UndoneHunk(hunks, k) ==
    [old_start |-> IF NewBlock(hunks[k]) = <<>> THEN Begin(hunks, k) + Shift(hunks, k)
                   ELSE Begin(hunks, k) + Shift(hunks, k) + 1,
     body |-> [j \in DOMAIN hunks[k].body |->
                  [op |-> Opposite(hunks[k].body[j].op), text |-> hunks[k].body[j].text]]]

(* Undone hunks have their sides swapped, and stand where they were moved. *)
LEMMA UndoneHunks ==
    ASSUME NEW hunks \in Seq(HunkSet),
           \A k \in 1..Len(hunks) : Begin(hunks, k) + Shift(hunks, k) \in Nat
    PROVE  /\ Undo(hunks) \in Seq(HunkSet) /\ Len(Undo(hunks)) = Len(hunks)
           /\ \A k \in 1..Len(hunks) :
                 /\ OldBlock(Undo(hunks)[k]) = NewBlock(hunks[k])
                 /\ NewBlock(Undo(hunks)[k]) = OldBlock(hunks[k])
                 /\ Begin(Undo(hunks), k) = Begin(hunks, k) + Shift(hunks, k)
<1> DEFINE u == Undo(hunks)
           n == Len(hunks)
           at(k) == Begin(hunks, k) + Shift(hunks, k)
<1>1. n \in Nat /\ DOMAIN hunks = 1..n /\ \A k \in 1..n : hunks[k] \in HunkSet
  BY LenProperties, ElementOfSeq
<1>2. u = [k \in DOMAIN hunks |-> UndoneHunk(hunks, k)]
  BY Zenon DEF Undo, UndoneHunk, Opposite, Shift
<1> HIDE DEF u
<1>3. \A k \in 1..n : u[k] = UndoneHunk(hunks, k)
  BY <1>1, <1>2
<1>4. ASSUME NEW k \in 1..n
      PROVE  /\ u[k] \in HunkSet
             /\ OldBlock(u[k]) = NewBlock(hunks[k])
             /\ NewBlock(u[k]) = OldBlock(hunks[k])
             /\ Begin(u, k) = at(k)
  <2> DEFINE h == hunks[k]
             g == u[k]
             b == h.body
             m == Len(b)
             c == [j \in DOMAIN b |-> [op |-> Opposite(b[j].op), text |-> b[j].text]]
             start == IF NewBlock(h) = <<>> THEN at(k) ELSE at(k) + 1
  <2>1. h \in HunkSet /\ at(k) \in Nat
    BY <1>1
  <2>2. g = [old_start |-> start, body |-> c]
    BY <1>3 DEF UndoneHunk
  <2> HIDE DEF h, g, at
  <2>3. /\ b \in Seq(EditLines) /\ m \in Nat /\ DOMAIN b = 1..m
        /\ \A j \in 1..m : b[j] \in EditLines
    <3>1. b \in Seq(EditLines)
      BY <2>1 DEF HunkSet
    <3> QED
      BY <3>1, LenProperties, ElementOfSeq
  <2>4. \A j \in 1..m : /\ b[j].text \in Words /\ b[j].op \in {" ", "-", "+"}
                        /\ Opposite(b[j].op) \in {" ", "-", "+"}
                        /\ (Opposite(b[j].op) \in {" ", "-"} <=> b[j].op \in {" ", "+"})
                        /\ (Opposite(b[j].op) \in {" ", "+"} <=> b[j].op \in {" ", "-"})
    BY <2>3 DEF EditLines, Opposite
  <2>5. \A j \in 1..m : c[j] = [op |-> Opposite(b[j].op), text |-> b[j].text]
    BY <2>3
  <2>6. c \in Seq(EditLines) /\ Len(c) = m
    <3>1. c = [j \in 1..m |-> [op |-> Opposite(b[j].op), text |-> b[j].text]]
      BY <2>3
    <3>2. \A j \in 1..m : [op |-> Opposite(b[j].op), text |-> b[j].text] \in EditLines
      BY <2>4 DEF EditLines
    <3>3. c \in [1..m -> EditLines]
      BY <3>1, <3>2, Zenon
    <3> HIDE DEF c, m
    <3> QED
      BY <2>3, <3>3
  <2> HIDE DEF c
  <2>11. \A j \in 1..m : c[j].op = Opposite(b[j].op) /\ c[j].text = b[j].text
    <3>1. ASSUME NEW j \in 1..m PROVE c[j].op = Opposite(b[j].op) /\ c[j].text = b[j].text
      <4> DEFINE op == Opposite(b[j].op)
                 text == b[j].text
      <4>1. c[j] = [op |-> op, text |-> text]
        BY <2>5
      <4> HIDE DEF op, text
      <4>2. c[j].op = op /\ c[j].text = text
        BY <4>1
      <4> QED
        BY <4>2 DEF op, text
    <3> QED
      BY <3>1
  <2>7. g \in HunkSet /\ g.body = c /\ g.old_start = start
    BY <2>1, <2>2, <2>6 DEF HunkSet
  <2>8. OldBlock(g) = NewBlock(h)
    <3> DEFINE ops == {" ", "-"}
               picks == {" ", "+"}
    <3>1. \A j \in 1..m : c[j].text = b[j].text /\ (c[j].op \in ops <=> b[j].op \in picks)
      BY <2>4, <2>11, Zenon
    <3> HIDE DEF ops, picks
    <3>2. Block(g, ops) = Block(h, picks)
      BY <2>1, <2>6, <2>7, <3>1, SameBlock
    <3> QED
      BY <3>2 DEF OldBlock, NewBlock, ops, picks
  <2>9. NewBlock(g) = OldBlock(h)
    <3> DEFINE ops == {" ", "+"}
               picks == {" ", "-"}
    <3>1. \A j \in 1..m : c[j].text = b[j].text /\ (c[j].op \in ops <=> b[j].op \in picks)
      BY <2>4, <2>11, Zenon
    <3> HIDE DEF ops, picks
    <3>2. Block(g, ops) = Block(h, picks)
      BY <2>1, <2>6, <2>7, <3>1, SameBlock
    <3> QED
      BY <3>2 DEF OldBlock, NewBlock, ops, picks
  <2>10. Begin(u, k) = at(k)
    <3>1. Begin(u, k) = IF OldBlock(g) = <<>> \/ g.old_start = 0 THEN g.old_start
                        ELSE g.old_start - 1
      BY DEF Begin, g
    <3> QED
      BY <2>1, <2>7, <2>8, <3>1
  <2> QED
    BY <2>7, <2>8, <2>9, <2>10 DEF g, h
<1>5. u \in Seq(HunkSet) /\ Len(u) = n
  <2>1. DOMAIN u = 1..n
    BY <1>1, <1>2
  <2>2. u = [k \in 1..n |-> u[k]]
    BY <1>1, <1>2
  <2>3. u \in [1..n -> HunkSet]
    BY <1>4, <2>2
  <2> HIDE DEF n
  <2> QED
    BY <1>1, <2>3
<1> QED
  BY <1>4, <1>5 DEF u

(* Whatever the hunks, on any text: once they went through, their reversal *)
(* goes through too, and gives back the text.                              *)
LEMMA TakenBack ==
    ASSUME NEW lines \in Seq(Words), NEW hunks \in Seq(HunkSet), ApplyHunks(lines, hunks).ok
    PROVE  LET back == ApplyHunks(ApplyHunks(lines, hunks).out, Undo(hunks))
           IN  back.ok /\ back.out = lines
<1> DEFINE n == Len(hunks)
           out == ApplyHunks(lines, hunks).out
           seqs == [k \in DOMAIN hunks |-> Piece(lines, hunks, k)]
           b(k) == Begin(hunks, k)
           e(k) == End(hunks, k)
           old(k) == OldBlock(hunks[k])
           new(k) == NewBlock(hunks[k])
           gap(k) == SubSeq(lines, e(k - 1) + 1, b(k))
           tail == SubSeq(lines, e(n) + 1, Len(lines))
<1>1. /\ n \in Nat /\ DOMAIN hunks = 1..n /\ Len(lines) \in Nat
      /\ \A k \in 1..n : hunks[k] \in HunkSet
  BY LenProperties, ElementOfSeq
<1>20. n \in Nat
  BY <1>1
<1>2. Fits(lines, hunks) /\ out = Replaced(lines, hunks)
  BY HunksExact
<1>3. out \in Seq(Words)
  BY OutTyped
<1>4. out = FlattenSeq(seqs) \o tail
  BY <1>2, Zenon DEF Replaced, Piece
<1> HIDE DEF out
<1>5. ASSUME NEW k \in 1..n
      PROVE  /\ old(k) \in Seq(Words) /\ new(k) \in Seq(Words)
             /\ Len(old(k)) \in Nat /\ Len(new(k)) \in Nat
             /\ b(k) \in Nat /\ e(k - 1) \in Nat /\ e(k) \in Nat
             /\ e(k) = b(k) + Len(old(k))
             /\ e(k - 1) <= b(k) /\ e(k) <= Len(lines) /\ b(k) <= Len(lines)
             /\ SubSeq(lines, b(k) + 1, e(k)) = old(k)
  <2>1. hunks[k] \in HunkSet /\ k - 1 \in 0..n /\ k \in 0..n
    BY <1>1
  <2>2. old(k) \in Seq(Words) /\ new(k) \in Seq(Words)
    BY <2>1, StartIsBegin
  <2>3. Len(old(k)) \in Nat /\ Len(new(k)) \in Nat
    BY <2>2, LenProperties
  <2>4. b(k) \in Nat /\ e(k - 1) \in Nat /\ e(k) \in Nat /\ e(k) = b(k) + Len(old(k))
    BY <2>1, PlacesTyped
  <2>5. e(k - 1) <= b(k) /\ e(k) <= Len(lines) /\ SubSeq(lines, b(k) + 1, e(k)) = old(k)
    BY <1>1, <1>2 DEF Fits
  <2> HIDE DEF old, new, b, e
  <2>6. b(k) <= Len(lines)
    BY <1>1, <2>3, <2>4, <2>5
  <2> QED
    BY <2>2, <2>3, <2>4, <2>5, <2>6
<1>6. e(0) = 0 /\ e(n) \in Nat /\ e(n) <= Len(lines)
  <2>1. e(0) = 0
    BY DEF End
  <2>2. n = 0 \/ n \in 1..n
    BY <1>20
  <2> HIDE DEF e
  <2> QED
    BY <1>1, <1>5, <2>1, <2>2
<1>7. ASSUME NEW k \in 1..n
      PROVE  /\ gap(k) \in Seq(Words) /\ Len(gap(k)) = b(k) - e(k - 1)
             /\ Reads(lines, e(k - 1), gap(k)) /\ Reads(lines, b(k), old(k))
             /\ seqs[k] = gap(k) \o new(k) /\ seqs[k] \in Seq(Words)
             /\ Len(seqs[k]) = (b(k) - e(k - 1)) + Len(new(k))
  <2>1. seqs[k] = gap(k) \o new(k)
    BY <1>1 DEF Piece
  <2> HIDE DEF old, new, b, e, seqs
  <2>2. gap(k) \in Seq(Words) /\ Len(gap(k)) = b(k) - e(k - 1) /\ Reads(lines, e(k - 1), gap(k))
    BY <1>5, ReadsStretch
  <2>3. Reads(lines, b(k), old(k))
    BY <1>5, ReadsBlock
  <2>4. seqs[k] \in Seq(Words) /\ Len(seqs[k]) = Len(gap(k)) + Len(new(k))
    BY <1>5, <2>1, <2>2, ConcatProperties
  <2> QED
    BY <2>1, <2>2, <2>3, <2>4
<1> HIDE DEF old, new, b, e, gap, seqs, tail
<1>8. seqs \in Seq(Seq(Words)) /\ Len(seqs) = n
  <2>1. seqs \in [1..n -> Seq(Words)]
    BY <1>1, <1>7 DEF seqs
  <2> HIDE DEF n
  <2> QED
    BY <1>20, <2>1
<1>9. PICK flat : Flattened(Words, seqs, flat)
  BY <1>8, FlattenSteps
<1>10. /\ flat[0] = <<>> /\ flat[n] = FlattenSeq(seqs)
       /\ \A k \in 0..n : flat[k] \in Seq(Words) /\ Len(flat[k]) \in Nat
       /\ \A k \in 1..n : flat[k] = flat[k - 1] \o seqs[k]
  <2>1. flat \in [0..n -> Seq(Words)]
    BY <1>8, <1>9 DEF Flattened
  <2>2. \A k \in 0..n : flat[k] \in Seq(Words) /\ Len(flat[k]) \in Nat
    BY <2>1, LenProperties
  <2> QED
    BY <1>8, <1>9, <2>2 DEF Flattened
<1> DEFINE l(k) == Len(flat[k])
           at == [k \in 0..n |-> l(k) - e(k)]
<1>11. l(0) = 0
  BY <1>10, EmptySeq
<1>12. ASSUME NEW k \in 1..n
       PROVE  /\ k - 1 \in 0..n /\ k \in 0..n /\ l(k - 1) \in Nat /\ l(k) \in Nat
              /\ flat[k - 1] \in Seq(Words)
              /\ l(k) = l(k - 1) + Len(seqs[k])
  <2>1. k - 1 \in 0..n /\ k \in 0..n
    BY <1>20
  <2>2. Len(flat[k - 1] \o seqs[k]) = Len(flat[k - 1]) + Len(seqs[k])
    BY <1>7, <1>10, <2>1, ConcatProperties
  <2> QED
    BY <1>10, <2>1, <2>2
<1> HIDE DEF l
<1>13. \A k \in 1..n : Shift(hunks, k) = l(k - 1) - e(k - 1)
  <2>1. at \in [0..n -> Int]
    <3>1. ASSUME NEW k \in 0..n PROVE l(k) - e(k) \in Int
      <4>1. k = 0 \/ k \in 1..n
        BY <1>20
      <4> QED
        BY <1>5, <1>6, <1>11, <1>12, <4>1
    <3> QED
      BY <3>1
  <2>2. at[0] = 0
    BY <1>6, <1>11, <1>20
  <2>3. ASSUME NEW k \in 1..n PROVE at[k] = at[k - 1] + Growth(hunks[k])
    <3>1. Growth(hunks[k]) = Len(new(k)) - Len(old(k))
      BY DEF Growth, new, old
    <3>2. l(k) = l(k - 1) + ((b(k) - e(k - 1)) + Len(new(k))) /\ e(k) = b(k) + Len(old(k))
      BY <1>5, <1>7, <1>12
    <3>3. at[k] = l(k) - e(k) /\ at[k - 1] = l(k - 1) - e(k - 1)
      BY <1>12
    <3>4. /\ l(k - 1) \in Nat /\ b(k) \in Nat /\ e(k - 1) \in Nat
          /\ Len(new(k)) \in Nat /\ Len(old(k)) \in Nat
      BY <1>5, <1>12
    <3> HIDE DEF at
    <3> QED
      BY <3>1, <3>2, <3>3, <3>4
  <2>4. ASSUME NEW k \in 1..n PROVE Shift(hunks, k) = at[k - 1]
    <3> HIDE DEF at
    <3> QED
      BY <2>1, <2>2, <2>3, ShiftAddsUp
  <2> QED
    BY <1>12, <2>4
<1> HIDE DEF at
<1>14. ASSUME NEW k \in 1..n
       PROVE  /\ b(k) + Shift(hunks, k) = l(k - 1) + Len(gap(k))
              /\ b(k) + Shift(hunks, k) \in Nat
  <2>1. Shift(hunks, k) = l(k - 1) - e(k - 1) /\ Len(gap(k)) = b(k) - e(k - 1)
    BY <1>7, <1>13
  <2>2. b(k) \in Nat /\ e(k - 1) \in Nat /\ e(k - 1) <= b(k) /\ l(k - 1) \in Nat
    BY <1>5, <1>12
  <2> QED
    BY <2>1, <2>2
<1> DEFINE u == Undo(hunks)
<1>15. /\ u \in Seq(HunkSet) /\ Len(u) = n
       /\ \A k \in 1..n : /\ OldBlock(u[k]) = new(k) /\ NewBlock(u[k]) = old(k)
                          /\ Begin(u, k) = l(k - 1) + Len(gap(k))
  <2>1. \A k \in 1..n : Begin(hunks, k) + Shift(hunks, k) \in Nat
    BY <1>14 DEF b
  <2> QED
    BY <1>14, <2>1, UndoneHunks DEF b, old, new
<1> HIDE DEF u
<1>16. /\ \A k \in 0..n : End(u, k) = l(k)
       /\ \A k \in 1..n : l(k) = (l(k - 1) + Len(gap(k))) + Len(new(k))
  <2>1. End(u, 0) = l(0)
    BY <1>11 DEF End
  <2>2. ASSUME NEW k \in 1..n
        PROVE  /\ End(u, k) = l(k)
               /\ l(k) = (l(k - 1) + Len(gap(k))) + Len(new(k))
    <3>1. End(u, k) = Begin(u, k) + Len(OldBlock(u[k]))
      <4>1. k # 0
        BY <1>20
      <4> QED
        BY <4>1 DEF End
    <3>2. End(u, k) = (l(k - 1) + Len(gap(k))) + Len(new(k))
      BY <1>15, <3>1
    <3>3. l(k) = l(k - 1) + (Len(gap(k)) + Len(new(k)))
      BY <1>7, <1>12
    <3>4. l(k - 1) \in Nat /\ Len(gap(k)) \in Nat /\ Len(new(k)) \in Nat
      BY <1>5, <1>7, <1>12, LenProperties
    <3> QED
      BY <3>2, <3>3, <3>4
  <2>3. \A k \in 0..n : k = 0 \/ k \in 1..n
    BY <1>20
  <2> QED
    BY <2>1, <2>2, <2>3
<1>17. /\ tail \in Seq(Words) /\ Len(tail) = Len(lines) - e(n) /\ Reads(lines, e(n), tail)
       /\ Reads(out, 0, flat[n]) /\ Reads(out, l(n), tail) /\ l(n) + Len(tail) = Len(out)
  <2>1. tail \in Seq(Words) /\ Len(tail) = Len(lines) - e(n) /\ Reads(lines, e(n), tail)
    <3>1. Len(lines) \in Nat /\ Len(lines) <= Len(lines)
      BY <1>1
    <3> QED
      BY <1>6, <3>1, ReadsStretch DEF tail
  <2>2. n \in 0..n
    BY <1>20
  <2>3. out = flat[n] \o tail /\ flat[n] \in Seq(Words)
    BY <1>4, <1>10, <2>2
  <2>4. Reads(out, 0, flat[n] \o tail)
    <3>1. \A j \in Nat : 0 + j = j
      OBVIOUS
    <3>2. Len(out) \in Nat
      BY <1>3, LenProperties
    <3>3. Reads(out, 0, out)
      BY <3>1, <3>2 DEF Reads
    <3> QED
      BY <2>3, <3>3
  <2>5. Reads(out, 0, flat[n]) /\ Reads(out, 0 + Len(flat[n]), tail)
    BY <1>3, <2>1, <2>3, <2>4, ReadsParts
  <2>6. Len(out) = Len(flat[n]) + Len(tail)
    BY <2>1, <2>3, ConcatProperties
  <2>7. 0 + Len(flat[n]) = Len(flat[n])
    BY <1>10, <2>2
  <2> QED
    BY <2>1, <2>5, <2>6, <2>7 DEF l
<1>18. \A k \in 0..n : Reads(out, 0, flat[k])
  <2> DEFINE T == {m \in 0..n : Reads(out, 0, flat[n - m])}
  <2>1. 0 \in T
    <3>1. n - 0 = n /\ 0 \in 0..n
      BY <1>20
    <3> QED
      BY <1>17, <3>1
  <2>2. ASSUME NEW m \in 1..n, m - 1 \in T PROVE m \in T
    <3> DEFINE k == n - (m - 1)
    <3>1. k \in 1..n /\ n - m = k - 1 /\ m \in 0..n
      BY <1>20
    <3>2. Reads(out, 0, flat[k])
      BY <2>2
    <3> HIDE DEF k
    <3>3. flat[k] = flat[k - 1] \o seqs[k] /\ flat[k - 1] \in Seq(Words) /\ seqs[k] \in Seq(Words)
      BY <1>7, <1>10, <1>12, <3>1
    <3>4. Reads(out, 0, flat[k - 1])
      BY <1>3, <3>2, <3>3, ReadsParts
    <3> QED
      BY <3>1, <3>4
  <2>3. \A m \in 0..n : m \in T
    <3> HIDE DEF T, n
    <3> QED
      BY <1>20, <2>1, <2>2, CountUp
  <2>4. ASSUME NEW k \in 0..n PROVE Reads(out, 0, flat[k])
    <3>1. n - k \in 0..n /\ n - (n - k) = k
      BY <1>20
    <3> QED
      BY <2>3, <3>1
  <2> QED
    BY <2>4
<1>19. ASSUME NEW k \in 1..n
       PROVE  /\ Reads(out, l(k - 1), gap(k)) /\ Reads(out, l(k - 1) + Len(gap(k)), new(k))
  <2>1. flat[k] = flat[k - 1] \o seqs[k] /\ Reads(out, 0, flat[k])
    BY <1>10, <1>12, <1>18
  <2>2. Reads(out, 0 + Len(flat[k - 1]), seqs[k])
    BY <1>3, <1>7, <1>12, <2>1, ReadsParts
  <2>3. 0 + Len(flat[k - 1]) = l(k - 1) /\ l(k - 1) \in Nat
    BY <1>12 DEF l
  <2>4. Reads(out, l(k - 1), gap(k) \o new(k))
    BY <1>7, <2>2, <2>3
  <2> QED
    BY <1>3, <1>5, <1>7, <2>3, <2>4, ReadsParts
<1>21. Fits(out, u)
  <2>1. DOMAIN u = 1..n
    BY <1>15, LenProperties
  <2>2. ASSUME NEW k \in 1..n
        PROVE  /\ End(u, k - 1) <= Begin(u, k) /\ End(u, k) <= Len(out)
               /\ SubSeq(out, Begin(u, k) + 1, End(u, k)) = OldBlock(u[k])
    <3> DEFINE c == l(k - 1) + Len(gap(k))
    <3>1. /\ l(k - 1) \in Nat /\ Len(gap(k)) \in Nat /\ new(k) \in Seq(Words)
          /\ End(u, k - 1) = l(k - 1) /\ Begin(u, k) = c
          /\ End(u, k) = c + Len(new(k)) /\ OldBlock(u[k]) = new(k)
      BY <1>5, <1>7, <1>12, <1>15, <1>16, LenProperties
    <3>2. c \in Nat /\ l(k - 1) <= c
      BY <3>1
    <3>3. Reads(out, c, new(k))
      BY <1>19
    <3> HIDE DEF c
    <3>4. c + Len(new(k)) <= Len(out) /\ SubSeq(out, c + 1, c + Len(new(k))) = new(k)
      BY <1>3, <3>1, <3>2, <3>3, ReadsBlock
    <3> QED
      BY <3>1, <3>2, <3>4
  <2> QED
    BY <2>1, <2>2 DEF Fits
<1> DEFINE back == ApplyHunks(out, u)
           again == [k \in DOMAIN u |-> Piece(out, u, k)]
<1>22. back.ok /\ back.out = Replaced(out, u)
  BY <1>3, <1>15, <1>21, HunksExact
<1>23. Replaced(out, u) = FlattenSeq(again) \o SubSeq(out, End(u, n) + 1, Len(out))
  BY <1>15, Zenon DEF Replaced, Piece
<1>24. SubSeq(out, End(u, n) + 1, Len(out)) = tail
  <2>1. n \in 0..n /\ End(u, n) = l(n) /\ l(n) \in Nat
    BY <1>10, <1>16, <1>20 DEF l
  <2>2. SubSeq(out, l(n) + 1, l(n) + Len(tail)) = tail
    BY <1>3, <1>17, <2>1, ReadsBlock
  <2> QED
    BY <1>17, <2>1, <2>2
<1>25. ASSUME NEW k \in 1..n
       PROVE  /\ again[k] = gap(k) \o old(k) /\ again[k] \in Seq(Words)
              /\ Len(again[k]) = Len(gap(k)) + Len(old(k))
              /\ Reads(lines, e(k - 1), again[k])
  <2>1. k \in DOMAIN u
    BY <1>15, LenProperties
  <2>2. again[k] = SubSeq(out, End(u, k - 1) + 1, Begin(u, k)) \o NewBlock(u[k])
    BY <2>1 DEF Piece
  <2>3. SubSeq(out, l(k - 1) + 1, l(k - 1) + Len(gap(k))) = gap(k)
    BY <1>3, <1>7, <1>12, <1>19, ReadsBlock
  <2>4. again[k] = gap(k) \o old(k)
    BY <1>12, <1>15, <1>16, <2>2, <2>3
  <2> HIDE DEF again
  <2>5. gap(k) \o old(k) \in Seq(Words) /\ Len(gap(k) \o old(k)) = Len(gap(k)) + Len(old(k))
    BY <1>5, <1>7, ConcatProperties
  <2>6. e(k - 1) + Len(gap(k)) = b(k) /\ b(k) <= Len(lines)
    BY <1>5, <1>7
  <2>7. Reads(lines, e(k - 1), gap(k) \o old(k))
    <3>1. e(k - 1) \in Nat /\ gap(k) \in Seq(Words) /\ old(k) \in Seq(Words)
      BY <1>5, <1>7
    <3>2. Reads(lines, e(k - 1), gap(k)) /\ Reads(lines, e(k - 1) + Len(gap(k)), old(k))
      BY <1>7, <2>6
    <3> QED
      BY <2>6, <3>1, <3>2, ReadsParts
  <2> QED
    BY <2>4, <2>5, <2>7
<1>26. again \in Seq(Seq(Words)) /\ Len(again) = n
  <2>1. DOMAIN u = 1..n
    BY <1>15, LenProperties
  <2>2. again \in [1..n -> Seq(Words)]
    BY <1>25, <2>1
  <2> HIDE DEF n, again
  <2> QED
    BY <1>20, <2>2
<1> HIDE DEF again, back
<1>27. PICK step : Flattened(Words, again, step)
  BY <1>26, FlattenSteps
<1>28. /\ step[0] = <<>> /\ step[n] = FlattenSeq(again)
       /\ \A k \in 0..n : step[k] \in Seq(Words)
       /\ \A k \in 1..n : step[k] = step[k - 1] \o again[k]
  BY <1>26, <1>27 DEF Flattened
<1> DEFINE S == {k \in 0..n : Len(step[k]) = e(k) /\ Reads(lines, 0, step[k])}
<1>29. n \in S
  <2>1. 0 \in S
    <3>1. 0 \in 0..n /\ Len(step[0]) = 0
      BY <1>20, <1>28, EmptySeq
    <3>2. Reads(lines, 0, step[0])
      <4>1. 0 + 0 <= Len(lines) /\ 1..0 = {}
        BY <1>1
      <4> QED
        BY <3>1, <4>1 DEF Reads
    <3> QED
      BY <1>6, <3>1, <3>2
  <2>2. ASSUME NEW k \in 1..n, k - 1 \in S PROVE k \in S
    <3>1. /\ Len(step[k - 1]) = e(k - 1) /\ Reads(lines, 0, step[k - 1])
          /\ step[k - 1] \in Seq(Words) /\ again[k] \in Seq(Words)
      BY <1>12, <1>25, <1>28, <2>2
    <3>2. 0 + Len(step[k - 1]) = e(k - 1) /\ 0 + Len(step[k - 1]) <= Len(lines)
      <4>1. e(k - 1) \in Nat /\ e(k - 1) <= b(k) /\ b(k) <= Len(lines) /\ b(k) \in Nat
        BY <1>5
      <4> QED
        BY <1>1, <3>1, <4>1
    <3>3. Reads(lines, 0, step[k - 1] \o again[k])
      BY <1>25, <3>1, <3>2, ReadsParts
    <3>4. Len(step[k - 1] \o again[k]) = e(k - 1) + Len(again[k])
      <4> DEFINE s == step[k - 1]
                 t == again[k]
      <4>1. s \in Seq(Words) /\ t \in Seq(Words) /\ Len(s) = e(k - 1)
        BY <3>1
      <4> HIDE DEF s, t
      <4>2. Len(s \o t) = Len(s) + Len(t)
        BY <4>1, ConcatProperties
      <4> QED
        BY <4>1, <4>2 DEF s, t
    <3>5. e(k - 1) + Len(again[k]) = e(k)
      <4>1. Len(again[k]) = Len(gap(k)) + Len(old(k)) /\ Len(gap(k)) = b(k) - e(k - 1)
        BY <1>7, <1>25
      <4>2. e(k - 1) \in Nat /\ b(k) \in Nat /\ Len(old(k)) \in Nat /\ e(k) = b(k) + Len(old(k))
        BY <1>5
      <4> QED
        BY <4>1, <4>2
    <3> QED
      BY <1>12, <1>28, <3>3, <3>4, <3>5
  <2>3. n \in 0..n
    BY <1>20
  <2> HIDE DEF S, n
  <2> QED
    BY <1>20, <2>1, <2>2, <2>3, CountUp
<1>30. step[n] \o tail = lines
  <2>1. Len(step[n]) = e(n) /\ Reads(lines, 0, step[n]) /\ step[n] \in Seq(Words)
    BY <1>28, <1>29
  <2>2. 0 + Len(step[n]) = e(n) /\ 0 + Len(step[n]) <= Len(lines)
    BY <1>6, <2>1
  <2>3. Reads(lines, 0, step[n] \o tail)
    BY <1>17, <2>1, <2>2, ReadsParts
  <2>4. step[n] \o tail \in Seq(Words) /\ Len(step[n] \o tail) = Len(lines)
    <3>1. e(n) + (Len(lines) - e(n)) = Len(lines)
      BY <1>1, <1>6
    <3> QED
      BY <1>17, <2>1, <3>1, ConcatProperties
  <2> QED
    BY <2>3, <2>4, ReadsAll
<1>31. back.out = lines
  BY <1>22, <1>23, <1>24, <1>28, <1>30
<1> QED
  BY <1>22, <1>31 DEF back, out, u

-----------------------------------------------------------------------------
(* The diff between two texts. *)

(* What LongestCommonPrefix chooses is a common prefix. *)
LEMMA CommonPrefix ==
    ASSUME NEW x \in Seq(Words), NEW y \in Seq(Words)
    PROVE  LET p == Len(LongestCommonPrefix({x, y}))
           IN  /\ p \in Nat /\ p <= Len(x) /\ p <= Len(y)
               /\ \A i \in 1..p : x[i] = y[i]
<1> DEFINE C == CommonPrefixes({x, y})
           w == LongestCommonPrefix({x, y})
           Longest(c) == \A other \in C : Len(other) <= Len(c)
<1>1. /\ Len(x) \in Nat /\ Len(y) \in Nat
      /\ \A i \in 1..Len(x) : x[i] \in Words
      /\ \A i \in 1..Len(y) : y[i] \in Words
  BY LenProperties, ElementOfSeq
<1>2. C = {c \in UNION {Prefixes(t) : t \in {x, y}} : \A t \in {x, y} : IsPrefix(c, t)}
  BY Zenon DEF CommonPrefixes
<1>3. ASSUME NEW t \in Seq(Words), NEW c \in Prefixes(t) PROVE c \in Seq(Words)
  <2>1. PICK m \in 0..Len(t) : c = SubSeq(t, 1, m)
    BY <1>3 DEF Prefixes
  <2>2. Len(t) \in Nat
    BY LenProperties
  <2>3. 0 \in Nat /\ m \in Nat /\ m <= Len(t) /\ 0 + 1 = 1
    BY <2>2
  <2>4. SubSeq(t, 0 + 1, m) \in Seq(Words)
    BY <2>3, StretchTyped
  <2> QED
    BY <2>1, <2>3, <2>4
<1>4. ASSUME NEW c \in C
      PROVE  c \in Seq(Words) /\ IsPrefix(c, x) /\ IsPrefix(c, y)
  <2>1. c \in Prefixes(x) \/ c \in Prefixes(y)
    BY <1>2
  <2> QED
    BY <1>2, <1>3, <2>1
<1>5. <<>> \in C
  <2>1. SubSeq(x, 1, 0) = <<>> /\ SubSeq(y, 1, 0) = <<>>
    BY SubSeqEmpty
  <2>2. <<>> \in Prefixes(x)
    BY <1>1, <2>1 DEF Prefixes
  <2>3. Len(<<>>) = 0 /\ SubSeq(<<>>, 1, 0) = <<>>
    BY EmptySeq, SubSeqEmpty
  <2>4. IsPrefix(<<>>, x) /\ IsPrefix(<<>>, y)
    BY <1>1, <2>1, <2>3 DEF IsPrefix
  <2> QED
    BY <1>2, <2>2, <2>4
<1>6. ASSUME NEW c \in C
      PROVE  /\ Len(c) \in Nat /\ Len(c) <= Len(x) /\ Len(c) <= Len(y)
             /\ c = SubSeq(x, 1, Len(c)) /\ c = SubSeq(y, 1, Len(c))
  <2>1. c \in Seq(Words) /\ IsPrefix(c, x) /\ IsPrefix(c, y)
    BY <1>4
  <2>2. Len(c) \in Nat /\ SubSeq(c, 1, Len(c)) = c
    BY <2>1, LenProperties, SubSeqFull
  <2> QED
    BY <2>1, <2>2 DEF IsPrefix
<1> HIDE DEF C
<1>7. \E c \in C : Longest(c)
  <2> DEFINE T == {Len(x) - Len(c) : c \in C}
  <2>1. T \subseteq Nat
    <3>1. \A c \in C : Len(x) - Len(c) \in Nat
      BY <1>1, <1>6
    <3> QED
      BY <3>1
  <2>2. T # {}
    BY <1>5
  <2>3. PICK k \in T : \A j \in T : k <= j
    <3> HIDE DEF T
    <3> QED
      BY <2>1, <2>2, LeastNumber
  <2>4. PICK c \in C : k = Len(x) - Len(c)
    BY <2>3
  <2>5. ASSUME NEW other \in C PROVE Len(other) <= Len(c)
    <3>1. Len(x) - Len(other) \in T
      OBVIOUS
    <3>2. k <= Len(x) - Len(other)
      BY <2>3, <3>1
    <3> QED
      BY <1>1, <1>6, <2>4, <3>2
  <2> QED
    BY <2>5
<1>8. w = CHOOSE c \in C : Longest(c)
  BY Zenon DEF LongestCommonPrefix, C
<1> HIDE DEF w, Longest
<1>9. w \in C
  BY <1>7, <1>8
<1> DEFINE p == Len(w)
<1>10. p \in Nat /\ p <= Len(x) /\ p <= Len(y) /\ SubSeq(x, 1, p) = SubSeq(y, 1, p)
  BY <1>6, <1>9
<1> HIDE DEF p
<1>11. ASSUME NEW i \in 1..p PROVE x[i] = y[i]
  <2>1. 1 \in Int /\ p \in Int /\ i \in 1..(p - 1 + 1) /\ 1 + i - 1 = i
    BY <1>10
  <2>2. \A j \in 1..p : x[j] \in Words /\ y[j] \in Words
    BY <1>1, <1>10
  <2>3. SubSeq(x, 1, p)[i] = x[1 + i - 1] /\ SubSeq(y, 1, p)[i] = y[1 + i - 1]
    BY <2>1, <2>2, SubSeqProperties
  <2> QED
    BY <1>10, <2>1, <2>3
<1> QED
  BY <1>10, <1>11 DEF p, w

(* A text behind its first c lines. *)
LEMMA BehindPrefix ==
    ASSUME NEW lines \in Seq(Words), NEW c \in Nat, c <= Len(lines)
    PROVE  LET rest == SubSeq(lines, c + 1, Len(lines))
           IN  /\ rest \in Seq(Words) /\ Len(rest) = Len(lines) - c
               /\ \A i \in 1..(Len(lines) - c) : rest[i] = lines[c + i]
<1>1. Len(lines) \in Nat /\ Len(lines) <= Len(lines)
  BY LenProperties
<1> DEFINE rest == SubSeq(lines, c + 1, Len(lines))
<1>2. rest \in Seq(Words) /\ Len(rest) = Len(lines) - c /\ Reads(lines, c, rest)
  BY <1>1, ReadsStretch
<1> HIDE DEF rest
<1>3. \A i \in 1..(Len(lines) - c) : rest[i] = lines[c + i]
  BY <1>2 DEF Reads
<1> QED
  BY <1>2, <1>3 DEF rest

(* The first lines of a text. *)
LEMMA FirstLines ==
    ASSUME NEW lines \in Seq(Words), NEW m \in Nat, m <= Len(lines)
    PROVE  LET first == SubSeq(lines, 1, m)
           IN  /\ first \in Seq(Words) /\ Len(first) = m
               /\ \A i \in 1..m : first[i] = lines[i]
<1> DEFINE first == SubSeq(lines, 1, m)
<1>1. 0 \in Nat /\ 0 <= m /\ 0 + 1 = 1 /\ m - 0 = m
  OBVIOUS
<1>2. LET gap == SubSeq(lines, 0 + 1, m)
      IN  gap \in Seq(Words) /\ Len(gap) = m - 0 /\ Reads(lines, 0, gap)
  BY <1>1, ReadsStretch
<1>3. first \in Seq(Words) /\ Len(first) = m /\ Reads(lines, 0, first)
  BY <1>1, <1>2
<1> HIDE DEF first
<1>4. ASSUME NEW i \in 1..m PROVE first[i] = lines[i]
  <2>1. lines[0 + i] = first[i] /\ 0 + i = i
    BY <1>3 DEF Reads
  <2> QED
    BY <2>1
<1> QED
  BY <1>3, <1>4 DEF first

(* How two texts differ: the same p lines, a block for a block, one tail;  *)
Differ(old, new, p, gone, come, tail) ==
    /\ p \in Nat /\ {gone, come, tail} \subseteq Seq(Words)
    /\ p + Len(gone) + Len(tail) = Len(old) /\ p + Len(come) + Len(tail) = Len(new)
    /\ \A i \in 1..p : old[i] = new[i]
    /\ Reads(old, p, gone) /\ Reads(old, p + Len(gone), tail)
    /\ Reads(new, p, come) /\ Reads(new, p + Len(come), tail)

(* and the diff that says so. *)
Marked(op, block) == [k \in DOMAIN block |-> BodyLine(op, block[k])]

Said(p, gone, come) ==
    IF gone = <<>> /\ come = <<>> THEN <<>>
    ELSE <<Header(IF gone = <<>> THEN p ELSE p + 1, Len(gone), Len(come))>>
             \o Marked("-", gone) \o Marked("+", come)

(* DiffOf finds such blocks. *)
LEMMA DiffCuts ==
    ASSUME NEW old \in Seq(Words), NEW new \in Seq(Words)
    PROVE  \E p, gone, come, tail :
              Differ(old, new, p, gone, come, tail) /\ DiffOf(old, new) = Said(p, gone, come)
<1> DEFINE p == Len(LongestCommonPrefix({old, new}))
           o == SubSeq(old, p + 1, Len(old))
           n == SubSeq(new, p + 1, Len(new))
           ro == Reverse(o)
           rn == Reverse(n)
           q == Len(LongestCommonPrefix({ro, rn}))
           gone == SubSeq(o, 1, Len(o) - q)
           come == SubSeq(n, 1, Len(n) - q)
           tail == SubSeq(o, (Len(o) - q) + 1, Len(o))
           a == Len(o) - q
           b == Len(n) - q
<1>1. DiffOf(old, new) = Said(p, gone, come)
  BY Zenon DEF DiffOf, Said, Marked
<1>2. Len(old) \in Nat /\ Len(new) \in Nat
  BY LenProperties
<1>3. p \in Nat /\ p <= Len(old) /\ p <= Len(new) /\ \A i \in 1..p : old[i] = new[i]
  BY CommonPrefix
<1> HIDE DEF p
<1>4. /\ o \in Seq(Words) /\ Len(o) = Len(old) - p
      /\ \A i \in 1..(Len(old) - p) : o[i] = old[p + i]
  BY <1>3, BehindPrefix
<1>5. /\ n \in Seq(Words) /\ Len(n) = Len(new) - p
      /\ \A i \in 1..(Len(new) - p) : n[i] = new[p + i]
  BY <1>3, BehindPrefix
<1> HIDE DEF o, n
<1>6. Len(o) \in Nat /\ Len(n) \in Nat
  BY <1>4, <1>5, LenProperties
<1>7. /\ ro \in Seq(Words) /\ Len(ro) = Len(o)
      /\ \A i \in 1..Len(o) : ro[i] = o[(Len(o) - i) + 1]
  <2>1. ro = [i \in 1..Len(o) |-> o[(Len(o) - i) + 1]]
    BY DEF Reverse
  <2>2. \A i \in 1..Len(o) : o[(Len(o) - i) + 1] \in Words
    <3>1. \A i \in 1..Len(o) : (Len(o) - i) + 1 \in 1..Len(o)
      BY <1>6
    <3> QED
      BY <1>4, <3>1, ElementOfSeq
  <2>3. ro \in [1..Len(o) -> Words]
    BY <2>1, <2>2, Zenon
  <2>4. \A i \in 1..Len(o) : ro[i] = o[(Len(o) - i) + 1]
    BY <2>1, Zenon
  <2> HIDE DEF ro
  <2>5. ro \in Seq(Words) /\ Len(ro) = Len(o)
    BY <1>6, <2>3
  <2> QED
    BY <2>4, <2>5
<1>8. /\ rn \in Seq(Words) /\ Len(rn) = Len(n)
      /\ \A i \in 1..Len(n) : rn[i] = n[(Len(n) - i) + 1]
  <2>1. rn = [i \in 1..Len(n) |-> n[(Len(n) - i) + 1]]
    BY DEF Reverse
  <2>2. \A i \in 1..Len(n) : n[(Len(n) - i) + 1] \in Words
    <3>1. \A i \in 1..Len(n) : (Len(n) - i) + 1 \in 1..Len(n)
      BY <1>6
    <3> QED
      BY <1>5, <3>1, ElementOfSeq
  <2>3. rn \in [1..Len(n) -> Words]
    BY <2>1, <2>2, Zenon
  <2>4. \A i \in 1..Len(n) : rn[i] = n[(Len(n) - i) + 1]
    BY <2>1, Zenon
  <2> HIDE DEF rn
  <2> QED
    BY <1>6, <2>3, <2>4
<1> HIDE DEF ro, rn
<1>9. q \in Nat /\ q <= Len(o) /\ q <= Len(n) /\ \A i \in 1..q : ro[i] = rn[i]
  BY <1>7, <1>8, CommonPrefix
<1> HIDE DEF q
<1>10. ASSUME NEW i \in 1..q PROVE o[a + i] = n[b + i]
  <2> DEFINE j == (q - i) + 1
  <2>1. /\ j \in 1..q /\ j \in 1..Len(o) /\ j \in 1..Len(n)
        /\ (Len(o) - j) + 1 = a + i /\ (Len(n) - j) + 1 = b + i
    BY <1>6, <1>9
  <2> HIDE DEF j, a, b
  <2>2. ro[j] = rn[j] /\ ro[j] = o[(Len(o) - j) + 1] /\ rn[j] = n[(Len(n) - j) + 1]
    BY <1>7, <1>8, <1>9, <2>1
  <2> QED
    BY <2>1, <2>2
<1>11. /\ a \in Nat /\ b \in Nat /\ a <= Len(o) /\ b <= Len(n) /\ Len(o) - a = q
       /\ p + a + q = Len(old) /\ p + b + q = Len(new)
  BY <1>2, <1>3, <1>4, <1>5, <1>6, <1>9
<1>12. gone \in Seq(Words) /\ Len(gone) = a /\ \A i \in 1..a : gone[i] = o[i]
  BY <1>4, <1>11, FirstLines
<1>13. come \in Seq(Words) /\ Len(come) = b /\ \A i \in 1..b : come[i] = n[i]
  BY <1>5, <1>11, FirstLines
<1>14. tail \in Seq(Words) /\ Len(tail) = q /\ \A i \in 1..q : tail[i] = o[a + i]
  <2>1. tail = SubSeq(o, a + 1, Len(o))
    OBVIOUS
  <2> HIDE DEF tail, a
  <2>2. /\ tail \in Seq(Words) /\ Len(tail) = Len(o) - a
        /\ \A i \in 1..(Len(o) - a) : tail[i] = o[a + i]
    BY <1>4, <1>11, <2>1, BehindPrefix
  <2> QED
    BY <1>11, <2>2
<1> HIDE DEF gone, come, tail, a, b
<1>15. Reads(old, p, gone)
  <2>1. ASSUME NEW i \in 1..a PROVE old[p + i] = gone[i]
    <3>1. i \in 1..(Len(old) - p)
      BY <1>3, <1>9, <1>11, <1>2
    <3> QED
      BY <1>4, <1>12, <3>1
  <2>2. p + a <= Len(old)
    BY <1>3, <1>9, <1>11
  <2> QED
    BY <1>12, <2>1, <2>2 DEF Reads
<1>16. Reads(new, p, come)
  <2>1. ASSUME NEW i \in 1..b PROVE new[p + i] = come[i]
    <3>1. i \in 1..(Len(new) - p)
      BY <1>3, <1>9, <1>11, <1>2
    <3> QED
      BY <1>5, <1>13, <3>1
  <2>2. p + b <= Len(new)
    BY <1>3, <1>9, <1>11
  <2> QED
    BY <1>13, <2>1, <2>2 DEF Reads
<1>17. Reads(old, p + a, tail)
  <2>1. ASSUME NEW i \in 1..q PROVE old[(p + a) + i] = tail[i]
    <3>1. a + i \in 1..(Len(old) - p) /\ p + (a + i) = (p + a) + i
      BY <1>3, <1>9, <1>11, <1>2
    <3> QED
      BY <1>4, <1>14, <3>1
  <2>2. (p + a) + q <= Len(old)
    BY <1>2, <1>3, <1>9, <1>11
  <2> QED
    BY <1>14, <2>1, <2>2 DEF Reads
<1>18. Reads(new, p + b, tail)
  <2>1. ASSUME NEW i \in 1..q PROVE new[(p + b) + i] = tail[i]
    <3>1. b + i \in 1..(Len(new) - p) /\ p + (b + i) = (p + b) + i
      BY <1>3, <1>9, <1>11, <1>2
    <3> QED
      BY <1>5, <1>10, <1>14, <3>1
  <2>2. (p + b) + q <= Len(new)
    BY <1>2, <1>3, <1>9, <1>11
  <2> QED
    BY <1>14, <2>1, <2>2 DEF Reads
<1>19. Differ(old, new, p, gone, come, tail)
  BY <1>3, <1>11, <1>12, <1>13, <1>14, <1>15, <1>16, <1>17, <1>18 DEF Differ
<1> QED
  BY <1>1, <1>19

(* A line that the open hunk still lacks is taken into its body. *)
LEMMA BodyTaken ==
    ASSUME NEW s \in ParserStates, s.ok, s.open, NEW line \in EditLines,
           line.op \in {"-", "+"}, line.op = "-" => s.old > 0, line.op = "+" => s.new > 0
    PROVE  LET t == ParseLine(s, line)
           IN  /\ t.ok /\ t.open /\ t.hunks = s.hunks /\ t.start = s.start
               /\ t.body = Append(s.body, line)
               /\ t.old = IF line.op = "+" THEN s.old ELSE s.old - 1
               /\ t.new = IF line.op = "-" THEN s.new ELSE s.new - 1
<1>1. s.old \in Int /\ s.new \in Int
  BY DEF ParserStates
<1>2. ~Consumed(s)
  BY <1>1 DEF Consumed
<1>3. Blank.op = "blank" /\ NoNewlineMarker.op = "\\"
  BY DEF Blank, NoNewlineMarker
<1>4. line # Blank /\ line # NoNewlineMarker /\ line.op # "@" /\ line.op \in {" ", "-", "+"}
  BY <1>3
<1>5. ParseLine(s, line) = TakeLine(s, line)
  BY <1>2, <1>4 DEF ParseLine
<1>6. [op |-> line.op, text |-> line.text] = line
  BY DEF EditLines
<1>7. TakeLine(s, line) =
        [s EXCEPT !.body = Append(s.body, line),
                  !.old = IF line.op = "+" THEN s.old ELSE s.old - 1,
                  !.new = IF line.op = "-" THEN s.new ELSE s.new - 1]
  BY <1>6 DEF TakeLine
<1> DEFINE b == Append(s.body, line)
           m == IF line.op = "+" THEN s.old ELSE s.old - 1
           n == IF line.op = "-" THEN s.new ELSE s.new - 1
           t == [s EXCEPT !.body = b, !.old = m, !.new = n]
<1>8. ParseLine(s, line) = t
  BY <1>5, <1>7
<1> HIDE DEF b, m, n
<1>9. /\ t.ok /\ t.open /\ t.hunks = s.hunks /\ t.start = s.start
      /\ t.body = b /\ t.old = m /\ t.new = n
  BY DEF ParserStates
<1> HIDE DEF t
<1> QED
  BY <1>8, <1>9 DEF b, m, n

(* The lines of a block, all with one mark. *)
LEMMA MarkedTyped ==
    ASSUME NEW op \in {" ", "-", "+"}, NEW block \in Seq(Words)
    PROVE  /\ Marked(op, block) \in Seq(EditLines) /\ Len(Marked(op, block)) = Len(block)
           /\ \A k \in 1..Len(block) : Marked(op, block)[k].op = op
                                        /\ Marked(op, block)[k].text = block[k]
<1> DEFINE n == Len(block)
           m == Marked(op, block)
<1>1. n \in Nat /\ DOMAIN block = 1..n /\ \A k \in 1..n : block[k] \in Words
  BY LenProperties, ElementOfSeq
<1>2. m = [k \in 1..n |-> BodyLine(op, block[k])]
  BY <1>1 DEF Marked
<1>3. ASSUME NEW k \in 1..n
      PROVE  /\ BodyLine(op, block[k]) \in EditLines
             /\ BodyLine(op, block[k]).op = op /\ BodyLine(op, block[k]).text = block[k]
  BY <1>1 DEF EditLines, BodyLine
<1>4. \A k \in 1..n : m[k] = BodyLine(op, block[k])
  BY <1>2, Zenon
<1>5. m \in [1..n -> EditLines] /\ n \in Nat
  BY <1>1, <1>2, <1>3, Zenon
<1> HIDE DEF m, n
<1>6. m \in Seq(EditLines) /\ Len(m) = n
  BY <1>5, TableIsSeq
<1> QED
  BY <1>3, <1>4, <1>6 DEF m, n

(* The one hunk of a diff between two texts. *)
OneHunk(p, gone, come) ==
    [old_start |-> IF gone = <<>> THEN p ELSE p + 1,
     body |-> Marked("-", gone) \o Marked("+", come)]

(* First what is gone, then what has come. *)
LEMMA OneHunkTyped ==
    ASSUME NEW p \in Nat, NEW gone \in Seq(Words), NEW come \in Seq(Words)
    PROVE  LET b == OneHunk(p, gone, come).body
               g == Len(gone)
           IN  /\ OneHunk(p, gone, come) \in HunkSet /\ b \in Seq(EditLines)
               /\ Len(b) = g + Len(come)
               /\ \A k \in 1..g : b[k].op = "-" /\ b[k].text = gone[k]
               /\ \A k \in 1..Len(come) : b[g + k].op = "+" /\ b[g + k].text = come[k]
<1> DEFINE x == Marked("-", gone)
           y == Marked("+", come)
           b == x \o y
           g == Len(gone)
           c == Len(come)
<1>1. /\ x \in Seq(EditLines) /\ Len(x) = g
      /\ \A k \in 1..g : x[k].op = "-" /\ x[k].text = gone[k]
  BY MarkedTyped
<1>2. /\ y \in Seq(EditLines) /\ Len(y) = c
      /\ \A k \in 1..c : y[k].op = "+" /\ y[k].text = come[k]
  BY MarkedTyped
<1>3. g \in Nat /\ c \in Nat
  BY LenProperties
<1> HIDE DEF x, y, g, c
<1>4. /\ b \in Seq(EditLines) /\ Len(b) = g + c
      /\ \A k \in 1..(g + c) : b[k] = IF k <= g THEN x[k] ELSE y[k - g]
  <2>1. x \in Seq(EditLines) /\ y \in Seq(EditLines) /\ Len(x) = g /\ Len(y) = c
    BY <1>1, <1>2
  <2>2. /\ b \in Seq(EditLines) /\ Len(b) = Len(x) + Len(y)
        /\ \A k \in 1..(Len(x) + Len(y)) : b[k] = IF k <= Len(x) THEN x[k] ELSE y[k - Len(x)]
    BY <2>1, ConcatProperties
  <2> HIDE DEF b
  <2> QED
    BY <2>1, <2>2
<1> HIDE DEF b
<1>5. \A k \in 1..g : b[k] = x[k]
  BY <1>3, <1>4
<1>6. \A k \in 1..c : b[g + k] = y[k]
  <2>1. ASSUME NEW k \in 1..c PROVE b[g + k] = y[k]
    <3>1. g + k \in 1..(g + c) /\ ~(g + k <= g) /\ (g + k) - g = k
      BY <1>3
    <3> QED
      BY <1>4, <3>1
  <2> QED
    BY <2>1
<1>7. OneHunk(p, gone, come).body = b
  BY DEF OneHunk, b, x, y
<1>8. OneHunk(p, gone, come) \in HunkSet
  <2>1. OneHunk(p, gone, come) = [old_start |-> IF gone = <<>> THEN p ELSE p + 1, body |-> b]
    BY DEF OneHunk, b, x, y
  <2> QED
    BY <1>4, <2>1 DEF HunkSet
<1> QED
  BY <1>1, <1>2, <1>4, <1>5, <1>6, <1>7, <1>8 DEF g, c

(* Such a diff is read as its one hunk. *)
LEMMA SaidParses ==
    ASSUME NEW p \in Nat, NEW gone \in Seq(Words), NEW come \in Seq(Words),
           gone # <<>> \/ come # <<>>
    PROVE  LET d == Said(p, gone, come)
           IN  Parses(d) /\ Hunks(d) = <<OneHunk(p, gone, come)>>
<1> DEFINE d == Said(p, gone, come)
           g == Len(gone)
           c == Len(come)
           s0 == IF gone = <<>> THEN p ELSE p + 1
           first == Header(s0, g, c)
           b == OneHunk(p, gone, come).body
           m == g + c
<1>1. g \in Nat /\ c \in Nat /\ m \in Nat /\ s0 \in Nat
  BY LenProperties
<1>2. /\ b \in Seq(EditLines) /\ Len(b) = m
      /\ \A k \in 1..g : b[k].op = "-"
      /\ \A k \in 1..c : b[g + k].op = "+"
  BY OneHunkTyped
<1>3. d = <<first>> \o b
  <2> DEFINE x == Marked("-", gone)
             y == Marked("+", come)
  <2>1. x \in Seq(LineSet) /\ y \in Seq(LineSet)
    <3>1. x \in Seq(EditLines) /\ y \in Seq(EditLines) /\ EditLines \subseteq LineSet
      BY MarkedTyped DEF LineSet
    <3> HIDE DEF x, y
    <3> QED
      BY <3>1
  <2>2. first \in LineSet
    BY <1>1 DEF Header, HeaderLines, LineSet
  <2>3. d = (<<first>> \o x) \o y
    BY Zenon DEF Said
  <2>4. b = x \o y
    BY DEF OneHunk
  <2> HIDE DEF x, y, first, b
  <2>5. <<first>> \in Seq(LineSet)
    BY <2>2
  <2> QED
    BY <2>1, <2>3, <2>4, <2>5, ConcatAssociative
<1>4. /\ d \in Seq(LineSet) /\ Len(d) = m + 1 /\ d[1] = first
      /\ \A k \in 1..m : d[k + 1] = b[k] /\ b[k] \in EditLines
  <2>1. first \in LineSet
    BY <1>1 DEF Header, HeaderLines, LineSet
  <2>2. b \in Seq(LineSet) /\ \A k \in 1..m : b[k] \in EditLines
    <3>1. EditLines \subseteq LineSet
      BY DEF LineSet
    <3> HIDE DEF b
    <3> QED
      BY <1>2, <3>1, ElementOfSeq
  <2> HIDE DEF first, b, d, m
  <2> DEFINE one == <<first>>
  <2>3. one \in Seq(LineSet) /\ Len(one) = 1 /\ one[1] = first
    BY <2>1
  <2> HIDE DEF one
  <2>4. /\ d \in Seq(LineSet) /\ Len(d) = 1 + m
        /\ \A i \in 1..(1 + m) : d[i] = IF i <= 1 THEN one[i] ELSE b[i - 1]
    <3>1. d = one \o b
      BY <1>3 DEF one
    <3>2. /\ d \in Seq(LineSet) /\ Len(d) = Len(one) + Len(b)
          /\ \A i \in 1..(Len(one) + Len(b)) :
                d[i] = IF i <= Len(one) THEN one[i] ELSE b[i - Len(one)]
      BY <2>2, <2>3, <3>1, ConcatProperties
    <3> QED
      BY <1>2, <2>3, <3>2
  <2>5. 1 \in 1..(1 + m) /\ 1 + m = m + 1
    BY <1>1
  <2>6. ASSUME NEW k \in 1..m PROVE d[k + 1] = b[k]
    <3>1. k + 1 \in 1..(1 + m) /\ ~(k + 1 <= 1) /\ (k + 1) - 1 = k
      BY <1>1
    <3> QED
      BY <2>4, <3>1
  <2>7. d[1] = first
    BY <2>3, <2>4, <2>5
  <2>8. d \in Seq(LineSet) /\ Len(d) = m + 1
    BY <2>4, <2>5
  <2> QED
    BY <2>2, <2>6, <2>7, <2>8
<1> HIDE DEF d, b
<1>5. PICK st \in [0..(m + 1) -> ParserStates] :
        /\ st[0] = ParserStart /\ st[m + 1] = Parsed(d)
        /\ \A k \in 1..(m + 1) : st[k] = ParseLine(st[k - 1], d[k])
  BY <1>4, ParsedSteps
<1> DEFINE Good(k) ==
              LET s == st[k + 1]
              IN  /\ s.ok /\ s.open /\ s.hunks = <<>> /\ s.start = s0
                  /\ Len(s.body) = k /\ \A j \in 1..k : s.body[j] = b[j]
                  /\ s.old = IF k <= g THEN g - k ELSE 0
                  /\ s.new = IF k <= g THEN c ELSE c - (k - g)
<1>6. Good(0)
  <2>1. st[1] = ParseLine(ParserStart, first)
    <3>1. 1 \in 1..(m + 1) /\ 1 - 1 = 0
      BY <1>1
    <3> QED
      BY <1>4, <1>5, <3>1
  <2>2. first.op = "@" /\ first.start = s0 /\ first.old = g /\ first.new = c
    BY DEF Header
  <2> HIDE DEF first, s0, g, c
  <2>3. ParserStart.ok /\ Collected(ParserStart) = <<>>
    BY DEF ParserStart, Collected
  <2>4. Count(g) = g /\ Count(c) = c
    BY <1>1 DEF Count, Absent
  <2>5. ParseLine(ParserStart, first) = OpenHunk(ParserStart, first)
    BY <2>2, <2>3 DEF ParseLine
  <2>6. OpenHunk(ParserStart, first) =
          [ParserStart EXCEPT !.hunks = <<>>, !.open = TRUE, !.start = s0,
                              !.body = <<>>, !.old = g, !.new = c]
    BY <2>2, <2>3, <2>4 DEF OpenHunk
  <2> DEFINE none == <<>>
             u == [hunks |-> none, open |-> TRUE, start |-> s0, body |-> none,
                   old |-> g, new |-> c, ok |-> TRUE]
  <2>9. st[1] = u
    BY <2>1, <2>5, <2>6 DEF ParserStart
  <2> HIDE DEF none
  <2>10. /\ u.ok /\ u.open /\ u.hunks = none /\ u.start = s0
         /\ u.body = none /\ u.old = g /\ u.new = c
    OBVIOUS
  <2> HIDE DEF u
  <2>7. /\ st[1].ok /\ st[1].open /\ st[1].hunks = <<>> /\ st[1].start = s0
        /\ st[1].body = <<>> /\ st[1].old = g /\ st[1].new = c
    BY <2>9, <2>10 DEF none
  <2>8. Len(<<>>) = 0 /\ 0 + 1 = 1 /\ 1..0 = {} /\ 0 <= g /\ g - 0 = g
    BY <1>1, EmptySeq
  <2> QED
    BY <2>7, <2>8
<1>7. ASSUME NEW k \in 1..m, Good(k - 1) PROVE Good(k)
  <2> DEFINE s == st[k]
             t == st[k + 1]
             line == b[k]
  <2>1. /\ k \in 1..(m + 1) /\ k \in 0..(m + 1) /\ k + 1 \in 1..(m + 1)
        /\ (k - 1) + 1 = k /\ (k + 1) - 1 = k
    BY <1>1
  <2>2. s \in ParserStates /\ t = ParseLine(s, line) /\ line \in EditLines
    BY <1>4, <1>5, <2>1
  <2>3. /\ s.ok /\ s.open /\ s.hunks = <<>> /\ s.start = s0
        /\ Len(s.body) = k - 1 /\ \A j \in 1..(k - 1) : s.body[j] = b[j]
        /\ s.old = IF k - 1 <= g THEN g - (k - 1) ELSE 0
        /\ s.new = IF k - 1 <= g THEN c ELSE c - ((k - 1) - g)
    BY <1>7, <2>1
  <2>4. line.op = IF k <= g THEN "-" ELSE "+"
    <3>1. CASE k <= g
      BY <1>2, <3>1
    <3>2. CASE ~(k <= g)
      <4>1. k - g \in 1..c /\ g + (k - g) = k
        BY <1>1, <3>2
      <4> QED
        BY <1>2, <3>2, <4>1
    <3> QED
      BY <3>1, <3>2
  <2> HIDE DEF s, t, line, g, c, s0
  <2>5. /\ line.op \in {"-", "+"}
        /\ line.op = "-" => s.old > 0
        /\ line.op = "+" => s.new > 0
    <3>1. k <= g => s.old > 0
      BY <1>1, <2>3
    <3>2. ~(k <= g) => s.new > 0
      BY <1>1, <2>3
    <3> QED
      BY <2>4, <3>1, <3>2
  <2>6. /\ t.ok /\ t.open /\ t.hunks = s.hunks /\ t.start = s.start
        /\ t.body = Append(s.body, line)
        /\ t.old = IF line.op = "+" THEN s.old ELSE s.old - 1
        /\ t.new = IF line.op = "-" THEN s.new ELSE s.new - 1
    BY <2>2, <2>3, <2>5, BodyTaken
  <2>7. t.old = IF k <= g THEN g - k ELSE 0
    BY <1>1, <2>3, <2>4, <2>6
  <2>8. t.new = IF k <= g THEN c ELSE c - (k - g)
    BY <1>1, <2>3, <2>4, <2>6
  <2>9. Len(t.body) = k /\ \A j \in 1..k : t.body[j] = b[j]
    <3>1. s.body \in Seq(EditLines)
      BY <2>2 DEF ParserStates
    <3>2. /\ Len(t.body) = (k - 1) + 1
          /\ \A j \in 1..(k - 1) : t.body[j] = s.body[j]
          /\ t.body[(k - 1) + 1] = line
      BY <2>2, <2>3, <2>6, <3>1, AppendProperties
    <3>3. 1..k = (1..(k - 1)) \cup {k}
      OBVIOUS
    <3> QED
      BY <2>1, <2>3, <3>2, <3>3 DEF line
  <2> QED
    BY <2>3, <2>6, <2>7, <2>8, <2>9 DEF t
<1> DEFINE S == {k \in 0..m : Good(k)}
<1>8. Good(m)
  <2> HIDE DEF Good, m
  <2>1. 0 \in S /\ m \in 0..m /\ \A k \in 1..m : k - 1 \in S => k \in S
    BY <1>1, <1>6, <1>7
  <2>2. m \in S
    <3> HIDE DEF S
    <3> QED
      BY <1>1, <2>1, CountUp
  <2> QED
    BY <2>2
<1> DEFINE s == st[m + 1]
<1>9. s = Parsed(d) /\ s \in ParserStates
  <2>1. m + 1 \in 0..(m + 1)
    BY <1>1
  <2> QED
    BY <1>5, <2>1
<1>10. /\ s.ok /\ s.open /\ s.hunks = <<>> /\ s.start = s0
       /\ Len(s.body) = m /\ \A j \in 1..m : s.body[j] = b[j]
  BY <1>8
<1> HIDE DEF s, Good, m, s0
<1>11. s.body = b
  <2>1. s.body \in Seq(EditLines)
    BY <1>9 DEF ParserStates
  <2> QED
    BY <1>2, <1>10, <2>1, SeqEqual
<1>12. Hunks(d) = Append(<<>>, [old_start |-> s0, body |-> b])
  BY <1>9, <1>10, <1>11 DEF Hunks, Collected
<1>13. [old_start |-> s0, body |-> b] = OneHunk(p, gone, come)
  BY DEF OneHunk, s0, b
<1> QED
  BY <1>9, <1>10, <1>12, <1>13 DEF Parses, d

(* A side that is one stretch of the body. *)
LEMMA PickedStretch ==
    ASSUME NEW h \in HunkSet, NEW ops, NEW a \in Nat, NEW x \in Seq(Words),
           a + Len(x) <= Len(h.body),
           \A k \in 1..Len(h.body) : h.body[k].op \in ops <=> k \in (a + 1)..(a + Len(x)),
           \A k \in 1..Len(x) : h.body[a + k].text = x[k]
    PROVE  Block(h, ops) = x
<1> DEFINE b == h.body
           n == Len(b)
           m == Len(x)
           upto(k) == IF k <= a THEN 0 ELSE IF k <= a + m THEN k - a ELSE m
<1>1. n \in Nat /\ m \in Nat /\ \A k \in 1..m : x[k] \in Words
  <2>1. b \in Seq(EditLines)
    BY DEF HunkSet
  <2> QED
    BY <2>1, LenProperties, ElementOfSeq
<1>2. PICK st : Picked(h, ops, st)
  BY BlockSteps
<1>3. /\ \A k \in 0..n : st[k] \in Seq(Words)
      /\ st[0] = <<>> /\ st[n] = Block(h, ops)
      /\ \A k \in 1..n : st[k] = IF b[k].op \in ops THEN Append(st[k - 1], b[k].text) ELSE st[k - 1]
  BY <1>2 DEF Picked
<1>4. /\ a + m <= n
      /\ \A k \in 1..n : b[k].op \in ops <=> k \in (a + 1)..(a + m)
      /\ \A k \in 1..m : b[a + k].text = x[k]
  OBVIOUS
<1> HIDE DEF b, n, m
<1> DEFINE Good(k) == Len(st[k]) = upto(k) /\ \A i \in 1..upto(k) : st[k][i] = x[i]
           S == {k \in 0..n : Good(k)}
<1>5. 0 \in S
  <2>1. upto(0) = 0 /\ 0 \in 0..n /\ 1..0 = {} /\ Len(<<>>) = 0
    BY <1>1, EmptySeq
  <2> HIDE DEF upto
  <2> QED
    BY <1>3, <2>1
<1>6. ASSUME NEW k \in 1..n, k - 1 \in S PROVE k \in S
  <2>1. k - 1 \in 0..n /\ k \in 0..n /\ Good(k - 1) /\ st[k - 1] \in Seq(Words)
    BY <1>1, <1>3, <1>6
  <2>2. CASE k \in (a + 1)..(a + m)
    <3> DEFINE i == k - a
    <3>1. i \in 1..m /\ upto(k) = i /\ upto(k - 1) = i - 1 /\ (i - 1) + 1 = i /\ a + i = k
      BY <1>1, <2>2
    <3>2. st[k] = Append(st[k - 1], x[i]) /\ x[i] \in Words
      <4>1. i \in 1..m /\ a + i = k
        BY <3>1
      <4>2. b[k].op \in ops
        BY <1>4, <2>2
      <4> HIDE DEF i, upto
      <4>3. b[k].text = x[i] /\ x[i] \in Words
        BY <1>1, <1>4, <4>1
      <4> QED
        BY <1>3, <4>2, <4>3
    <3> HIDE DEF upto, i
    <3>3. Len(st[k - 1]) = i - 1 /\ \A j \in 1..(i - 1) : st[k - 1][j] = x[j]
      BY <2>1, <3>1
    <3>4. Len(st[k]) = i /\ st[k][i] = x[i] /\ \A j \in 1..(i - 1) : st[k][j] = x[j]
      <4>1. /\ Len(st[k]) = (i - 1) + 1 /\ st[k][(i - 1) + 1] = x[i]
            /\ \A j \in 1..(i - 1) : st[k][j] = st[k - 1][j]
        BY <2>1, <3>2, <3>3, AppendProperties
      <4> QED
        BY <3>1, <3>3, <4>1
    <3>5. 1..i = (1..(i - 1)) \cup {i}
      BY <3>1
    <3>6. Good(k)
      BY <3>1, <3>4, <3>5
    <3> HIDE DEF Good
    <3> QED
      BY <2>1, <3>6
  <2>3. CASE k \notin (a + 1)..(a + m)
    <3>1. upto(k) = upto(k - 1)
      BY <1>1, <2>3
    <3>2. st[k] = st[k - 1]
      BY <1>3, <1>4, <2>3
    <3> HIDE DEF upto
    <3>3. Good(k)
      BY <2>1, <3>1, <3>2
    <3> HIDE DEF Good
    <3> QED
      BY <2>1, <3>3
  <2> QED
    BY <2>2, <2>3
<1>7. Good(n)
  <2> HIDE DEF Good
  <2>1. n \in 0..n
    BY <1>1
  <2>2. n \in S
    <3> HIDE DEF S
    <3> QED
      BY <1>1, <1>5, <1>6, <2>1, CountUp
  <2> QED
    BY <2>2
<1>8. upto(n) = m /\ n \in 0..n
  BY <1>1, <1>4
<1> HIDE DEF upto
<1>9. st[n] = x
  <2>1. st[n] \in Seq(Words) /\ Len(st[n]) = Len(x) /\ \A i \in 1..Len(st[n]) : st[n][i] = x[i]
    BY <1>3, <1>7, <1>8 DEF m
  <2> QED
    BY <2>1, SeqEqual
<1> QED
  BY <1>3, <1>9

(* What is gone is the old side of the one hunk, what has come its new one. *)
LEMMA OneHunkSides ==
    ASSUME NEW p \in Nat, NEW gone \in Seq(Words), NEW come \in Seq(Words)
    PROVE  LET h == OneHunk(p, gone, come)
           IN  OldBlock(h) = gone /\ NewBlock(h) = come
<1> DEFINE h == OneHunk(p, gone, come)
           b == h.body
           g == Len(gone)
           c == Len(come)
           olds == {" ", "-"}
           news == {" ", "+"}
<1>1. g \in Nat /\ c \in Nat
  BY LenProperties
<1>2. /\ h \in HunkSet /\ Len(b) = g + c
      /\ \A k \in 1..g : b[k].op = "-" /\ b[k].text = gone[k]
      /\ \A k \in 1..c : b[g + k].op = "+" /\ b[g + k].text = come[k]
  BY OneHunkTyped
<1> HIDE DEF h, g, c
<1>3. ASSUME NEW k \in 1..(g + c), k \notin 1..g PROVE b[k].op = "+" /\ k \in (g + 1)..(g + c)
  <2>1. k - g \in 1..c /\ g + (k - g) = k /\ k \in (g + 1)..(g + c)
    BY <1>1, <1>3
  <2>2. b[g + (k - g)].op = "+"
    BY <1>2, <2>1
  <2> QED
    BY <2>1, <2>2
<1>4. \A k \in 1..(g + c) : b[k].op \in olds <=> k \in (0 + 1)..(0 + g)
  <2>1. 0 + 1 = 1 /\ 0 + g = g
    BY <1>1
  <2> QED
    BY <1>2, <1>3, <2>1
<1>5. \A k \in 1..(g + c) : b[k].op \in news <=> k \in (g + 1)..(g + c)
  <2>1. \A k \in 1..g : k \notin (g + 1)..(g + c)
    BY <1>1
  <2> QED
    BY <1>2, <1>3, <2>1
<1> HIDE DEF olds, news
<1>6. Block(h, olds) = gone
  <2>1. 0 + g <= g + c /\ \A k \in 1..g : 0 + k = k
    BY <1>1
  <2>2. /\ 0 + Len(gone) <= Len(b)
        /\ \A k \in 1..Len(b) : b[k].op \in olds <=> k \in (0 + 1)..(0 + Len(gone))
        /\ \A k \in 1..Len(gone) : b[0 + k].text = gone[k]
    BY <1>2, <1>4, <2>1 DEF g
  <2>3. 0 \in Nat /\ h \in HunkSet
    BY <1>2
  <2> HIDE DEF b
  <2> QED
    BY <2>2, <2>3, PickedStretch DEF b
<1>7. Block(h, news) = come
  <2>1. /\ g + Len(come) <= Len(b)
        /\ \A k \in 1..Len(b) : b[k].op \in news <=> k \in (g + 1)..(g + Len(come))
        /\ \A k \in 1..Len(come) : b[g + k].text = come[k]
    BY <1>1, <1>2, <1>5 DEF c
  <2> QED
    BY <1>1, <1>2, <2>1, PickedStretch
<1> QED
  BY <1>6, <1>7 DEF h, olds, news, OldBlock, NewBlock

(* Applied to the one text, that hunk gives the other; *)
LEMMA OneHunkApplied ==
    ASSUME NEW old \in Seq(Words), NEW new \in Seq(Words), NEW p, NEW gone, NEW come, NEW tail,
           Differ(old, new, p, gone, come, tail)
    PROVE  LET r == ApplyHunks(old, <<OneHunk(p, gone, come)>>)
           IN  r.ok /\ r.out = new
<1> DEFINE h == OneHunk(p, gone, come)
           hunks == <<h>>
           g == Len(gone)
           c == Len(come)
           t == Len(tail)
           head == SubSeq(old, 1, p)
           seqs == [k \in DOMAIN hunks |-> SubSeq(old, End(hunks, k - 1) + 1, Begin(hunks, k))
                                             \o NewBlock(hunks[k])]
<1>1. /\ p \in Nat /\ gone \in Seq(Words) /\ come \in Seq(Words) /\ tail \in Seq(Words)
      /\ p + g + t = Len(old) /\ p + c + t = Len(new)
      /\ \A i \in 1..p : old[i] = new[i]
      /\ Reads(old, p, gone) /\ Reads(old, p + g, tail)
      /\ Reads(new, p, come) /\ Reads(new, p + c, tail)
  BY DEF Differ
<1>2. g \in Nat /\ c \in Nat /\ t \in Nat /\ Len(old) \in Nat /\ Len(new) \in Nat
  BY <1>1, LenProperties
<1>3. h \in HunkSet /\ OldBlock(h) = gone /\ NewBlock(h) = come
      /\ h.old_start = IF gone = <<>> THEN p ELSE p + 1
  <2>1. p \in Nat /\ gone \in Seq(Words) /\ come \in Seq(Words)
    BY <1>1
  <2>2. h.old_start = IF gone = <<>> THEN p ELSE p + 1
    BY DEF OneHunk
  <2> QED
    BY <2>1, <2>2, OneHunkTyped, OneHunkSides
<1> HIDE DEF h
<1>4. hunks \in Seq(HunkSet) /\ Len(hunks) = 1 /\ DOMAIN hunks = {1} /\ hunks[1] = h
  BY <1>3
<1> HIDE DEF hunks
<1>5. Begin(hunks, 1) = p
  BY <1>1, <1>3, <1>4 DEF Begin
<1>6. End(hunks, 0) = 0 /\ End(hunks, 1) = p + g
  BY <1>3, <1>4, <1>5 DEF End
<1>7. Fits(old, hunks)
  <2>1. p + g <= Len(old) /\ SubSeq(old, p + 1, p + g) = gone
    BY <1>1, ReadsBlock
  <2>2. 1 - 1 = 0 /\ 0 <= p
    BY <1>1
  <2> QED
    BY <1>3, <1>4, <1>5, <1>6, <2>1, <2>2 DEF Fits
<1>8. /\ ApplyHunks(old, hunks).ok
      /\ ApplyHunks(old, hunks).out = FlattenSeq(seqs) \o SubSeq(old, End(hunks, Len(hunks)) + 1, Len(old))
  <2>1. ApplyHunks(old, hunks).ok /\ ApplyHunks(old, hunks).out = Replaced(old, hunks)
    BY <1>4, <1>7, HunksExact
  <2> QED
    BY <2>1, Zenon DEF Replaced
<1>9. head \in Seq(Words) /\ Len(head) = p /\ \A i \in 1..p : head[i] = old[i]
  <2>1. p <= Len(old)
    BY <1>1, <1>2
  <2> QED
    BY <1>1, <2>1, FirstLines
<1>10. seqs[1] = head \o come /\ DOMAIN seqs = {1}
  <2>1. 1 - 1 = 0 /\ 0 + 1 = 1
    OBVIOUS
  <2> QED
    BY <1>3, <1>4, <1>5, <1>6, <2>1
<1> HIDE DEF head, seqs
<1>11. head \o come \in Seq(Words) /\ Len(head \o come) = p + c
  BY <1>1, <1>9, ConcatProperties
<1>12. FlattenSeq(seqs) = head \o come
  <2> DEFINE x == head \o come
  <2> HIDE DEF x
  <2>1. 1 \in Nat /\ seqs \in [1..1 -> Seq(Words)]
    <3>1. seqs = [k \in {1} |-> seqs[k]]
      BY <1>4 DEF seqs
    <3>2. 1..1 = {1}
      OBVIOUS
    <3> QED
      BY <1>10, <1>11, <3>1, <3>2
  <2>2. seqs \in Seq(Seq(Words)) /\ Len(seqs) = 1
    BY <2>1, TableIsSeq
  <2>3. PICK flat : Flattened(Words, seqs, flat)
    BY <2>2, FlattenSteps
  <2>4. flat[0] = <<>> /\ flat[1] = FlattenSeq(seqs) /\ flat[1] = flat[0] \o seqs[1]
    <3>1. 1 \in 1..1 /\ 1 - 1 = 0
      OBVIOUS
    <3> QED
      BY <2>2, <2>3, <3>1 DEF Flattened
  <2>5. x \in Seq(Words) /\ seqs[1] = x
    BY <1>10, <1>11 DEF x
  <2>6. <<>> \o x = x
    BY <2>5, ConcatEmptySeq
  <2> QED
    BY <2>4, <2>5, <2>6 DEF x
<1>13. SubSeq(old, End(hunks, Len(hunks)) + 1, Len(old)) = tail
  <2>1. p + g \in Nat /\ (p + g) + t = Len(old)
    BY <1>1, <1>2
  <2>2. SubSeq(old, (p + g) + 1, (p + g) + t) = tail
    BY <1>1, <2>1, ReadsBlock
  <2> QED
    BY <1>4, <1>6, <2>1, <2>2
<1>14. (head \o come) \o tail = new
  <2>1. Reads(new, 0, head)
    <3>1. 0 + p <= Len(new) /\ \A i \in 1..p : 0 + i = i
      BY <1>1, <1>2
    <3> QED
      BY <1>1, <1>9, <3>1 DEF Reads
  <2>2. 0 + p = p /\ p <= Len(new) /\ 0 + (p + c) = p + c /\ p + c <= Len(new)
    BY <1>1, <1>2
  <2>3. Reads(new, 0, head \o come)
    BY <1>1, <1>9, <2>1, <2>2, ReadsParts
  <2>4. Reads(new, 0, (head \o come) \o tail)
    BY <1>1, <1>11, <2>2, <2>3, ReadsParts
  <2>5. (head \o come) \o tail \in Seq(Words) /\ Len((head \o come) \o tail) = Len(new)
    <3> DEFINE s == head \o come
    <3>1. (p + c) + t = Len(new)
      BY <1>1, <1>2
    <3>2. s \in Seq(Words) /\ Len(s) = p + c /\ tail \in Seq(Words)
      BY <1>1, <1>11
    <3> HIDE DEF s, c, t
    <3>3. s \o tail \in Seq(Words) /\ Len(s \o tail) = Len(s) + Len(tail)
      BY <3>2, ConcatProperties
    <3> QED
      BY <3>1, <3>2, <3>3 DEF s, t
  <2> QED
    BY <2>4, <2>5, ReadsAll
<1> QED
  BY <1>8, <1>12, <1>13, <1>14 DEF hunks, h

(* and no hunk is needed if it is the same text.                            *)
LEMMA NoHunkApplied ==
    ASSUME NEW lines \in Seq(Words)
    PROVE  LET r == ApplyHunks(lines, <<>>) IN r.ok /\ r.out = lines
<1> DEFINE hunks == <<>>
           seqs == [k \in DOMAIN hunks |-> SubSeq(lines, End(hunks, k - 1) + 1, Begin(hunks, k))
                                             \o NewBlock(hunks[k])]
           r == ApplyHunks(lines, hunks)
<1>1. hunks \in Seq(HunkSet) /\ Len(hunks) = 0 /\ DOMAIN hunks = {}
  BY EmptySeq
<1>2. r.ok /\ r.out = Replaced(lines, hunks)
  <2>1. Fits(lines, hunks)
    BY <1>1 DEF Fits
  <2> QED
    BY <1>1, <2>1, HunksExact
<1>3. Replaced(lines, hunks) = FlattenSeq(seqs) \o SubSeq(lines, End(hunks, Len(hunks)) + 1, Len(lines))
  BY Zenon DEF Replaced
<1>4. seqs = <<>>
  OBVIOUS
<1>5. FlattenSeq(seqs) = <<>>
  BY <1>4, EmptySeq DEF FlattenSeq
<1>6. SubSeq(lines, End(hunks, Len(hunks)) + 1, Len(lines)) = lines
  <2>1. End(hunks, Len(hunks)) + 1 = 1
    BY <1>1 DEF End
  <2> QED
    BY <2>1, SubSeqFull
<1> HIDE DEF hunks, seqs, r
<1>7. r.out = lines
  BY <1>2, <1>3, <1>5, <1>6, ConcatEmptySeq
<1> QED
  BY <1>2, <1>7 DEF r, hunks

(* Between any two texts: their diff parses, applies to the one and gives   *)
(* the other.                                                               *)
LEMMA DiffLeads ==
    ASSUME NEW old \in Seq(Words), NEW new \in Seq(Words)
    PROVE  LET d == DiffOf(old, new)
               r == ApplyHunks(old, Hunks(d))
           IN  Parses(d) /\ r.ok /\ r.out = new
<1> DEFINE d == DiffOf(old, new)
<1>1. PICK p, gone, come, tail : Differ(old, new, p, gone, come, tail) /\ d = Said(p, gone, come)
  BY DiffCuts
<1> HIDE DEF d
<1>2. p \in Nat /\ gone \in Seq(Words) /\ come \in Seq(Words) /\ tail \in Seq(Words)
  BY <1>1 DEF Differ
<1>3. CASE gone # <<>> \/ come # <<>>
  <2>1. Parses(d) /\ Hunks(d) = <<OneHunk(p, gone, come)>>
    BY <1>1, <1>2, <1>3, SaidParses
  <2>2. LET r == ApplyHunks(old, <<OneHunk(p, gone, come)>>) IN r.ok /\ r.out = new
    BY <1>1, OneHunkApplied
  <2> QED
    BY <2>1, <2>2 DEF d
<1>4. CASE gone = <<>> /\ come = <<>>
  <2>1. d = <<>>
    BY <1>1, <1>4 DEF Said
  <2>2. Parsed(<<>>) = ParserStart
    <3>1. <<>> \in Seq(LineSet) /\ Len(<<>>) = 0
      BY EmptySeq
    <3> QED
      BY <3>1, ParsedSteps
  <2>3. Parses(d) /\ Hunks(d) = <<>>
    BY <2>1, <2>2 DEF Parses, Hunks, Collected, ParserStart
  <2>4. new = old
    <3>1. /\ Len(gone) = 0 /\ Len(come) = 0 /\ p \in Nat /\ Len(tail) \in Nat
          /\ p + Len(gone) + Len(tail) = Len(old) /\ p + Len(come) + Len(tail) = Len(new)
          /\ \A i \in 1..p : old[i] = new[i]
          /\ Reads(old, p + Len(gone), tail) /\ Reads(new, p + Len(come), tail)
      BY <1>1, <1>2, <1>4, EmptySeq, LenProperties DEF Differ
    <3>2. Len(new) = Len(old) /\ Len(old) = p + Len(tail) /\ p + 0 = p
      BY <3>1
    <3>3. \A i \in 1..Len(tail) : old[p + i] = tail[i] /\ new[p + i] = tail[i]
      BY <3>1, <3>2 DEF Reads
    <3>4. ASSUME NEW i \in 1..Len(new) PROVE new[i] = old[i]
      <4>1. CASE i \in 1..p
        BY <3>1, <4>1
      <4>2. CASE i \notin 1..p
        <5>1. i - p \in 1..Len(tail) /\ p + (i - p) = i
          BY <3>1, <3>2, <4>2
        <5> QED
          BY <3>3, <5>1
      <4> QED
        BY <4>1, <4>2
    <3> QED
      BY <3>2, <3>4, SeqEqual
  <2>5. LET r == ApplyHunks(old, <<>>) IN r.ok /\ r.out = old
    BY NoHunkApplied
  <2> QED
    BY <2>3, <2>4, <2>5 DEF d
<1> QED
  BY <1>3, <1>4

-----------------------------------------------------------------------------
(* The state: a text and a diff that have arrived. *)

TypeOK == source \in Sources /\ diff \in Seq(LineSet)

(* A source is a sequence of lines, and its texts are words. *)
LEMMA SourceTyped ==
    ASSUME NEW src \in Sources
    PROVE  src \in Seq([text : Words, end : Ends]) /\ Texts(src) \in Seq(Words)
<1> DEFINE R == [text : Words, end : Ends]
<1> HIDE DEF R
<1>1. src \in Seq(R)
  <2>1. src \in BoundedSeq(R, MaxSource)
    BY DEF Sources, R
  <2>2. PICK m \in 0..MaxSource : src \in [1..m -> R]
    BY <2>1 DEF BoundedSeq, SeqOf
  <2> QED
    BY <2>2
<1>2. /\ Len(src) \in Nat /\ DOMAIN src = 1..Len(src)
      /\ \A k \in 1..Len(src) : src[k].text \in Words
  <2>1. Len(src) \in Nat /\ DOMAIN src = 1..Len(src)
    BY <1>1, LenProperties
  <2>2. \A k \in 1..Len(src) : src[k] \in R
    BY <1>1, ElementOfSeq
  <2> QED
    BY <2>1, <2>2 DEF R
<1>3. Texts(src) = [k \in 1..Len(src) |-> src[k].text]
  BY <1>2 DEF Texts
<1>4. Texts(src) \in Seq(Words)
  BY <1>2, <1>3
<1> QED
  BY <1>1, <1>4 DEF R

(* At any time there is a text and well-formed lines of a diff. *)
LEMMA TypeInvariant == Spec => []TypeOK
<1>1. Init => TypeOK
  BY EmptySeq DEF Init, TypeOK
<1>2. TypeOK /\ [Next]_vars => TypeOK'
  <2> SUFFICES ASSUME TypeOK, [Next]_vars PROVE TypeOK'
    OBVIOUS
  <2>1. CASE UNCHANGED vars
    BY <2>1 DEF vars, TypeOK
  <2>2. ASSUME NEW line \in DiffLines, Receive(line) PROVE TypeOK'
    <3>1. line \in LineSet
      BY <2>2, DiffAssumption DEF LineSet
    <3> QED
      BY <2>2, <3>1, AppendProperties DEF Receive, TypeOK
  <2> QED
    BY <2>1, <2>2 DEF Next
<1> QED
  BY <1>1, <1>2, PTL DEF Spec

(* PatchIsExact: _apply_unified_diff accepts a parsed diff exactly when     *)
(* its hunks name blocks of the text in order, and replaces just these.     *)
THEOREM PatchReplacesBlocks == Spec => []PatchIsExact
<1>1. TypeOK => PatchIsExact
  <2> SUFFICES ASSUME TypeOK PROVE PatchIsExact
    OBVIOUS
  <2>1. Texts(source) \in Seq(Words) /\ Hunks(diff) \in Seq(HunkSet)
    BY SourceTyped, HunksTyped DEF TypeOK
  <2> QED
    BY <2>1, HunksExact DEF PatchIsExact
<1> QED
  BY <1>1, TypeInvariant, PTL

(* A blank line behind a complete hunk changes nothing. *)
LEMMA BlankIgnored ==
    ASSUME NEW d \in Seq(LineSet), Parses(d), Consumed(Parsed(d))
    PROVE  Parsed(Append(d, Blank)) = Parsed(d)
<1>1. Blank \in LineSet
  BY DEF LineSet
<1>2. Parsed(Append(d, Blank)) = ParseLine(Parsed(d), Blank)
  BY <1>1, ParsedLast
<1>3. Blank.op # "@"
  BY DEF Blank
<1> QED
  BY <1>2, <1>3, Zenon DEF ParseLine, Parses

(* The joined text ends with a terminator as the source does. *)
LEMMA JoinEnds ==
    ASSUME NEW out \in Seq(Words), out # <<>>, NEW src
    PROVE  /\ Terminated(src) => Terminated(Join(out, src))
           /\ ~Terminated(src) /\ Last(out) # "" => ~Terminated(Join(out, src))
<1> DEFINE n == Len(out)
           eol == IF \E k \in DOMAIN src : src[k].end = "CRLF" THEN "CRLF" ELSE "LF"
           end(k) == IF k < n \/ Terminated(src) THEN eol ELSE ""
           joined == [k \in DOMAIN out |-> [text |-> out[k], end |-> end(k)]]
<1>1. n \in Nat /\ DOMAIN out = 1..n
  BY LenProperties
<1>2. n # 0
  BY EmptySeq
<1>3. eol # ""
  OBVIOUS
<1>4. Last(out) = out[n]
  BY DEF Last
<1>5. Join(out, src) = IF out # <<>> /\ Last(joined) = [text |-> "", end |-> ""]
                       THEN Front(joined) ELSE joined
  BY Zenon DEF Join, eol
<1> HIDE DEF eol, n
<1>6. n \in 1..n /\ ~(n < n)
  BY <1>1, <1>2
<1>7. Terminated(src) => end(n) # ""
  BY <1>3
<1>8. ~Terminated(src) => end(n) = ""
  BY <1>6
<1> HIDE DEF end
<1>9. Len(joined) = n /\ joined[n] = [text |-> out[n], end |-> end(n)]
  <2>1. joined = [k \in 1..n |-> [text |-> out[k], end |-> end(k)]]
    BY <1>1
  <2> HIDE DEF joined
  <2> QED
    BY <1>1, <1>6, <2>1
<1> HIDE DEF joined
<1>10. joined # <<>>
  BY <1>2, <1>9, EmptySeq
<1>11. Last(joined) = [text |-> out[n], end |-> end(n)]
  BY <1>9 DEF Last
<1>12. Last(joined).text = out[n] /\ Last(joined).end = end(n)
  BY <1>11
<1>13. ASSUME Terminated(src) \/ Last(out) # "" PROVE Join(out, src) = joined
  <2>1. out[n] # "" \/ end(n) # ""
    BY <1>4, <1>7, <1>13
  <2>2. Last(joined) # [text |-> "", end |-> ""]
    <3> DEFINE none == ""
    <3> HIDE DEF none
    <3>1. ASSUME Last(joined) = [text |-> "", end |-> ""] PROVE FALSE
      <4>1. Last(joined) = [text |-> none, end |-> none]
        BY <3>1 DEF none
      <4>2. Last(joined).text = none /\ Last(joined).end = none
        BY <4>1
      <4> QED
        BY <1>12, <2>1, <4>2, Zenon DEF none
    <3> QED
      BY <3>1
  <2> QED
    BY <1>5, <2>2
<1>14. Terminated(joined) <=> end(n) # ""
  BY <1>10, <1>12, Zenon DEF Terminated
<1> QED
  BY <1>7, <1>8, <1>13, <1>14

(* EndsKept: blank lines behind the hunks do not count, and the patched     *)
(* text keeps its final newline, or its lack of one.                        *)
THEOREM EndsLeaveNoTrace == Spec => []EndsKept
<1>1. TypeOK => NoPhantomContext
  <2> SUFFICES ASSUME TypeOK, Consumed(Parsed(diff)), Applies(source, diff)
               PROVE  LET padded == Append(diff, Blank)
                      IN  Applies(source, padded) /\ Patched(source, padded) = Patched(source, diff)
    BY DEF NoPhantomContext
  <2>1. Parsed(Append(diff, Blank)) = Parsed(diff)
    BY BlankIgnored DEF TypeOK, Applies
  <2> QED
    BY <2>1, Zenon DEF Applies, Patched, Parses, Hunks
<1>2. TypeOK => FinalNewlineKept
  <2> DEFINE out == ApplyHunks(Texts(source), Hunks(diff)).out
  <2> SUFFICES ASSUME TypeOK, Applies(source, diff), source # <<>>, out # <<>>,
                      Last(out) # "" \/ Terminated(source)
               PROVE  Terminated(Patched(source, diff)) = Terminated(source)
    BY Zenon DEF FinalNewlineKept
  <2>1. Texts(source) \in Seq(Words) /\ Hunks(diff) \in Seq(HunkSet)
    BY SourceTyped, HunksTyped DEF TypeOK
  <2>2. out \in Seq(Words)
    BY <2>1, OutTyped DEF Applies
  <2>3. Patched(source, diff) = IF Hunks(diff) = <<>> THEN source ELSE Join(out, source)
    BY DEF Patched
  <2> HIDE DEF out
  <2>4. Terminated(Join(out, source)) <=> Terminated(source)
    BY <2>2, JoinEnds
  <2>5. Terminated(Join(out, source)) = Terminated(source)
    BY <2>4 DEF Terminated
  <2> QED
    BY <2>3, <2>5
<1> QED
  BY <1>1, <1>2, TypeInvariant, PTL DEF EndsKept

(* DiffsInvert: a patch that applied is taken back by its reversed hunks,   *)
(* and the zero-context diff between two texts leads from one to the other. *)
THEOREM DiffsLeadThereAndBack == Spec => []DiffsInvert
<1>1. TypeOK => UndoRestores
  <2> SUFFICES ASSUME TypeOK, ApplyHunks(Texts(source), Hunks(diff)).ok
               PROVE  LET r == ApplyHunks(Texts(source), Hunks(diff))
                          back == ApplyHunks(r.out, Undo(Hunks(diff)))
                      IN  back.ok /\ back.out = Texts(source)
    BY Zenon DEF UndoRestores
  <2>1. Texts(source) \in Seq(Words) /\ Hunks(diff) \in Seq(HunkSet)
    BY SourceTyped, HunksTyped DEF TypeOK
  <2> QED
    BY <2>1, TakenBack
<1>2. TypeOK => DiffRoundTrip
  <2> SUFFICES ASSUME TypeOK, NEW other \in Sources
               PROVE  LET d == DiffOf(Texts(source), Texts(other))
                      IN  /\ Applies(source, d)
                          /\ ApplyHunks(Texts(source), Hunks(d)).out = Texts(other)
    BY Zenon DEF DiffRoundTrip
  <2>1. Texts(source) \in Seq(Words) /\ Texts(other) \in Seq(Words)
    BY SourceTyped DEF TypeOK
  <2> QED
    BY <2>1, DiffLeads DEF Applies
<1> QED
  BY <1>1, <1>2, TypeInvariant, PTL DEF DiffsInvert
=============================================================================

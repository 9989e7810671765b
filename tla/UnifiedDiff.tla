---------------------------- MODULE UnifiedDiff ----------------------------
(***************************************************************************)
(* waldoctl/programs.py: parsing a unified diff and applying it.           *)
(*                                                                         *)
(* A text is a sequence of lines [text, end]; only the last line may have  *)
(* an empty end, and then its text is not empty (_split_lines drops the    *)
(* empty piece behind the last terminator).  A diff is a sequence of lines *)
(* that are already told apart by their first characters.                  *)
(***************************************************************************)
EXTENDS Integers, SequencesExt

Absent == -1   \* a count the hunk header leaves out

Header(start, old, new) == [op |-> "@", start |-> start, old |-> old, new |-> new]
BodyLine(op, text) == [op |-> op, text |-> text]
Blank == [op |-> "blank"]
NoNewlineMarker == [op |-> "\\"]
FileHeader == [op |-> "diff"]
Other == [op |-> "other"]

Texts(source) == [k \in DOMAIN source |-> source[k].text]
Terminated(source) == source = <<>> \/ Last(source).end # ""

-----------------------------------------------------------------------------
(* parse_unified_diff: a fold over the lines of the diff.                  *)

ParserStart == [hunks |-> <<>>, open |-> FALSE, start |-> 0, body |-> <<>>,
                old |-> 0, new |-> 0, ok |-> TRUE]

Collected(p) ==
    IF p.open THEN Append(p.hunks, [old_start |-> p.start, body |-> p.body])
    ELSE p.hunks

Count(n) == IF n = Absent THEN 1 ELSE n

OpenHunk(p, h) ==
    [p EXCEPT !.hunks = Collected(p), !.open = TRUE, !.start = h.start,
              !.body = <<>>, !.old = Count(h.old), !.new = Count(h.new)]

TakeLine(p, line) ==
    [p EXCEPT !.body = Append(@, [op |-> line.op, text |-> line.text]),
              !.old = IF line.op = "+" THEN @ ELSE @ - 1,
              !.new = IF line.op = "-" THEN @ ELSE @ - 1]

Consumed(p) == p.old <= 0 /\ p.new <= 0

ParseLine(p, line) ==
    IF ~p.ok \/ (line.op # "@" /\ (~p.open \/ line = NoNewlineMarker)) THEN p
    ELSE IF line.op = "@" THEN OpenHunk(p, line)
    ELSE IF line = Blank
         THEN IF Consumed(p) THEN p ELSE TakeLine(p, BodyLine(" ", ""))
    ELSE IF line.op \in {" ", "-", "+"} /\ ~Consumed(p) THEN TakeLine(p, line)
    ELSE [p EXCEPT !.ok = FALSE]

Parsed(diff) == FoldLeft(ParseLine, ParserStart, diff)
Parses(diff) == Parsed(diff).ok
Hunks(diff) == Collected(Parsed(diff))

-----------------------------------------------------------------------------
(* _apply_unified_diff: a fold over the hunks, with a 0-indexed cursor.    *)

(* Fault: an insertion lands before the line its header names. *)
StartIndexBefore(h) == IF h.old_start > 0 THEN h.old_start - 1 ELSE 0

(* DiffHunk.start_index: a pure insertion goes in behind line old_start.   *)
StartIndex(h) ==
    IF h.old_start > 0 /\ \A k \in DOMAIN h.body : h.body[k].op = "+"
    THEN h.old_start
    ELSE IF h.old_start > 0 THEN h.old_start - 1 ELSE 0

ApplyLine(lines, s, line) ==
    IF line.op = "+" THEN [s EXCEPT !.out = Append(@, line.text)]
    ELSE IF s.ok /\ s.cursor < Len(lines) /\ lines[s.cursor + 1] = line.text
    THEN [s EXCEPT !.out = IF line.op = " " THEN Append(@, line.text) ELSE @,
                   !.cursor = @ + 1]
    ELSE [s EXCEPT !.ok = FALSE]

(* Fault: a hunk may reach back over the one before it. *)
ApplyHunkOverlapping(lines, s, h) ==
    LET target == StartIndex(h)
        there == [s EXCEPT !.out = @ \o SubSeq(lines, s.cursor + 1, target),
                           !.cursor = target]
    IN  IF ~s.ok \/ target > Len(lines)
        THEN [s EXCEPT !.ok = FALSE]
        ELSE FoldLeft(LAMBDA u, line : ApplyLine(lines, u, line), there, h.body)

(* One hunk: the lines up to its start, then its body line by line.        *)
ApplyHunk(lines, s, h) ==
    LET target == StartIndex(h)
        there == [s EXCEPT !.out = @ \o SubSeq(lines, s.cursor + 1, target),
                           !.cursor = target]
    IN  IF ~s.ok \/ target < s.cursor \/ target > Len(lines)
        THEN [s EXCEPT !.ok = FALSE]
        ELSE FoldLeft(LAMBDA u, line : ApplyLine(lines, u, line), there, h.body)

ApplyHunks(lines, hunks) ==
    LET s == FoldLeft(LAMBDA u, h : ApplyHunk(lines, u, h),
                      [out |-> <<>>, cursor |-> 0, ok |-> TRUE], hunks)
    IN  [ok |-> s.ok, out |-> s.out \o SubSeq(lines, s.cursor + 1, Len(lines))]

(* Fault: every text gets a final newline. *)
JoinTerminated(out, source) ==
    LET eol == IF \E k \in DOMAIN source : source[k].end = "CRLF"
               THEN "CRLF" ELSE "LF"
    IN  [k \in DOMAIN out |-> [text |-> out[k], end |-> eol]]

(* The lines joined again.  An empty last line without a terminator leaves *)
(* no trace in the text.                                                   *)
Join(out, source) ==
    LET eol == IF \E k \in DOMAIN source : source[k].end = "CRLF"
               THEN "CRLF" ELSE "LF"
        joined == [k \in DOMAIN out |->
                      [text |-> out[k],
                       end |-> IF k < Len(out) \/ Terminated(source)
                               THEN eol ELSE ""]]
    IN  IF out # <<>> /\ Last(joined) = [text |-> "", end |-> ""]
        THEN Front(joined) ELSE joined

Applies(source, diff) ==
    Parses(diff) /\ ApplyHunks(Texts(source), Hunks(diff)).ok

Patched(source, diff) ==
    IF Hunks(diff) = <<>> THEN source
    ELSE Join(ApplyHunks(Texts(source), Hunks(diff)).out, source)

-----------------------------------------------------------------------------
(* What a patch means, without a cursor: each hunk names a block of the    *)
(* old text, the blocks lie in order, and each is replaced.                *)

Block(h, ops) ==
    LET pick(texts, line) == IF line.op \in ops THEN Append(texts, line.text) ELSE texts
    IN  FoldLeft(pick, <<>>, h.body)
OldBlock(h) == Block(h, {" ", "-"})
NewBlock(h) == Block(h, {" ", "+"})

(* 0-indexed: where the block of hunk k starts, and where it ends. *)
Begin(hunks, k) ==
    LET h == hunks[k]
    IN  IF OldBlock(h) = <<>> \/ h.old_start = 0 THEN h.old_start
        ELSE h.old_start - 1
End(hunks, k) == IF k = 0 THEN 0 ELSE Begin(hunks, k) + Len(OldBlock(hunks[k]))

Fits(lines, hunks) ==
    \A k \in DOMAIN hunks :
        /\ End(hunks, k - 1) <= Begin(hunks, k)
        /\ End(hunks, k) <= Len(lines)
        /\ SubSeq(lines, Begin(hunks, k) + 1, End(hunks, k)) = OldBlock(hunks[k])

Replaced(lines, hunks) ==
    FlattenSeq([k \in DOMAIN hunks |->
                   SubSeq(lines, End(hunks, k - 1) + 1, Begin(hunks, k))
                       \o NewBlock(hunks[k])])
        \o SubSeq(lines, End(hunks, Len(hunks)) + 1, Len(lines))

(* The hunks that take a patch back: hunk k's new block stands where the   *)
(* hunks before it have moved it.                                          *)
Undo(hunks) ==
    LET Swap(op) == CASE op = "+" -> "-" [] op = "-" -> "+" [] OTHER -> op
        Moved(k) == Begin(hunks, k)
                      + FoldLeft(LAMBDA n, h : n + Len(NewBlock(h)) - Len(OldBlock(h)),
                                 0, SubSeq(hunks, 1, k - 1))
    IN  [k \in DOMAIN hunks |->
            [old_start |-> IF NewBlock(hunks[k]) = <<>> THEN Moved(k)
                           ELSE Moved(k) + 1,
             body |-> [j \in DOMAIN hunks[k].body |->
                          [op |-> Swap(hunks[k].body[j].op),
                           text |-> hunks[k].body[j].text]]]]

(* What `git diff -U0` emits for the smallest block that differs. *)
DiffOf(old, new) ==
    LET p == Len(LongestCommonPrefix({old, new}))
        o == SubSeq(old, p + 1, Len(old))
        n == SubSeq(new, p + 1, Len(new))
        q == Len(LongestCommonPrefix({Reverse(o), Reverse(n)}))
        gone == SubSeq(o, 1, Len(o) - q)
        come == SubSeq(n, 1, Len(n) - q)
        Lines(op, block) == [k \in DOMAIN block |-> BodyLine(op, block[k])]
    IN  IF gone = <<>> /\ come = <<>> THEN <<>>
        ELSE <<Header(IF gone = <<>> THEN p ELSE p + 1, Len(gone), Len(come))>>
                 \o Lines("-", gone) \o Lines("+", come)
=============================================================================

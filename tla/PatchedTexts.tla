---------------------------- MODULE PatchedTexts ----------------------------
(***************************************************************************)
(* What UnifiedDiff promises, of any text and any diff: one is given, the  *)
(* other arrives line by line, so that every prefix of a diff is one too.  *)
(***************************************************************************)
EXTENDS UnifiedDiff

CONSTANTS
    Words,       \* what lines may say
    Ends,        \* the line terminators that occur
    DiffLines,   \* the lines a diff is made of
    MaxSource,   \* bound: lines of the text
    MaxDiff      \* bound: lines of the diff

HeaderLines == [op : {"@"}, start : Nat, old : Nat \cup {Absent}, new : Nat \cup {Absent}]
EditLines == [op : {" ", "-", "+"}, text : Words]

ASSUME DiffAssumption ==
    /\ {MaxSource, MaxDiff} \subseteq Nat /\ "" \in Words
    /\ DiffLines \subseteq HeaderLines \cup EditLines
                             \cup {Blank, NoNewlineMarker, FileHeader, Other}

VARIABLES source, diff
vars == <<source, diff>>

(* Every text of at most MaxSource lines: what _split_lines can return,    *)
(* with the terminators that were split off.                               *)
Sources ==
    {s \in BoundedSeq([text : Words, end : Ends], MaxSource) :
        \A k \in DOMAIN s :
            /\ s[k].end = "" => k = Len(s) /\ s[k].text # ""
            \* a CR followed by an LF is one terminator
            /\ k < Len(s) /\ s[k].end = "CR" => s[k + 1] # [text |-> "", end |-> "LF"]}

Init == source \in Sources /\ diff = <<>>

Receive(line) ==
    /\ Len(diff) < MaxDiff
    /\ diff' = Append(diff, line)
    /\ UNCHANGED source

Next == \E line \in DiffLines : Receive(line)

Spec == Init /\ [][Next]_vars

-----------------------------------------------------------------------------
(* _apply_unified_diff accepts a parsed diff exactly when its hunks name   *)
(* blocks of the text in order, and the result replaces just these blocks: *)
(* whatever the cursor does, no line outside a hunk is lost or repeated.   *)
PatchIsExact ==
    LET r == ApplyHunks(Texts(source), Hunks(diff))
    IN  /\ r.ok <=> Fits(Texts(source), Hunks(diff))
        /\ r.ok => r.out = Replaced(Texts(source), Hunks(diff))

(* A patch that applied can be taken back by its reversed hunks: the       *)
(* insertion rule of start_index and the removal rule agree.               *)
UndoRestores ==
    LET r == ApplyHunks(Texts(source), Hunks(diff))
        back == ApplyHunks(r.out, Undo(Hunks(diff)))
    IN  r.ok => back.ok /\ back.out = Texts(source)

(* The zero-context diff between any two texts parses, applies to the      *)
(* first and gives the second (start_index: "git diff -U0 emits ...").     *)
DiffRoundTrip ==
    diff = <<>> =>
        \A other \in Sources :
            LET d == DiffOf(Texts(source), Texts(other))
            IN  /\ Applies(source, d)
                /\ ApplyHunks(Texts(source), Hunks(d)).out = Texts(other)

(* A diff turns one text into the other and, reversed, back again: the     *)
(* code's rules for insertions, removals and positions agree.              *)
DiffsInvert == UndoRestores /\ DiffRoundTrip

(* Blank lines behind a complete hunk change nothing: they never become    *)
(* context that a good diff fails on.                                      *)
NoPhantomContext ==
    LET padded == Append(diff, Blank)
    IN  Consumed(Parsed(diff)) /\ Applies(source, diff)
          => Applies(source, padded) /\ Patched(source, padded) = Patched(source, diff)

(* A patched text ends with a terminator exactly if the text did           *)
(* (_apply_unified_diff: "The source's final-newline state is preserved"), *)
(* except that an empty last line without one leaves no trace: the newline *)
(* before it then ends the text.                                           *)
FinalNewlineKept ==
    LET out == ApplyHunks(Texts(source), Hunks(diff)).out
    IN  /\ Applies(source, diff)
        /\ source # <<>> /\ out # <<>>
        /\ Last(out) # "" \/ Terminated(source)
        => Terminated(Patched(source, diff)) = Terminated(source)

(* Neither the end of a diff nor the end of a text leaves a trace in what  *)
(* _apply_unified_diff returns: blank lines behind the hunks do not count, *)
(* and the text keeps its final newline, or its lack of one.               *)
EndsKept == NoPhantomContext /\ FinalNewlineKept
=============================================================================

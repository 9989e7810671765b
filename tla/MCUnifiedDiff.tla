--------------------------- MODULE MCUnifiedDiff ---------------------------
(* PatchedTexts for TLC: lines of one letter, or none, and headers for a   *)
(* change, a change that leaves out a count, and insertions at the start   *)
(* and behind the first line.                                              *)
EXTENDS PatchedTexts

Letters == {"a", "b", ""}
LFOrNone == {"LF", ""}
Headers ==
    {Header(1, 1, Absent), Header(2, 1, 2), Header(0, 0, 1), Header(1, 0, 1)}
AllLines ==
    {BodyLine(op, text) : op \in {" ", "-", "+"}, text \in {"a", "b"}}
        \cup Headers \cup {Blank, NoNewlineMarker, FileHeader, Other}
=============================================================================

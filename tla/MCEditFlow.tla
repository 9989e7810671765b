----------------------------- MODULE MCEditFlow -----------------------------
(* A program of at most two lines, and diffs that change, insert, remove   *)
(* and leave lines as they are.                                            *)
EXTENDS EditFlow

Text(words) == [k \in DOMAIN words |-> [text |-> words[k], end |-> "LF"]]

SmallSources == {Text(<<"a">>), Text(<<"b">>), Text(<<"a", "b">>)}
Change == <<Header(1, 1, 1), BodyLine("-", "a"), BodyLine("+", "b")>>
Insert == <<Header(0, 0, 1), BodyLine("+", "a")>>
Keep == <<Header(1, 1, 1), BodyLine(" ", "a")>>
Erase == <<Header(1, 1, 0), BodyLine("-", "b")>>
SomeDiffs == {Change, Insert, Keep, Erase}
DecidingBindings == {"decide"}
AllBindings == BindingHabits
=============================================================================

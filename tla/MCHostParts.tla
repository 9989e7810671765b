---------------------------- MODULE MCHostParts ----------------------------
(* Small instances of the parts of HostParts. *)
EXTENDS HostParts

CONSTANTS a, b, c, open, late_key, odd, part

MCTimes == 0..4
MCCounts == 0..2
MCNames == 1..3
MCIds == {a, b}
MCKeys ==
    {[string |-> TRUE, head |-> open, secret |-> "no"],
     [string |-> TRUE, head |-> late_key, secret |-> "tail"],
     [string |-> FALSE, head |-> odd, secret |-> "no"]}
MCCharts == {a, b}
MCPrograms == {a, b}
MCShapeNames == {a, part}
MCBanks == {<<2, 1>>, <<1, 2>>, <<0, 1>>}
MCCallbacks == {a, b, c}
MCRaising == {a}

Jaws == <<"Jaws", "ElectricGripperTool", "GripperTool", "ToolSpec">>
MCBackends == [
    Jaws |-> [mro |-> Jaws, body |-> [open |-> "async", force |-> "async", stroke |-> "own"]],
    SoftJaws |-> [mro |-> <<"SoftJaws">> \o Jaws, body |-> [stroke |-> "own"]],
    Laser |-> [mro |-> <<"Laser", "ToolSpec">>, body |-> [fire |-> "async"]]]

MCOwnMarkers == {Marker("queued"), [Marker("control") EXCEPT !.mints = "yes"]}
MCCalls == {"teleport", "estimate_payload"}
=============================================================================

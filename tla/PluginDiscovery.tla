-------------------------- MODULE PluginDiscovery --------------------------
(***************************************************************************)
(* waldoctl/discovery.py, discover_skills of skills.py and the tool        *)
(* collections of tools.py: what becomes of the entry points that the      *)
(* installed packages register, in whatever order they are listed.         *)
(*                                                                         *)
(* An entry point has a name, a value (where it is loaded from) and what   *)
(* it offers: the id or key of a skill, panel or tool, or Broken if it     *)
(* cannot be loaded, is of another class, is incomplete or cannot be       *)
(* instantiated: each of these is logged and skipped.                      *)
(***************************************************************************)
EXTENDS Naturals, FiniteSetsExt, SequencesExt

CONSTANT Broken

Works(ep) == ep.offers # Broken

-----------------------------------------------------------------------------
(* Skills. *)

(* Listed by name, and by value where the names are the same;              *)
Before(a, b) == a.name < b.name \/ (a.name = b.name /\ a.value < b.value)

(* entries that agree in both stay in the order they were found in.        *)
Precedes(eps, i, j) == Before(eps[i], eps[j]) \/ (~Before(eps[j], eps[i]) /\ i < j)

Sorted(eps) ==
    LET rank(i) == Cardinality({j \in DOMAIN eps : Precedes(eps, j, i)}) + 1
    IN  [k \in DOMAIN eps |-> eps[CHOOSE i \in DOMAIN eps : rank(i) = k]]

(* Fault: what was in conflict is forgotten. *)
TakeSkillForgetful(taken, ep) ==
    IF ~Works(ep) THEN taken
    ELSE IF \E other \in taken.found : other.offers = ep.offers
    THEN [found |-> {other \in taken.found : other.offers # ep.offers},
          conflicts |-> taken.conflicts \cup {ep.offers}]
    ELSE [taken EXCEPT !.found = @ \cup {ep}]

(* One entry point: the second provider of an id takes the first one out,  *)
(* and from then on all are refused.                                       *)
TakeSkill(taken, ep) ==
    IF ~Works(ep) THEN taken
    ELSE IF ep.offers \in taken.conflicts \cup {other.offers : other \in taken.found}
    THEN [found |-> {other \in taken.found : other.offers # ep.offers},
          conflicts |-> taken.conflicts \cup {ep.offers}]
    ELSE [taken EXCEPT !.found = @ \cup {ep}]

(* discover_skills *)
DiscoverSkills(eps) ==
    FoldLeft(TakeSkill, [found |-> {}, conflicts |-> {}], Sorted(eps)).found

-----------------------------------------------------------------------------
(* Panels and tools are listed by name; of two entry points with one name  *)
(* the later one is listed (list_panels, list_tool_specs).                 *)

(* The positions that are listed, *)
Listed(eps) == {k \in DOMAIN eps : \A j \in DOMAIN eps : eps[j].name = eps[k].name => j <= k}

(* in the order in which they are gone through. *)
ListByName(eps) ==
    LET place(k) == Cardinality({j \in Listed(eps) : eps[j].name <= eps[k].name})
    IN  [m \in 1..Cardinality(Listed(eps)) |-> eps[CHOOSE k \in Listed(eps) : place(k) = m]]

(* load_panel_class, load_tool_spec_class, load_robot_class: what is       *)
(* listed by that name, or why nothing is loaded.  (A panel class that is  *)
(* incomplete is not told apart from one that cannot be loaded; by its     *)
(* name it is loaded.)                                                     *)
LoadByName(eps, name) ==
    LET listing == ListByName(eps)
        at == SelectInSeq(listing, LAMBDA ep : ep.name = name)
    IN  IF at = 0 THEN "LookupError"
        ELSE IF Works(listing[at]) THEN listing[at] ELSE "load error"

(* Fault: the id of a panel is not remembered. *)
TakePanelAgain(taken, ep) ==
    IF ~Works(ep) THEN taken ELSE [taken EXCEPT !.classes = Append(@, ep)]

(* One entry point: a panel that is incomplete or whose id is taken is     *)
(* skipped.                                                                *)
TakePanel(taken, ep) ==
    IF ~Works(ep) \/ ep.offers \in taken.ids THEN taken
    ELSE [ids |-> taken.ids \cup {ep.offers}, classes |-> Append(taken.classes, ep)]

(* iter_plugin_panels *)
PluginPanels(eps) ==
    FoldLeft(TakePanel, [ids |-> {}, classes |-> <<>>], ListByName(eps)).classes

(* One entry point: a tool that cannot be loaded or made is skipped.       *)
TakeTool(tools, ep) == IF Works(ep) THEN Append(tools, ep) ELSE tools

(* iter_plugin_tool_specs *)
PluginTools(eps) == FoldLeft(TakeTool, <<>>, ListByName(eps))

-----------------------------------------------------------------------------
(* ToolsCollection of a sequence of tools.                                 *)

KeysOf(tools) == {tools[k].offers : k \in DOMAIN tools}

(* _by_key: the last of the tools with this key. *)
ToolFor(tools, key) ==
    LET has(t) == t.offers = key IN tools[SelectLastInSeq(tools, has)]

(* default *)
DefaultOf(tools, key) == IF key \in KeysOf(tools) THEN ToolFor(tools, key) ELSE tools[1]

(* Fault: a plug-in's key is not remembered. *)
AcceptToolAgain(native, accepted, tool) ==
    IF tool.offers \in KeysOf(native) THEN accepted ELSE Append(accepted, tool)

AcceptTool(native, accepted, tool) ==
    IF tool.offers \in KeysOf(native) \cup KeysOf(accepted) THEN accepted
    ELSE Append(accepted, tool)

(* ComposedToolsSpec.__init__: the native tools, then the plug-ins whose   *)
(* keys are free.                                                          *)
ComposedTools(native, plugins) ==
    LET accept(accepted, tool) == AcceptTool(native, accepted, tool)
    IN  native \o FoldLeft(accept, <<>>, plugins)

(* Robot.tools: what it composes once is what it gives out from then on.   *)
RobotTools(native, eps) ==
    LET plugins == PluginTools(eps)
    IN  IF plugins = <<>> THEN native ELSE ComposedTools(native, plugins)
=============================================================================

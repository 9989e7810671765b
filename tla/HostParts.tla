----------------------------- MODULE HostParts -----------------------------
(***************************************************************************)
(* The parts of waldoctl that a host application drives on its own: a      *)
(* tool's telemetry, the passes of a dry run, the controller's collision   *)
(* world, the open programs, the listeners of an object, synchronous       *)
(* tools, the commands of skills on the arm, and the values of Subjects.   *)
(* They share no state, so that an order among steps of different parts    *)
(* can neither cause nor hide anything: a behaviour exercises one part,    *)
(* the one that subject names, and the others stand still.                 *)
(***************************************************************************)
EXTENDS Subjects, TelemetrySeries, DryRunPasses, ShapeWorlds, ProgramTabs, ChangeNotifier,
        SyncTools, SkillCommands

Parts == {"telemetry", "dry run", "world", "tabs", "notifier", "sync tools", "commands"}

hostVars == <<subject, seriesVars, dryRunVars, worldVars, tabVars, notifierVars, syncVars,
              lifecycleVars, commandVars>>

(* The initial values of a part that is not exercised do not matter.       *)
HostInit ==
    /\ subject \in [of : Kinds \cup Parts, items : {<<>>}]
    /\ SeriesInit /\ DryRunInit /\ WorldInit /\ TabsInit /\ NotifierInit /\ SyncInit
    /\ CommandsInit
    /\ Is("world") \/ context = 0
    /\ Is("tabs") \/ disk = [f \in Files |-> EmptySource]

SeriesStep == Is("telemetry") /\ SeriesNext
    /\ UNCHANGED <<subject, dryRunVars, worldVars, tabVars, notifierVars, syncVars,
                   lifecycleVars, commandVars>>
DryRunStep == Is("dry run") /\ DryRunNext
    /\ UNCHANGED <<subject, seriesVars, worldVars, tabVars, notifierVars, syncVars,
                   lifecycleVars, commandVars>>
WorldStep == Is("world") /\ WorldNext
    /\ UNCHANGED <<subject, seriesVars, dryRunVars, tabVars, notifierVars, syncVars,
                   lifecycleVars, commandVars>>
TabsStep == Is("tabs") /\ TabsNext
    /\ UNCHANGED <<subject, seriesVars, dryRunVars, worldVars, notifierVars, syncVars,
                   lifecycleVars, commandVars>>
NotifierStep == Is("notifier") /\ NotifierNext
    /\ UNCHANGED <<subject, seriesVars, dryRunVars, worldVars, tabVars, syncVars,
                   lifecycleVars, commandVars>>
SyncStep == Is("sync tools") /\ SyncNext
    /\ UNCHANGED <<subject, seriesVars, dryRunVars, worldVars, tabVars, notifierVars,
                   lifecycleVars, commandVars>>
CommandsStep == Is("commands") /\ CommandsNext
    /\ UNCHANGED <<subject, seriesVars, dryRunVars, worldVars, tabVars, notifierVars, syncVars>>
ValuesStep == SubjectsNext
    /\ UNCHANGED <<seriesVars, dryRunVars, worldVars, tabVars, notifierVars, syncVars,
                   lifecycleVars, commandVars>>

HostNext ==
    \/ ValuesStep \/ SeriesStep \/ DryRunStep \/ WorldStep \/ TabsStep \/ NotifierStep
    \/ SyncStep \/ CommandsStep

HostSpec == HostInit /\ [][HostNext]_hostVars
=============================================================================

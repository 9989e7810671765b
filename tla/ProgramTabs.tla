---------------------------- MODULE ProgramTabs ----------------------------
(***************************************************************************)
(* The open programs of waldoctl/programs.py (Program, ProgramTabs) and    *)
(* the host that opens, edits and saves them.  What a save writes is the   *)
(* source of when it began; it ends, or fails, at any later time, and only *)
(* then marks the program as saved.                                        *)
(*                                                                         *)
(* The host's operations follow what the abstract methods ask of them.     *)
(* Nobody else writes the files, and the host neither opens a file nor     *)
(* saves to one that is being written, or that another program has open.   *)
(***************************************************************************)
EXTENDS Naturals, SequencesExt

CONSTANTS
    Files, Sources,
    NoFile,        \* no path
    EmptySource,   \* the source of a pristine program
    NoProgram,     \* None
    MaxPrograms,   \* bound: programs ever made
    MaxOpen        \* bound: programs open at once

ASSUME TabsAssumption ==
    /\ {MaxPrograms, MaxOpen} \subseteq Nat
    /\ NoFile \notin Files /\ EmptySource \in Sources

VARIABLES
    tabs,        \* items
    active_id,   \* 0 if there is none
    disk,        \* what the files contain
    writing,     \* the saves under way
    programs,    \* how many programs were made
    raced        \* history: marked as saved with another source than was written

tabVars == <<tabs, active_id, disk, writing, programs, raced>>

(* is_dirty *)
IsDirty(program) == program.source # program.saved

(* mark_saved *)
MarkSaved(program) == [program EXCEPT !.saved = program.source]

(* get, and items with a program changed. *)
TabAt(id) == SelectInSeq(tabs, LAMBDA p : p.id = id)
GetTab(id) == IF TabAt(id) = 0 THEN NoProgram ELSE tabs[TabAt(id)]
SetTab(program) ==
    [k \in DOMAIN tabs |-> IF tabs[k].id = program.id THEN program ELSE tabs[k]]

(* active *)
Active == IF active_id = 0 THEN NoProgram ELSE GetTab(active_id)

IsOpen(id) == \E k \in DOMAIN tabs : tabs[k].id = id

(* Fault: only the active program is looked at. *)
FindActiveByPath(path) ==
    LET at == SelectInSeq(tabs, LAMBDA p : p.id = active_id /\ p.path = path)
    IN  IF path = NoFile THEN 0 ELSE at

(* find_by_path: where the program is. *)
FindByPath(path) ==
    LET at == SelectInSeq(tabs, LAMBDA p : p.path = path)
    IN  IF path = NoFile THEN 0 ELSE at

Written(path) == \E w \in writing : w.path = path

TabsInit ==
    /\ tabs = <<>> /\ active_id = 0 /\ writing = {} /\ programs = 0 /\ raced = {}
    /\ disk \in [Files -> Sources]

(* The new program is the active one. *)
AddTab(program) ==
    /\ Len(tabs) < MaxOpen /\ programs < MaxPrograms
    /\ programs' = programs + 1
    /\ tabs' = Append(tabs, [program EXCEPT !.id = programs'])
    /\ active_id' = programs'
    /\ UNCHANGED <<disk, writing, raced>>

(* new *)
NewTab(source) ==
    AddTab([id |-> 0, path |-> NoFile, source |-> source, saved |-> EmptySource])

SwitchTab(id) ==
    /\ IsOpen(id)
    /\ active_id' = id
    /\ UNCHANGED <<tabs, disk, writing, programs, raced>>

(* open focuses the program that has this path already. *)
OpenTab(path) ==
    /\ ~Written(path)
    /\ IF FindByPath(path) # 0 THEN SwitchTab(tabs[FindByPath(path)].id)
       ELSE AddTab(MarkSaved([id |-> 0, path |-> path, source |-> disk[path],
                              saved |-> EmptySource]))

(* close; the host may leave the id of the closed program behind. *)
CloseTab(id) ==
    /\ IsOpen(id)
    /\ tabs' = RemoveAt(tabs, TabAt(id))
    /\ UNCHANGED <<active_id, disk, writing, programs, raced>>

(* The editor shows the active program, if it is open. *)
EditTab(source) ==
    /\ Active # NoProgram
    /\ tabs' = SetTab([Active EXCEPT !.source = source])
    /\ UNCHANGED <<active_id, disk, writing, programs, raced>>

(* save *)
BeginSave(path) ==
    /\ Active # NoProgram /\ ~Written(path)
    /\ \A w \in writing : w.id # active_id
    /\ FindByPath(path) # 0 => tabs[FindByPath(path)].id = active_id
    /\ writing' = writing \cup
            {[id |-> active_id, path |-> path, content |-> Active.source]}
    /\ UNCHANGED <<tabs, active_id, disk, programs, raced>>

EndSave(w) ==
    /\ writing' = writing \ {w}
    /\ disk' = [disk EXCEPT ![w.path] = w.content]
    /\ IF IsOpen(w.id)
       THEN LET program == [GetTab(w.id) EXCEPT !.path = w.path]
            IN  /\ tabs' = SetTab(MarkSaved(program))
                /\ raced' = IF program.source = w.content THEN raced \ {w.id}
                            ELSE raced \cup {w.id}
       ELSE UNCHANGED <<tabs, raced>>
    /\ UNCHANGED <<active_id, programs>>

FailSave(w) ==
    /\ writing' = writing \ {w}
    /\ UNCHANGED <<tabs, active_id, disk, programs, raced>>

(* reload, "discarding unsaved edits". *)
ReloadTab ==
    /\ Active # NoProgram
    /\ Active.path # NoFile /\ ~Written(Active.path)
    /\ tabs' = SetTab(MarkSaved([Active EXCEPT !.source = disk[Active.path]]))
    /\ raced' = raced \ {active_id}
    /\ UNCHANGED <<active_id, disk, writing, programs>>

TabsNext ==
    \/ \E source \in Sources : NewTab(source) \/ EditTab(source)
    \/ \E path \in Files : OpenTab(path) \/ BeginSave(path)
    \/ \E id \in 1..programs : SwitchTab(id) \/ CloseTab(id)
    \/ \E w \in writing : EndSave(w) \/ FailSave(w)
    \/ ReloadTab

TabsSpec == TabsInit /\ [][TabsNext]_tabVars

-----------------------------------------------------------------------------
(* A program that shows no unsaved edits is what its file contains,        *)
(* whatever was opened, closed, edited, saved and reloaded in between, and *)
(* no two programs have the same file -- unless a save wrote another       *)
(* source than the one it marked: mark_saved takes the source of when the  *)
(* write is done.                                                          *)
CleanIsOnDisk ==
    /\ \A k \in DOMAIN tabs :
        LET p == tabs[k]
        IN  p.path # NoFile /\ ~IsDirty(p) /\ p.id \notin raced => disk[p.path] = p.source
    /\ \A j, k \in DOMAIN tabs : tabs[j].path = tabs[k].path /\ j # k => tabs[j].path = NoFile
=============================================================================

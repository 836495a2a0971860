---------------------------- MODULE ConfigStore -----------------------------
(***************************************************************************)
(* The configuration through the life of the program: loaded at start      *)
(* (app_init_config() in src/gui/gsc_init.cpp), changed by the windows,    *)
(* saved by a timer (src/rconfig/autosave.h) and on quit.  There is one    *)
(* thread, so that nothing but a crash comes between the steps of a save.  *)
(***************************************************************************)
EXTENDS ConfigTree

CONSTANTS
    Autosave,       \* "system/config_autosave_timeout_sec" is positive
    WritesFail,     \* the file may turn out to be unwritable, the disk full
    Crashes,        \* the program may be killed
    Windows         \* fs_path_is_writable() as it is compiled for Windows

ASSUME FlagsAssumption == {Autosave, WritesFail, Crashes, Windows} \subseteq BOOLEAN

VARIABLES
    config,     \* impl::config_node
    file,       \* gsmartcontrol2.conf of the user
    globalFile, \* gsmartcontrol2.conf of the system
    process,    \* "off", "running", or "quitting" in app_quit()
    saving,     \* where a save is: "no", "open", "write"
    timer,      \* the autosave timer is installed
    lastSave,   \* history: "none", "complete" or "failed"
    written     \* history: what the settings were in the last complete save

vars == <<config, file, globalFile, process, saving, timer, lastSave, written>>

\* A file that was truncated, and not yet or only partly written, does not parse.
NoFile == [kind |-> "absent"]
TornFile == [kind |-> "torn"]
FileOf(t) == [kind |-> "tree", tree |-> t]
File == {NoFile, TornFile} \cup {FileOf(t) : t \in Tree}

\* load_from_file(): the tree is replaced if the file can be parsed.
Load(t, f) == IF f.kind = "tree" THEN f.tree ELSE t

\* Mutation: the user's file first.
StartLocalFirst ==
    /\ process = "off"
    /\ config' = Load(Load(EmptyTree, file), globalFile)
    /\ process' = "running" /\ timer' = Autosave
    /\ UNCHANGED <<file, globalFile, saving, lastSave, written>>

\* app_init_config(): "load global first", "load local".
Start ==
    /\ process = "off"
    /\ config' = Load(Load(EmptyTree, globalFile), file)
    /\ process' = "running" /\ timer' = Autosave
    /\ UNCHANGED <<file, globalFile, saving, lastSave, written>>

Idle == process = "running" /\ saving = "no"

\* prefs_config_set(): "don't set the defaults".
Change(key, value) ==
    /\ Idle
    /\ config' = IF value = Default[key] THEN UnsetNode(config, key)
                                         ELSE SetNode(config, key, value)
    /\ UNCHANGED <<file, globalFile, process, saving, timer, lastSave, written>>

\* set_data(): a window size, a directory, the startup devices.
SetData(key, value) ==
    /\ Idle
    /\ config' = SetNode(config, key, value)
    /\ UNCHANGED <<file, globalFile, process, saving, timer, lastSave, written>>

\* What fs_path_is_writable() does to the file: on Windows it opens it for appending and
\* removes it if it was there before.
CheckWritable ==
    file' = IF ~Windows THEN file ELSE IF file.kind = "absent" THEN TornFile ELSE NoFile

\* Mutation: a file that exists already is left alone.
AutosaveOnce ==
    /\ Idle /\ timer
    /\ IF file.kind = "absent" THEN CheckWritable /\ saving' = "open" ELSE UNCHANGED <<file, saving>>
    /\ UNCHANGED <<config, globalFile, process, timer, lastSave, written>>

\* autosave_timeout_callback() of the timer; false, which is "force", removes it.
AutosaveTick ==
    /\ Idle /\ timer
    /\ \/ WritesFail /\ timer' = FALSE /\ UNCHANGED <<file, saving>>
       \/ CheckWritable /\ saving' = "open" /\ UNCHANGED timer
    /\ UNCHANGED <<config, globalFile, process, lastSave, written>>

\* The program ends, and with it all that is not in the file.
Exit == process' = "off" /\ saving' = "no" /\ timer' = FALSE /\ config' = EmptyTree

\* app_quit(): autosave_force_now() first.
Quit ==
    /\ Idle
    /\ \/ WritesFail /\ Exit /\ UNCHANGED file
       \/ CheckWritable /\ process' = "quitting" /\ saving' = "open" /\ UNCHANGED <<config, timer>>
    /\ UNCHANGED <<globalFile, lastSave, written>>

SaveReturns ==
    IF process = "quitting" THEN Exit
    ELSE saving' = "no" /\ UNCHANGED <<config, process, timer>>

\* fs_file_put_contents(): opening the file truncates it.
OpenFile ==
    /\ saving = "open"
    /\ \/ file' = TornFile /\ saving' = "write" /\ UNCHANGED <<config, process, timer>>
       \/ WritesFail /\ SaveReturns /\ UNCHANGED file
    /\ UNCHANGED <<globalFile, lastSave, written>>

WriteFile ==
    /\ saving = "write"
    /\ SaveReturns
    /\ \/ file' = FileOf(config) /\ lastSave' = "complete" /\ written' = Reads(config)
       \/ WritesFail /\ lastSave' = "failed" /\ UNCHANGED <<file, written>>
    /\ UNCHANGED globalFile

Crash ==
    /\ Crashes /\ process # "off"
    /\ Exit
    /\ lastSave' = IF saving = "write" THEN "failed" ELSE lastSave
    /\ UNCHANGED <<file, globalFile, written>>

Init ==
    /\ config = EmptyTree
    /\ file \in File /\ globalFile \in File
    /\ process = "off" /\ saving = "no" /\ timer = FALSE
    /\ lastSave = "none" /\ written = Default

Next ==
    \/ Start \/ Quit \/ AutosaveTick \/ OpenFile \/ WriteFile \/ Crash
    \/ \E key \in Key, value \in Value : Change(key, value) \/ SetData(key, value)

Spec == Init /\ [][Next]_vars

\* The main loop gets to its timers, a save comes back, and does not fail for ever.
FairSpec ==
    /\ Spec
    /\ WF_vars(AutosaveTick) /\ WF_vars(OpenFile \/ WriteFile)
    /\ SF_vars(OpenFile /\ saving' = "write") /\ SF_vars(WriteFile /\ lastSave' = "complete")

-----------------------------------------------------------------------------
(* Properties.                                                             *)

\* Every variable stays in its type; the configuration stays a JSON document.
TypeOK ==
    /\ config \in Tree /\ file \in File /\ globalFile \in File
    /\ process \in {"off", "running", "quitting"} /\ saving \in {"no", "open", "write"}
    /\ timer \in BOOLEAN
    /\ lastSave \in {"none", "complete", "failed"} /\ written \in [Key -> Value]

\* "Since config is loaded from a user file, it may contain some invalid nodes": whatever is
\* in the tree, changing a setting changes the value it reads as, or nothing, and no change
\* disturbs another setting.
ChangeIsExact ==
    [][\A key \in Key, value \in Value : Change(key, value) \/ SetData(key, value) =>
          /\ Reads(config') = [Reads(config) EXCEPT ![key] = value] \/ config' = config
          /\ value = Default[key] /\ Change(key, value) => Read(config', key) = value]_vars

\* Once a save has been completed the settings it wrote stay in the file, until another save
\* truncates it.
SavedIsKept ==
    lastSave = "complete" /\ saving # "write" => file.kind = "tree" /\ Reads(file.tree) = written

\* A program that was not interrupted in a save comes up with the settings of that save.
SettingsSurvive ==
    [][process = "off" /\ process' = "running" /\ lastSave = "complete" =>
          Reads(config') = written]_vars

\* While the program runs with its autosave timer it gets, again and again, to where all
\* settings are in the file.
ChangesAreSaved ==
    []<>(process = "off" \/ ~timer \/ (file.kind = "tree" /\ Reads(file.tree) = Reads(config)))

\* "if manual, return failure. else, don't stop the timeout"
AutosaveGoesOn == [][Idle /\ timer /\ process' = "running" => timer']_vars

\* "Check if the existing or soon to be created file is writable", "remove the created file":
\* the check of a file leaves it as it is.
CheckKeepsFile == [][saving = "no" /\ saving' = "open" => file' = file]_vars

\* "Default system-wide settings": what the user's file does not set is as the system's says.
SystemWideDefaults ==
    [][process = "off" /\ process' = "running" /\ globalFile.kind = "tree" /\ file.kind = "tree" =>
          \A k \in Key : file.tree[k] = Absent => Read(config', k) = Read(globalFile.tree, k)]_vars
=============================================================================

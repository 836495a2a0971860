----------------------------- MODULE MainWindow -----------------------------
(***************************************************************************)
(* The main window (src/gui/gsc_main_window.cpp), its icons                *)
(* (gsc_main_window_iconview.cpp), the device scan it starts               *)
(* (src/applib/storage_detector.cpp) and the Add Device window             *)
(* (gsc_add_device_window.cpp).                                            *)
(*                                                                         *)
(* As in InfoWindow there is one thread, and a handler that runs smartctl  *)
(* or shows a dialog dispatches other events until that is over: "stack"   *)
(* holds the handlers in progress.  A command's dialog is modal only two   *)
(* seconds after its start, so clicks may nest into it.                    *)
(***************************************************************************)
EXTENDS Naturals, Sequences, FiniteSets

CONSTANTS
    Disk,           \* the devices the detection may find
    Manual,         \* the devices the user may add by hand
    EnteredTypes,   \* the type arguments the user may enter, "" for auto-detection
    CommandsFail,   \* smartctl may fail
    Hasty,          \* the user acts also while a command is running, not only when none is
    MaxDrives,      \* bound: the StorageDevice objects that exist at a time
    MaxWindows,     \* bound: information windows
    MaxDepth        \* bound: handlers on the call stack

TypeArg == {"", "scsi", "sat"}

ASSUME TypesAssumption == EnteredTypes \subseteq TypeArg
ASSUME UserAssumption == {CommandsFail, Hasty} \subseteq BOOLEAN
ASSUME BoundsAssumption ==
    /\ {MaxDrives, MaxWindows} \subseteq Nat /\ MaxDepth \in Nat \ {0}

Drives == 1 .. MaxDrives

VARIABLES
    object,         \* [Drives -> the StorageDevice, or noDevice]
    drives,         \* drives_: the objects in the list (its order does not matter)
    icons,          \* [Drives -> Nat]: the icons of each object
    numIcons,       \* num_icons_
    selected,       \* the object whose icon is selected, 0 if none is
    scanning,       \* scanning_
    startupDevices, \* "system/startup_manual_devices" in the configuration: <<device, type>>
    windows,        \* the objects with an information window
    testing,        \* the objects whose test_is_active_ is set
    stack,          \* the handlers in progress, the topmost last
    mainLoop,       \* "none" while the constructor scans, "running", "ended"
    outcome         \* "running", "quit" once quit_requested() got to app_quit(), or "crashed"

iconVars == <<icons, numIcons, selected>>
listVars == <<object, drives, iconVars, scanning>>
restVars == <<startupDevices, windows, testing, mainLoop, outcome>>
allVars == <<listVars, restVars, stack>>

noDevice == [kind |-> "none"]
Device == [kind : {"detected", "manual", "virtual"}, name : Disk \cup Manual \cup {"file"},
           entered : TypeArg, type : TypeArg]

\* A device and type argument, as the user enters them and the configuration keeps them.
Request == Manual \X TypeArg
noRequest == <<>>

-----------------------------------------------------------------------------
(* The call stack.                                                         *)

CommandOp == {"startCheck", "check", "detect", "fetch", "add", "addNew", "toggle", "reread",
              "enable", "open"}
PumpOp == {"startPump", "pump"}
DialogOp == {"startError", "checkError", "askRescan", "scanError", "permissionError", "addError",
             "toggleError", "askEnable", "enableError", "askQuit", "dialog"}
ScanOp == {"pump", "detect", "fetch", "scanError", "permissionError"}

Frame == [op : CommandOp \cup PumpOp \cup DialogOp,
          drive : Drives \cup {0},              \* the object the handler works on
          request : Request \cup {noRequest},   \* what an "add" adds
          todo : SUBSET Request,                \* the startup devices to add after it
          left : SUBSET Drives,                 \* what fetch_basic_data() has still to look at
          flag : BOOLEAN]                       \* "auto_add_device_check"; an error was collected

NewFrame(op) == [op |-> op, drive |-> 0, request |-> noRequest, todo |-> {}, left |-> {},
                 flag |-> FALSE]

Top == stack[Len(stack)]
Below == SubSeq(stack, 1, Len(stack) - 1)
Live == outcome = "running"
Ready(op) == stack # <<>> /\ Top.op = op /\ Live
ReplaceTop(op) == stack' = Append(Below, [Top EXCEPT !.op = op])
Push(frame) == Len(stack) < MaxDepth /\ stack' = Append(stack, frame)

\* StorageDevicePtr keeps an object while anyone holds it.
InUse == windows \cup ({stack[i].drive : i \in DOMAIN stack} \ {0})
Held == drives \cup {d \in Drives : icons[d] > 0} \cup InUse

Unused == Drives \ Held
NewDrive == CHOOSE d \in Unused : TRUE

\* Bound: enough unused objects for what this handler and those in progress may add, so that
\* none of them lacks one when it returns.  A scan frees those that nobody else uses.
Room(kept, own) ==
    Cardinality(kept) + own + Len(stack) * Cardinality(Disk \cup (Manual \X EnteredTypes))
        <= MaxDrives
RoomToScan ==
    /\ Room(Held, Cardinality(startupDevices))
    /\ Room(InUse, Cardinality(Disk) + Cardinality(startupDevices))

UserActs ==
    /\ Live
    /\ \A i \in DOMAIN stack : stack[i].op \notin DialogOp
    /\ ~Hasty => stack = <<>>
    /\ stack = <<>> => mainLoop = "running"

\* testing_active()
TestingActive == testing \cap drives # {}

-----------------------------------------------------------------------------
(* add_device(), add_startup_manual_devices(), the Add Device window.      *)

\* Mutation: it retries whatever type was given.
TypesTriedAlways(device) == {device.type, "scsi"}

\* What fetch_basic_data_and_parse() may make of a device: it retries with type "scsi" if
\* auto-detection fails, and parses whatever smartctl printed.
TypesTried(device) == {device.type} \cup (IF device.type = "" THEN {"scsi"} ELSE {})

Fetched(device) ==
    [device : {[device EXCEPT !.type = type] : type \in TypesTried(device)},
     ok : IF CommandsFail THEN BOOLEAN ELSE {TRUE}]

NewDevice(kind, request) ==
    [kind |-> kind, name |-> request[1], entered |-> request[2], type |-> request[2]]

\* add_entry(): one more icon for each.
AddIcons(set) ==
    /\ icons' = [d \in Drives |-> IF d \in set THEN icons[d] + 1 ELSE icons[d]]
    /\ numIcons' = numIcons + Cardinality(set)

\* The object joins the list with a selected icon.
AddDrive(device) ==
    /\ Unused # {}
    /\ object' = [object EXCEPT ![NewDrive] = device]
    /\ drives' = drives \cup {NewDrive}
    /\ AddIcons({NewDrive})
    /\ selected' = NewDrive
    /\ UNCHANGED scanning

\* The next of the startup devices, or the end of the handler.
AddNext(below, todo) ==
    IF todo = {} THEN stack' = below
    ELSE \E request \in todo :
            stack' = Append(below, [NewFrame("add") EXCEPT !.request = request,
                                                           !.todo = todo \ {request}])

\* add_device_silent(): "We want the manual add to always succeed even if there are errors".
AddReturns ==
    /\ Ready("add")
    /\ \E result \in Fetched(NewDevice("manual", Top.request)) : AddDrive(result.device)
    /\ AddNext(Below, Top.todo)
    /\ UNCHANGED restVars

\* on_window_ok_button_clicked(): "Device doesn't exist.", or run smartctl on it.
ClickAdd(request, auto) ==
    /\ UserActs /\ Room(Held, 1)
    /\ \/ Push(NewFrame("dialog"))
       \/ Push([NewFrame("addNew") EXCEPT !.request = request, !.flag = auto])
    /\ UNCHANGED <<listVars, restVars>>

\* "Save the updated map back to config": add_device() returns true even if it failed.
SaveStartupDevice ==
    /\ startupDevices' = startupDevices \cup (IF Top.flag THEN {Top.request} ELSE {})
    /\ UNCHANGED <<windows, testing, mainLoop, outcome>>

AddNewReturns ==
    /\ Ready("addNew")
    /\ \E result \in Fetched(NewDevice("manual", Top.request)) :
          IF result.ok
          THEN AddDrive(result.device) /\ SaveStartupDevice /\ stack' = Below
          ELSE ReplaceTop("addError") /\ UNCHANGED <<listVars, restVars>>

AddErrorClosed ==
    /\ Ready("addError")
    /\ SaveStartupDevice
    /\ stack' = Below
    /\ UNCHANGED listVars

RemoveIcon ==
    /\ UserActs /\ selected # 0
    /\ icons' = [icons EXCEPT ![selected] = @ - 1]
    /\ selected' = 0
    /\ UNCHANGED <<object, drives, numIcons, scanning, windows, testing, stack, mainLoop,
                   outcome>>

\* action_remove_device: forgets the device with the type argument the object has now.
ClickRemove ==
    /\ RemoveIcon
    /\ object[selected].kind = "manual" /\ selected \notin testing
    /\ startupDevices' = startupDevices \ {<<object[selected].name, object[selected].type>>}

\* action_remove_virtual_device
ClickRemoveVirtual ==
    /\ RemoveIcon
    /\ object[selected].kind = "virtual"
    /\ UNCHANGED startupDevices

\* add_virtual_drive(): a file that does not open or parse is not listed.
LoadVirtual ==
    /\ UserActs /\ Room(Held, 1)
    /\ \/ AddDrive(NewDevice("virtual", <<"file", "">>)) /\ UNCHANGED stack
       \/ Push(NewFrame("dialog")) /\ UNCHANGED listVars
    /\ UNCHANGED restVars

-----------------------------------------------------------------------------
(* rescan_devices() and StorageDetector.                                   *)

\* Mutation: a scan does not look at scanning_.
ClickRescanAlways ==
    /\ UserActs /\ RoomToScan
    /\ Push(NewFrame("check"))
    /\ UNCHANGED <<listVars, restVars>>

\* action_rescan_devices: a scan in progress is not disturbed, but the startup devices are
\* added in any case.
ClickRescan ==
    /\ UserActs /\ RoomToScan /\ Len(stack) < MaxDepth
    /\ IF scanning THEN AddNext(stack, startupDevices) ELSE Push(NewFrame("check"))
    /\ UNCHANGED <<listVars, restVars>>

\* Mutation: the icon view keeps its selection.
ClearIconsOnly == icons' = [d \in Drives |-> 0] /\ numIcons' = 0 /\ UNCHANGED selected

\* clear_all()
ClearIcons == icons' = [d \in Drives |-> 0] /\ numIcons' = 0 /\ selected' = 0

\* Mutation: the icons are not cleared.
StartScanOverIcons ==
    /\ scanning' = TRUE
    /\ ReplaceTop("pump")
    /\ UNCHANGED <<object, drives, iconVars>>

\* From "scanning_ = true" to the loop that lets the icon view redraw.
StartScan ==
    /\ scanning' = TRUE
    /\ ClearIcons
    /\ ReplaceTop("pump")
    /\ UNCHANGED <<object, drives>>

\* check_smartctl_version_and_set_format() has run "smartctl -V".
CheckReturns ==
    /\ Ready("check")
    /\ \/ CommandsFail /\ ReplaceTop("checkError") /\ UNCHANGED listVars
       \/ TestingActive /\ ReplaceTop("askRescan") /\ UNCHANGED listVars
       \/ ~TestingActive /\ StartScan
    /\ UNCHANGED restVars

\* "This operation may abort any running tests. Do you wish to continue?"
AskRescanAnswered ==
    /\ Ready("askRescan")
    /\ \/ AddNext(Below, startupDevices) /\ UNCHANGED listVars
       \/ StartScan
    /\ UNCHANGED restVars

CheckErrorClosed ==
    /\ Ready("checkError")
    /\ AddNext(Below, startupDevices)
    /\ UNCHANGED <<listVars, restVars>>

\* Mutation: the drives of the last scan stay in the list.
PumpReturnsKeeping ==
    /\ Ready("pump")
    /\ ReplaceTop("detect")
    /\ UNCHANGED <<listVars, restVars>>

\* drives_.clear(), and the objects nobody else holds are gone.
PumpReturns ==
    /\ Ready("pump")
    /\ drives' = {}
    /\ object' = [d \in Drives |-> IF icons[d] > 0 \/ d \in InUse THEN object[d] ELSE noDevice]
    /\ ReplaceTop("detect")
    /\ UNCHANGED <<iconVars, scanning, restVars>>

\* Mutation: an error ends the scan with scanning_ set.
ScanErrorClosedEarly ==
    /\ Ready("scanError")
    /\ AddNext(Below, startupDevices)
    /\ UNCHANGED <<listVars, restVars>>

\* The end of rescan_devices(): "add them to iconview", all or, with
\* "gui/show_smart_capable_only", some of them, then the startup devices.
ListDrives(list) ==
    /\ scanning' = FALSE
    /\ \E shown \in SUBSET list : AddIcons(shown)
    /\ AddNext(Below, startupDevices)
    /\ UNCHANGED <<selected, restVars>>

\* detect() has found devices (StorageDetector, whose promise DriveScan is what is used
\* here): they are listed, read or not.
DetectReturns ==
    /\ Ready("detect")
    /\ \E found \in SUBSET Disk :
          LET ids == {f \in [found -> Unused] : \A x, y \in found : f[x] = f[y] => x = y}
              id == CHOOSE f \in ids : TRUE
              nameOf(d) == CHOOSE x \in found : id[x] = d
              new == {id[x] : x \in found}
          IN  /\ ids # {}
              /\ object' = [d \in Drives |-> IF d \in new
                                            THEN NewDevice("detected", <<nameOf(d), "">>)
                                            ELSE object[d]]
              /\ drives' = drives \cup new
              /\ ListDrives(drives')

\* fetch_basic_data() skips what has an output already: which devices do is left open.
FetchNext(left, collected) ==
    \/ ReplaceTop("scanError")
    \/ collected /\ ReplaceTop("permissionError")
    \/ \E d \in left :
          stack' = Append(Below, [NewFrame("fetch") EXCEPT !.drive = d, !.left = left \ {d},
                                                           !.flag = collected])

\* detect() has failed: the list, empty unless devices were added meanwhile, is fetched.
DetectFails ==
    /\ Ready("detect") /\ CommandsFail
    /\ UNCHANGED <<listVars, restVars>>
    /\ FetchNext(drives, FALSE)

FetchReturns ==
    /\ Ready("fetch")
    /\ \E result \in Fetched(object[Top.drive]) :
          /\ object' = [object EXCEPT ![Top.drive] = result.device]
          /\ FetchNext(Top.left, Top.flag \/ ~result.ok)
    /\ UNCHANGED <<drives, iconVars, scanning, restVars>>

\* "generic scan error": nothing is listed.
ScanErrorClosed ==
    /\ Ready("scanError")
    /\ ListDrives({})
    /\ UNCHANGED <<object, drives>>

\* "add them anyway, in case the error was only on one drive"
PermissionErrorClosed ==
    /\ Ready("permissionError")
    /\ ListDrives(drives)
    /\ UNCHANGED <<object, drives>>

\* show_prefs_updated_message(); the preferences window was modal.
PrefsUpdated ==
    /\ UserActs /\ stack = <<>>
    /\ ClearIcons
    /\ UNCHANGED <<object, drives, scanning, restVars, stack>>

-----------------------------------------------------------------------------
(* The selected drive: SMART toggle, re-read, its window and its tests.    *)

Select(d) ==
    /\ UserActs /\ icons[d] > 0 /\ selected' = d /\ selected # d
    /\ UNCHANGED <<object, drives, icons, numIcons, scanning, restVars, stack>>

Fetchable(d) == object[d].kind # "virtual" /\ d \notin testing

\* on_action_enable_smart_toggled()
ClickToggle ==
    /\ UserActs /\ selected # 0 /\ Fetchable(selected)
    /\ Push([NewFrame("toggle") EXCEPT !.drive = selected])
    /\ UNCHANGED <<listVars, restVars>>

\* on_action_reread_device_data(): of the drive that is selected now.
\* It does not look whether there is one.
Reread(below) ==
    /\ stack' = IF selected # 0 /\ Fetchable(selected)
                THEN Append(below, [NewFrame("reread") EXCEPT !.drive = selected])
                ELSE below
    /\ outcome' = IF selected = 0 THEN "crashed" ELSE outcome
    /\ UNCHANGED <<listVars, startupDevices, windows, testing, mainLoop>>

\* The action is insensitive if no drive is selected.
ClickReread == UserActs /\ selected # 0 /\ Len(stack) < MaxDepth /\ Reread(stack)

ToggleReturns ==
    /\ Ready("toggle")
    /\ \/ Reread(Below)
       \/ CommandsFail /\ ReplaceTop("toggleError") /\ UNCHANGED <<listVars, restVars>>

ToggleErrorClosed == Ready("toggleError") /\ Reread(Below)

RereadReturns ==
    /\ Ready("reread")
    /\ \E result \in Fetched(object[Top.drive]) :
          /\ object' = [object EXCEPT ![Top.drive] = result.device]
          /\ IF result.ok THEN stack' = Below ELSE ReplaceTop("dialog")
    /\ UNCHANGED <<drives, iconVars, scanning, restVars>>

\* The end of show_device_info_window(): "No additional information is available for this
\* drive", or its window.
ShowWindow(below, d) ==
    /\ \/ windows' = windows \cup {d} /\ stack' = below
       \/ stack' = Append(below, NewFrame("dialog")) /\ UNCHANGED windows
    /\ UNCHANGED <<listVars, startupDevices, testing, mainLoop, outcome>>

\* "Parse non-virtual, smart-supporting drives here": others need no command.
ShowDetails(below, d) ==
    \/ /\ object[d].kind # "virtual"
       /\ stack' = Append(below, [NewFrame("open") EXCEPT !.drive = d])
       /\ UNCHANGED <<listVars, restVars>>
    \/ ShowWindow(below, d)

\* show_device_info_window(): "if a test is being run on it, disallow", and "ask to enable
\* SMART if it's supported but disabled".
ClickDetails ==
    /\ UserActs /\ selected # 0 /\ Cardinality(windows) < MaxWindows /\ Len(stack) < MaxDepth
    /\ \/ selected \in testing /\ Push(NewFrame("dialog")) /\ UNCHANGED <<listVars, restVars>>
       \/ /\ Fetchable(selected)
          /\ Push([NewFrame("askEnable") EXCEPT !.drive = selected])
          /\ UNCHANGED <<listVars, restVars>>
       \/ selected \notin testing /\ ShowDetails(stack, selected)

AskEnableAnswered ==
    /\ Ready("askEnable")
    /\ \/ ReplaceTop("enable") /\ UNCHANGED <<listVars, restVars>>
       \/ ShowDetails(Below, Top.drive)

EnableReturns ==
    /\ Ready("enable")
    /\ \/ CommandsFail /\ ReplaceTop("enableError") /\ UNCHANGED <<listVars, restVars>>
       \/ ShowDetails(Below, Top.drive)

EnableErrorClosed == Ready("enableError") /\ ShowDetails(Below, Top.drive)

OpenReturns ==
    /\ Ready("open")
    /\ \/ CommandsFail /\ ReplaceTop("dialog") /\ UNCHANGED <<listVars, restVars>>
       \/ ShowWindow(Below, Top.drive)

\* The information windows (module InfoWindow) start a test, close, or notice its end.
TestStarts(d) ==
    /\ UserActs /\ d \in windows \ testing /\ object[d].kind # "virtual"
    /\ testing' = testing \cup {d}
    /\ UNCHANGED <<listVars, startupDevices, windows, mainLoop, outcome, stack>>

WindowCloses(d) ==
    /\ UserActs /\ d \in windows \ testing
    /\ windows' = windows \ {d}
    /\ UNCHANGED <<listVars, startupDevices, testing, mainLoop, outcome, stack>>

TestEnds(d) ==
    /\ Live /\ d \in testing
    /\ testing' = testing \ {d}
    /\ UNCHANGED <<listVars, startupDevices, windows, mainLoop, outcome, stack>>

-----------------------------------------------------------------------------
(* Start and quit.                                                         *)

\* The constructor has run "smartctl -V" and goes on in populate_iconview_on_startup().
StartCheckReturns ==
    /\ Ready("startCheck")
    /\ \/ CommandsFail /\ ReplaceTop("startError") /\ UNCHANGED listVars
       \/ \* "gui/scan_on_startup"; a scan that a click has started already is over by now
          ~TestingActive /\ StartScan
       \/ TestingActive /\ ReplaceTop("askRescan") /\ UNCHANGED listVars
       \/ ClearIcons /\ ReplaceTop("startPump") /\ UNCHANGED <<object, drives, scanning>>
    /\ UNCHANGED restVars

StartErrorClosed ==
    /\ Ready("startError")
    /\ ClearIcons
    /\ stack' = Below
    /\ UNCHANGED <<object, drives, scanning, restVars>>

\* "Add auto-add devices stored in configuration", unless "--forget-devices" was given.
StartPumpReturns ==
    /\ Ready("startPump")
    /\ AddNext(Below, startupDevices)
    /\ UNCHANGED <<listVars, restVars>>

\* The constructor returns and gsc_init enters the main loop.
EnterMainLoop ==
    /\ mainLoop = "none" /\ stack = <<>>
    /\ mainLoop' = "running"
    /\ UNCHANGED <<listVars, startupDevices, windows, testing, outcome, stack>>

\* app_quit(): gtk_main_quit() does nothing before gtk_main().
Quit ==
    /\ outcome' = "quit"
    /\ mainLoop' = IF mainLoop = "running" THEN "ended" ELSE mainLoop
    /\ UNCHANGED <<listVars, startupDevices, windows, testing>>

\* quit_requested()
ClickQuit ==
    /\ UserActs
    /\ IF TestingActive
       THEN Push(NewFrame("askQuit")) /\ UNCHANGED <<listVars, restVars>>
       ELSE Quit /\ UNCHANGED stack

AskQuitAnswered ==
    /\ Ready("askQuit")
    /\ stack' = Below
    /\ Quit \/ UNCHANGED <<listVars, restVars>>

DialogClosed ==
    /\ Ready("dialog")
    /\ stack' = Below
    /\ UNCHANGED <<listVars, restVars>>

-----------------------------------------------------------------------------

Init ==
    /\ object = [d \in Drives |-> noDevice]
    /\ drives = {} /\ icons = [d \in Drives |-> 0] /\ numIcons = 0 /\ selected = 0
    /\ scanning = FALSE
    /\ startupDevices \in SUBSET (Manual \X EnteredTypes)
    /\ windows = {} /\ testing = {}
    /\ stack = <<NewFrame("startCheck")>>
    /\ mainLoop = "none" /\ outcome = "running"

Resume ==
    \/ StartCheckReturns \/ StartPumpReturns \/ StartErrorClosed \/ AddReturns \/ AddNewReturns
    \/ CheckReturns \/ PumpReturns \/ DetectReturns \/ DetectFails \/ FetchReturns
    \/ ToggleReturns \/ RereadReturns \/ EnableReturns \/ OpenReturns
    \/ AddErrorClosed \/ AskRescanAnswered \/ CheckErrorClosed \/ ScanErrorClosed
    \/ PermissionErrorClosed \/ ToggleErrorClosed \/ AskEnableAnswered \/ EnableErrorClosed
    \/ AskQuitAnswered \/ DialogClosed

User ==
    \/ \E name \in Manual, type \in EnteredTypes, auto \in BOOLEAN : ClickAdd(<<name, type>>, auto)
    \/ ClickRemove \/ ClickRemoveVirtual \/ LoadVirtual \/ ClickRescan \/ PrefsUpdated
    \/ ClickToggle \/ ClickReread \/ ClickDetails \/ ClickQuit
    \/ \E d \in Drives : Select(d) \/ TestStarts(d) \/ WindowCloses(d)

Next == Resume \/ User \/ EnterMainLoop \/ \E d \in Drives : TestEnds(d)

Spec == Init /\ [][Next]_allVars

\* A command ends, the user answers dialogs, and a handler goes on once those nested into
\* it have returned.  Nothing is assumed of clicks.
FairSpec == Spec /\ \A i \in 1 .. MaxDepth : SF_allVars(Len(stack) = i /\ Resume)

-----------------------------------------------------------------------------
(* Properties.                                                             *)

\* Every variable stays in its type.
TypeOK ==
    /\ object \in [Drives -> Device \cup {noDevice}]
    /\ drives \subseteq Drives /\ icons \in [Drives -> Nat] /\ numIcons \in Nat
    /\ selected \in Drives \cup {0} /\ scanning \in BOOLEAN
    /\ startupDevices \subseteq Request
    /\ windows \subseteq Drives /\ testing \subseteq Drives
    /\ stack \in Seq(Frame) /\ Len(stack) <= MaxDepth
    /\ mainLoop \in {"none", "running", "ended"} /\ outcome \in {"running", "quit", "crashed"}

\* The handlers nest, yet only one of them scans at a time: scanning_ is set exactly while
\* one handler, and no other, is past its checks in rescan_devices().
OneScanAtATime ==
    LET scans == {i \in DOMAIN stack : stack[i].op \in ScanOp} IN
    Cardinality(scans) = IF scanning THEN 1 ELSE 0

\* "ignore double-scan (may happen because we use gtk loop iterations here)": a click on
\* Re-scan during a scan changes nothing.
DoubleScanIsIgnored == [][ClickRescan => ~scanning]_allVars

\* Every icon shows a drive of the list, so that quitting and rescanning see its tests.
IconsAreListed == \A d \in Drives : icons[d] > 0 => d \in drives

\* A scan shows every device once: no object has two icons, and no two icons of detected
\* drives have the same device.
ShownOnce ==
    \A d, e \in Drives :
        /\ icons[d] <= 1
        /\ icons[d] > 0 /\ icons[e] > 0 /\ object[d].kind = "detected"
           /\ object[e].kind = "detected" /\ object[d].name = object[e].name => d = e

\* The entry of the configuration that a manually added object was made from.
EntryOf(d) == <<object[d].name, object[d].entered>>

\* "so that it can be removed as well": a startup device the user removes is forgotten.
RemovedIsForgotten == [][ClickRemove => EntryOf(selected) \notin startupDevices']_allVars

\* It is if it was entered with a type: whatever scans, re-reads and failures came between,
\* the object still has the type that its entry was saved with.
TypedIsForgotten ==
    [][ClickRemove /\ object[selected].entered # ""
           => EntryOf(selected) \notin startupDevices']_allVars

\* "Get the number of icons currently displayed"
IconsAreCounted ==
    numIcons = Cardinality(UNION {{d} \X (1 .. icons[d]) : d \in Drives})

\* "If some test is running, show a question dialog first."
QuitAsksFirst ==
    [][outcome' = "quit" /\ outcome # "quit" => testing = {} \/ (stack # <<>> /\ Top.op = "askQuit")]_allVars

\* "A test is already running on this drive": no two objects test the same device.
OneTestPerDevice ==
    \A d, e \in testing : object[d].name = object[e].name => d = e

\* "Quit the application on delete event": accepting to quit ends the main loop.
QuitEndsProgram == outcome = "quit" => mainLoop = "ended"

\* on_action_reread_device_data() finds a selected drive: nothing between a click on the
\* SMART toggle and the re-read takes the selection away.
SelectionIsKept == outcome # "crashed"

\* A scan ends, and the icon view may be scanned again.
ScanEnds == scanning ~> (~scanning \/ ~Live)

=============================================================================

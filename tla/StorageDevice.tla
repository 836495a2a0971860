--------------------------- MODULE StorageDevice ----------------------------
(***************************************************************************)
(* One object of src/applib/storage_device.{h,cpp}: what it knows of the   *)
(* drive behind its device name, and how the handlers of the windows       *)
(* (on_action_enable_smart_toggled(), on_action_reread_device_data(),      *)
(* show_device_info_window(), refresh_info()) call it.  A call is cut at   *)
(* its command; calls nest, because the program dispatches events while a  *)
(* command runs.  Meanwhile the drive may be replaced by another one.      *)
(***************************************************************************)
EXTENDS SmartctlReport, Naturals, Sequences, SequencesExt

CONSTANTS
    Drives,         \* the drives that may be behind the device name
    Formats,        \* output formats the smartctl in use may support
    TypeArgs,       \* "-d" arguments the object may be constructed with
    CommandsFail,   \* smartctl may fail
    Hasty,          \* the user does not wait for commands to end
    MaxDepth,       \* bound: calls in progress
    MaxSwaps        \* bound: replacements of the drive

ASSUME DrivesAssumption == Drives \subseteq Medium
ASSUME FormatsAssumption == Formats \subseteq Format
ASSUME TypeArgsAssumption == TypeArgs \subseteq {"", "scsi", "auto"}
ASSUME UserAssumption == CommandsFail \in BOOLEAN /\ Hasty \in BOOLEAN
ASSUME BoundsAssumption == MaxDepth \in Nat /\ MaxSwaps \in Nat

VARIABLES
    dev,            \* the members of StorageDevice that the calls change
    testIsActive,   \* test_is_active_
    isVirtual,      \* is_virtual_
    defaultFormat,  \* s_smartctl_output_default_format
    calls,          \* the calls in progress, the innermost one last
    window,         \* there has been an information window of the drive
    view,           \* what its icon shows, since the last signal_changed
    medium,         \* external: the drive behind the device name
    smartOn,        \* external: SMART is enabled on it
    swaps,          \* how often the drive was replaced
    disturbed,      \* since the last outermost fetch began, the drive was replaced, a call
                    \* nested into another one, or a test began during a call
    lastOk          \* the last fetch succeeded

vars == <<dev, testIsActive, isVirtual, defaultFormat, calls, window, view, medium, smartOn,
          swaps, disturbed, lastOk>>

-----------------------------------------------------------------------------
(* The object.                                                             *)

ParseStatus == {"Full", "Basic", "None"}
SmartStatusType == {"Enabled", "Disabled", "Unsupported"}

Common == [available: Answer, enabled: Answer, model: BOOLEAN]
NoCommon == [available |-> None, enabled |-> None, model |-> FALSE]

Device ==
    [typeArg: TypeArgs \cup {"scsi"}, detectedType: DetectedType, parseStatus: ParseStatus,
     properties: Properties, common: Common, serialNumber: Serial \cup {None},
     health: Answer, basicOutput: Report, fullOutput: Report]

Constructed(typeArg) ==
    [typeArg |-> typeArg, detectedType |-> "Unknown", parseStatus |-> "None",
     properties |-> NoProperties, common |-> NoCommon, serialNumber |-> None, health |-> None,
     basicOutput |-> EmptyReport, fullOutput |-> EmptyReport]

\* Mutation: the SMART status survives.
ClearedExceptSmart(d) ==
    [d EXCEPT !.parseStatus = "None", !.properties = NoProperties, !.health = None]

\* Mutation: the cached health survives.
ClearedExceptHealth(d) ==
    [d EXCEPT !.parseStatus = "None", !.properties = NoProperties, !.common = NoCommon]

\* clear_parse_results(); serial_number_ is not among the members it resets.
Cleared(d) ==
    [d EXCEPT !.parseStatus = "None", !.properties = NoProperties, !.common = NoCommon,
              !.health = None]

\* Mutation: each fetch clears the output that every fetch begins with.
BasicOutputCleared(d) == [d EXCEPT !.basicOutput = EmptyReport]

\* clear_outputs()
OutputsCleared(d) == [d EXCEPT !.basicOutput = EmptyReport, !.fullOutput = EmptyReport]

\* read_common_properties(): an absent property leaves the member alone, which all but the
\* serial number are reset before.
CommonRead(d) ==
    [d EXCEPT !.common = [available |-> d.properties.available,
                          enabled |-> d.properties.enabled, model |-> d.properties.model],
              !.serialNumber = IF d.properties.serial = None THEN @ ELSE d.properties.serial]

\* The common part of the three parses: the type, the repository, the common properties.
Understood(d, parser, format, report) ==
    LET p == PropertiesOf(parser, format, report)
    IN CommonRead([d EXCEPT !.properties = p, !.detectedType = TypeFrom(d.detectedType, p)])

\* get_smart_status()
SmartStatus(d) ==
    IF d.common.enabled = "yes" THEN "Enabled"
    ELSE IF d.common.enabled = "no" /\ d.common.available # "no" THEN "Disabled"
    ELSE IF d.common.enabled = None /\ d.common.available = "yes" THEN "Disabled"
    ELSE "Unsupported"

\* get_smart_switch_supported()
SwitchSupported(d) ==
    ~isVirtual /\ SmartStatus(d) # "Unsupported" /\ d.detectedType # "Nvme"

\* get_health_property(), which caches what it finds.
HealthOf(d) == IF d.health # None THEN d.health ELSE d.properties.health
HealthAsked(d) == [d EXCEPT !.health = HealthOf(d)]

\* What decorate_entry() shows of the drive.
ViewOf(d) ==
    [model |-> d.common.model, serial |-> d.serialNumber, type |-> d.detectedType,
     smart |-> SmartStatus(d), health |-> HealthOf(d)]

Views == [model: BOOLEAN, serial: Serial \cup {None}, type: DetectedType,
          smart: SmartStatusType, health: Answer]

\* signal_changed().emit(): the icon is decorated anew, which asks for the health.
Signal(d) == dev' = HealthAsked(d) /\ view' = ViewOf(d)

NoSignal(d) == dev' = d /\ UNCHANGED view

-----------------------------------------------------------------------------
(* Parsing.                                                                *)

\* parse_basic_data(): an output of no known format is tried as text.
BasicFormat(report) ==
    IF DetectedFormat(report) = None THEN "text" ELSE DetectedFormat(report)

BasicParses(report) == Parses("Basic", BasicFormat(report), report)

BasicParsed(d) ==
    LET u == Understood(Cleared(d), "Basic", BasicFormat(d.basicOutput), d.basicOutput)
    IN [u EXCEPT !.parseStatus = IF u.common.model THEN "Basic" ELSE "None"]

\* parse_full_data()
FullParsed(d, parser, format) ==
    [Understood(Cleared(d), parser, format, d.fullOutput)
        EXCEPT !.parseStatus = IF parser = "Basic" THEN "Basic" ELSE "Full"]

\* parse_any_data_for_virtual(), once the basic parser has parsed the file: if the
\* specialised one does as well, its properties replace the basic ones.
VirtualParsed(d) ==
    LET format == DetectedFormat(d.fullOutput)
        basic  == Understood(Cleared(d), "Basic", format, d.fullOutput)
        parser == ParserFor(basic.detectedType)
    IN IF parser # "Basic" /\ ParserExists(parser, format) /\ Parses(parser, format, d.fullOutput)
       THEN [basic EXCEPT !.parseStatus = "Full",
                          !.properties = PropertiesOf(parser, format, d.fullOutput)]
       ELSE [basic EXCEPT !.parseStatus = "Basic"]

-----------------------------------------------------------------------------
(* Calls.  A call knows its command, who made it ("then" is what the       *)
(* caller does next), and the reply once the command has ended.            *)

NoReply == [result |-> None, report |-> EmptyReport]

Commands == {"basic", "full", "smartOn", "smartOff"}
Results == {"ok", "error", "refused", "unknown", None}

Call == [cmd: Commands, then: {"", "reread", "open"}, type: DetectedType,
         typeArg: TypeArgs \cup {"scsi"}, tries: Nat, reply: [result: Results, report: Report]]

\* The command line and the parser are chosen from the object as it is then.
NewCall(cmd, then, d, tries) ==
    [cmd |-> cmd, then |-> then, type |-> d.detectedType, typeArg |-> d.typeArg,
     tries |-> tries, reply |-> NoReply]

Top == Last(calls)
Below == Front(calls)

\* The innermost call is this one and its command has ended.
Ended(cmds, results) == calls # <<>> /\ Top.cmd \in cmds /\ Top.reply.result \in results

\* The user can click: no command runs or, for a hasty one, its dialog is not there yet.
CanClick == Len(calls) < MaxDepth /\ (calls = <<>> \/ Hasty)

Push(below, call) ==
    /\ calls' = Append(below, call)
    /\ disturbed' = (below # <<>> \/ (disturbed /\ call.cmd \notin {"basic", "full"}))

\* fetch_basic_data_and_parse() up to its command.
StartBasic(d, below, tries) ==
    /\ NoSignal(OutputsCleared(Cleared(d)))
    /\ Push(below, NewCall("basic", "", d, tries))

\* fetch_full_data_and_parse() up to its command.
StartFull(below, then) ==
    /\ NoSignal(OutputsCleared(Cleared(dev)))
    /\ Push(below, NewCall("full", then, dev, 0))

\* set_smart_enabled() up to its command.
StartSmart(on, then) ==
    /\ NoSignal(dev)
    /\ Push(calls, NewCall(IF on THEN "smartOn" ELSE "smartOff", then, dev, 0))

Return == calls' = Below /\ UNCHANGED disturbed

external == <<medium, smartOn, swaps>>
fixed == <<isVirtual, defaultFormat>>

-----------------------------------------------------------------------------
(* The handlers of the windows, up to their first command.                 *)

\* The detection, adding a device, and on_action_reread_device_data().
Reread ==
    /\ CanClick /\ ~isVirtual /\ ~testIsActive
    /\ StartBasic(dev, calls, 0)
    /\ UNCHANGED <<testIsActive, window, lastOk, fixed, external>>

\* on_action_enable_smart_toggled(): the check box shows the status, so that a click asks
\* for the other one.
ToggleSmart ==
    /\ CanClick /\ ~testIsActive /\ SwitchSupported(dev)
    /\ StartSmart(SmartStatus(dev) = "Disabled", "reread")
    /\ UNCHANGED <<testIsActive, window, lastOk, fixed, external>>

\* The end of show_device_info_window(): without any data there is only a message.
ShowWindow(d) == window' = (window \/ d.parseStatus # "None")

\* Mutation: the full data are read of every drive.
FetchAndShowAlways(below) ==
    IF isVirtual
    THEN /\ NoSignal(dev) /\ calls' = below /\ ShowWindow(dev)
         /\ UNCHANGED <<disturbed, lastOk>>
    ELSE IF testIsActive
    THEN /\ NoSignal(dev) /\ calls' = below /\ lastOk' = FALSE
         /\ UNCHANGED <<window, disturbed>>
    ELSE StartFull(below, "open") /\ UNCHANGED <<window, lastOk>>

\* show_device_info_window() after the question: the full data of a drive with SMART, and
\* the window.  fetch_full_data_and_parse() refuses if a test has begun meanwhile.
FetchAndShow(below) ==
    IF isVirtual \/ SmartStatus(dev) = "Unsupported"
    THEN /\ NoSignal(dev) /\ calls' = below /\ ShowWindow(dev)
         /\ UNCHANGED <<disturbed, lastOk>>
    ELSE IF testIsActive
    THEN /\ NoSignal(dev) /\ calls' = below /\ lastOk' = FALSE
         /\ UNCHANGED <<window, disturbed>>
    ELSE StartFull(below, "open") /\ UNCHANGED <<window, lastOk>>

\* show_device_info_window() of a drive with SMART disabled asks whether to enable it.
OpenEnabling ==
    /\ CanClick /\ ~isVirtual /\ ~testIsActive /\ SmartStatus(dev) = "Disabled"
    /\ StartSmart(TRUE, "open")
    /\ UNCHANGED <<testIsActive, window, lastOk, fixed, external>>

Open ==
    /\ CanClick /\ ~testIsActive
    /\ isVirtual => dev.fullOutput # EmptyReport
    /\ FetchAndShow(calls)
    /\ UNCHANGED <<testIsActive, fixed, external>>

\* refresh_info(); its button is insensitive during a test, and for virtual drives.
Refresh ==
    /\ CanClick /\ ~isVirtual /\ window /\ ~testIsActive
    /\ StartFull(calls, "")
    /\ UNCHANGED <<testIsActive, window, lastOk, fixed, external>>

\* add_virtual_drive(): a file that cannot be parsed is not added.
LoadVirtual ==
    /\ isVirtual /\ dev.fullOutput = EmptyReport
    /\ \E m \in Drives, on \in BOOLEAN, format \in Format :
        LET report == Described(m, on, "", TRUE, format)
            loaded == [dev EXCEPT !.basicOutput = report, !.fullOutput = report]
        IN /\ Parses("Basic", DetectedFormat(report), report)
           /\ Signal(VirtualParsed(loaded))
    /\ lastOk' = TRUE
    /\ UNCHANGED <<testIsActive, calls, window, disturbed, fixed, external>>

-----------------------------------------------------------------------------
(* The command of a call ends.  A fetch reads the drive; switching SMART   *)
(* may fail before or after it has reached it, or be refused by the drive. *)

Replied(i, reply) == calls' = [calls EXCEPT ![i].reply = reply]

FetchRuns(i) ==
    /\ calls[i].cmd \in {"basic", "full"}
    /\ LET full == calls[i].cmd = "full"
           arg  == calls[i].typeArg
       IN \/ Replied(i, Printed(medium, smartOn, arg, full, defaultFormat))
          \/ /\ CommandsFail
             /\ \E reply \in FailedPrints(medium, smartOn, arg, full, defaultFormat) :
                    Replied(i, reply)
    /\ UNCHANGED smartOn

SwitchRuns(i) ==
    /\ calls[i].cmd \in {"smartOn", "smartOff"}
    /\ LET on    == calls[i].cmd = "smartOn"
           smart == HasSmart(medium, calls[i].typeArg)
       IN \/ /\ smart
             /\ Replied(i, [NoReply EXCEPT !.result = "ok"])
             /\ smartOn' = on
          \/ /\ CommandsFail \/ ~smart
             /\ \E result \in {"error", "refused", "unknown"} :
                    Replied(i, [NoReply EXCEPT !.result = result])
             /\ smartOn' \in IF smart THEN {smartOn, on} ELSE {smartOn}

CommandRuns(i) ==
    /\ i \in DOMAIN calls /\ calls[i].reply.result = None
    /\ FetchRuns(i) \/ SwitchRuns(i)
    /\ UNCHANGED <<dev, testIsActive, window, view, medium, swaps, disturbed, lastOk, fixed>>

-----------------------------------------------------------------------------
(* What a call does when its command has ended and the calls nested into   *)
(* it have returned.                                                       *)

\* execute_device_smartctl() with check_type stores the output, and takes note if smartctl
\* asks for a type.
BasicExecuted ==
    LET asked == Top.reply.result = "error" /\ Top.reply.report.asks
    IN [dev EXCEPT !.basicOutput = Top.reply.report,
                   !.detectedType = IF asked /\ @ = "Unknown" THEN "NeedsExplicitType" ELSE @]

\* Mutation: the retry goes on with the type that was not enough.
WithSameType(d) == d

\* set_type_argument(), set_detected_type() before the retry.
WithType(d) == [d EXCEPT !.typeArg = "scsi", !.detectedType = "BasicScsi"]

RetryWanted == BasicExecuted.detectedType = "NeedsExplicitType" /\ BasicExecuted.typeArg = ""

\* The retry: fetch_basic_data_and_parse() calls itself, and may find the lock taken.
BasicRetries ==
    /\ Ended({"basic"}, {"ok", "error"}) /\ RetryWanted
    /\ IF testIsActive
       THEN NoSignal(WithType(BasicExecuted)) /\ Return /\ lastOk' = FALSE
       ELSE StartBasic(WithType(BasicExecuted), Below, Top.tries + 1) /\ UNCHANGED lastOk
    /\ UNCHANGED <<testIsActive, window, fixed, external>>

\* parse_basic_data(), also if the command has failed.
BasicReturns ==
    /\ Ended({"basic"}, {"ok", "error"}) /\ ~RetryWanted
    /\ IF BasicParses(Top.reply.report)
       THEN Signal(BasicParsed(BasicExecuted)) /\ lastOk' = TRUE
       ELSE NoSignal(Cleared(BasicExecuted)) /\ lastOk' = FALSE
    /\ Return
    /\ UNCHANGED <<testIsActive, window, fixed, external>>

\* parse_full_data() with the parser and the format chosen before the command.
FullReturns ==
    /\ Ended({"full"}, {"ok"})
    /\ LET parser  == ParserFor(Top.type)
           fetched == [dev EXCEPT !.fullOutput = Top.reply.report]
           parsed  == FullParsed(fetched, parser, defaultFormat)
       IN IF ParserExists(parser, defaultFormat)
             /\ Parses(parser, defaultFormat, Top.reply.report)
          THEN /\ Signal(parsed)
               /\ lastOk' = TRUE
               /\ IF Top.then = "open" THEN ShowWindow(parsed) ELSE UNCHANGED window
          ELSE /\ NoSignal(Cleared(fetched))
               /\ lastOk' = FALSE
               /\ UNCHANGED window
    /\ Return
    /\ UNCHANGED <<testIsActive, fixed, external>>

\* A full fetch whose command failed: its output is dropped.
FullFails ==
    /\ Ended({"full"}, {"error"})
    /\ NoSignal(dev) /\ lastOk' = FALSE
    /\ Return
    /\ UNCHANGED <<testIsActive, window, fixed, external>>

\* Mutation: the data are read again only if the command worked.
SwitchReturnsIfOk ==
    /\ Ended({"smartOn", "smartOff"}, Results \ {None}) /\ Top.then = "reread"
    /\ IF testIsActive \/ Top.reply.result # "ok"
       THEN NoSignal(dev) /\ Return
       ELSE StartBasic(dev, Below, 0)
    /\ UNCHANGED <<testIsActive, window, lastOk, fixed, external>>

\* on_action_enable_smart_toggled() reads the data again, whether the command worked or not;
\* on_action_reread_device_data() does nothing during a test.
SwitchReturns ==
    /\ Ended({"smartOn", "smartOff"}, Results \ {None}) /\ Top.then = "reread"
    /\ IF testIsActive
       THEN NoSignal(dev) /\ Return
       ELSE StartBasic(dev, Below, 0)
    /\ UNCHANGED <<testIsActive, window, lastOk, fixed, external>>

\* on_action_reread_device_data() reads the drive that is selected then: a hasty user may
\* have selected another one before the dialog of the command was shown.
SwitchReturnsElsewhere ==
    /\ Ended({"smartOn", "smartOff"}, Results \ {None}) /\ Top.then = "reread" /\ Hasty
    /\ NoSignal(dev)
    /\ calls' = Below /\ disturbed' = TRUE
    /\ UNCHANGED <<testIsActive, window, lastOk, fixed, external>>

\* show_device_info_window() goes on, whether SMART was enabled or not.
EnablingReturns ==
    /\ Ended({"smartOn"}, Results \ {None}) /\ Top.then = "open"
    /\ FetchAndShow(Below)
    /\ UNCHANGED <<testIsActive, fixed, external>>

-----------------------------------------------------------------------------
(* Tests, and the drive.                                                   *)

\* set_test_is_active() of a test that the window starts, or that ends.
SetTestIsActive ==
    /\ window /\ ~isVirtual /\ (calls = <<>> \/ Hasty)
    /\ testIsActive' = ~testIsActive
    /\ Signal(dev)
    /\ disturbed' = (disturbed \/ calls # <<>>)
    /\ UNCHANGED <<calls, window, lastOk, fixed, external>>

\* Another drive is plugged in, and gets the same device name.
DriveReplaced ==
    /\ ~isVirtual /\ swaps < MaxSwaps
    /\ medium' \in Drives \ {medium}
    /\ smartOn' \in BOOLEAN
    /\ swaps' = swaps + 1
    /\ disturbed' = TRUE
    /\ UNCHANGED <<dev, testIsActive, calls, window, view, lastOk, fixed>>

-----------------------------------------------------------------------------

Init ==
    /\ isVirtual \in BOOLEAN /\ defaultFormat \in Formats
    /\ \E typeArg \in TypeArgs :
        /\ isVirtual => typeArg = ""
        /\ dev = Constructed(typeArg)
        /\ view = ViewOf(Constructed(typeArg))
    /\ medium \in Drives /\ smartOn \in BOOLEAN
    /\ testIsActive = FALSE /\ calls = <<>> /\ window = FALSE /\ swaps = 0
    /\ disturbed = FALSE /\ lastOk = TRUE

User == Reread \/ ToggleSmart \/ OpenEnabling \/ Open \/ Refresh \/ LoadVirtual \/ SetTestIsActive

CallReturns ==
    BasicRetries \/ BasicReturns \/ FullReturns \/ FullFails
    \/ SwitchReturns \/ SwitchReturnsElsewhere \/ EnablingReturns

Next ==
    \/ User \/ CallReturns \/ DriveReplaced
    \/ \E i \in 1 .. MaxDepth : CommandRuns(i)

Spec == Init /\ [][Next]_vars

-----------------------------------------------------------------------------


\* Types of the variables.
TypeOK ==
    /\ dev \in Device /\ view \in Views /\ calls \in Seq(Call) /\ Len(calls) <= MaxDepth
    /\ {testIsActive, isVirtual, window, smartOn, disturbed, lastOk} \subseteq BOOLEAN
    /\ defaultFormat \in Formats /\ medium \in Drives /\ swaps \in 0 .. MaxSwaps

\* The full data are never asked for before the type of the drive is known, as
\* fetch_full_data_and_parse() asserts twice; with JSON, whatever fails before.
FullFetchKnowsType ==
    defaultFormat = "json" =>
        \A call \in ToSet(calls) :
            call.cmd = "full" => call.type \notin {"Unknown", "NeedsExplicitType"}

\* get_health_property() never returns what it cached from data that are gone.
HealthIsCurrent == dev.health \in {None, dev.properties.health}

\* An object without data has no SMART to switch or to read: the check box and the full
\* fetch wait for the next basic one.
NoDataNoSmart ==
    ~isVirtual /\ defaultFormat = "json" /\ dev.parseStatus = "None" =>
        SmartStatus(dev) = "Unsupported"

\* fetch_basic_data_and_parse() calls itself at most once, whatever smartctl answers, also if
\* calls on the same object are nested into its commands.
RetriesOnce == \A call \in ToSet(calls) : call.tries <= 1

\* Between calls, what the icon shows is what the object holds, unless the last fetch
\* failed: then the object is empty, and the icon still shows the data before.
ViewsShowData == calls = <<>> /\ lastOk => view = ViewOf(dev)

\* If data were read undisturbed, SMART is shown as enabled exactly if it is enabled,
\* whatever the commands that have switched it said.
ShownSmartIsTrue ==
    calls = <<>> /\ ~disturbed /\ ~isVirtual /\ dev.parseStatus # "None" =>
        (SmartStatus(dev) = "Enabled" <=> HasSmart(medium, dev.typeArg) /\ smartOn)

\* What on_save_info_button_clicked() and on_view_output_button_clicked() take.
Saved == IF dev.fullOutput # EmptyReport THEN dev.fullOutput ELSE dev.basicOutput

\* What the user saves is what the properties on the screen were parsed from.
SavedIsShown ==
    calls = <<>> /\ ~disturbed /\ dev.parseStatus # "None" =>
        \E parser \in ParserType, format \in Format :
            /\ Parses(parser, format, Saved)
            /\ dev.properties = PropertiesOf(parser, format, Saved)

\* A drive that says it is failing is shown as failing once its full data are parsed.
FailingDriveIsFlagged ==
    calls = <<>> /\ dev.parseStatus = "Full" /\ dev.fullOutput.health = "no" =>
        HealthOf(dev) = "no"

\* The serial number shown belongs to the data shown.
SerialIsCurrent == calls = <<>> /\ lastOk => dev.serialNumber = dev.properties.serial
=============================================================================

--------------------------- MODULE SmartctlReport ---------------------------
(***************************************************************************)
(* What smartctl prints of a drive, reduced to what StorageDevice tells    *)
(* apart, and what the parsers of src/applib make of it: the properties    *)
(* that lookup_property() finds in the repository of a parser.  Pure       *)
(* operators; StorageDevice keeps the state.                               *)
(***************************************************************************)

CONSTANTS
    Serial      \* serial numbers of drives

None == "none"  \* a line or a key that is not there

ASSUME SerialAssumption == None \notin Serial

Answer == {"yes", "no", None}

Format == {"json", "text"}

\* What the output says of the kind of the drive: device/type and device/protocol in
\* JSON, "ATA Version is", "this device: CD/DVD" and "Product: Raid" in text.
Kind == {"ata", "nvme", "scsi", "cd", "raid", None}

\* The output of one command.  "broken" is JSON cut off by a signal; "asks" that it
\* contains "specify device type with the -d option"; tests that there is a self-test log.
Report == [format: Format \cup {"broken", "empty"}, asks: BOOLEAN,
           kind: Kind, rotates: BOOLEAN, serial: Serial \cup {None}, model: BOOLEAN,
           available: Answer, enabled: Answer, health: Answer, tests: BOOLEAN]

\* An output without anything about the drive: the banner and, perhaps, an error.
Banner(format, asks) ==
    [format |-> format, asks |-> asks, kind |-> None, rotates |-> FALSE, serial |-> None,
     model |-> FALSE, available |-> None, enabled |-> None, health |-> None, tests |-> FALSE]

EmptyReport == Banner("empty", FALSE)

-----------------------------------------------------------------------------
(* Formats and parsers.                                                    *)

ParserType == {"Basic", "Ata", "Nvme"}

DetectedType == {"Unknown", "NeedsExplicitType", "AtaHdd", "AtaSsd", "Nvme", "BasicScsi",
                 "CdDvd", "UnsupportedRaid"}

\* detect_output_format(): the first character, or "smartctl" at the beginning; None stands
\* for its error.
DetectedFormat(report) ==
    IF report.format \in {"json", "broken"} THEN "json"
    ELSE IF report.format = "text" THEN "text" ELSE None

\* SmartctlVersionParser::get_default_parser_type()
ParserFor(type) ==
    IF type \in {"AtaHdd", "AtaSsd"} THEN "Ata" ELSE IF type = "Nvme" THEN "Nvme" ELSE "Basic"

\* SmartctlParser::create() returns no parser for the text of NVMe drives.
ParserExists(parser, format) == ~(parser = "Nvme" /\ format = "text")

\* parse() succeeds.  A JSON parser wants valid JSON of a known version; the text parsers
\* look for the banner, and the one for ATA drives for a section it can parse.
Parses(parser, format, report) ==
    /\ report.format = format
    /\ parser = "Ata" /\ format = "text" => report.model

-----------------------------------------------------------------------------
(* Properties, as lookup_property() finds them in a repository.            *)

Properties == [kind: Kind, rotates: BOOLEAN, serial: Serial \cup {None}, model: BOOLEAN,
               available: Answer, enabled: Answer, health: Answer, tests: BOOLEAN]

NoProperties ==
    [kind |-> None, rotates |-> FALSE, serial |-> None, model |-> FALSE, available |-> None,
     enabled |-> None, health |-> None, tests |-> FALSE]

\* The JSON parsers find what is there.  A RAID volume is a SCSI device to them; only the
\* specialised ones read the self-test log.
JsonProperties(parser, report) ==
    [kind |-> IF report.kind = "raid" THEN "scsi" ELSE report.kind,
     rotates |-> report.rotates, serial |-> report.serial, model |-> report.model,
     available |-> report.available, enabled |-> report.enabled, health |-> report.health,
     tests |-> parser # "Basic" /\ report.tests]

\* The basic text parser supposes that SMART is supported and enabled unless it reads
\* otherwise.  It knows ATA drives, discs and RAID volumes, and looks for no health.
TextBasicProperties(report) ==
    LET unavailable == report.kind = "raid" \/ report.available = "no"
        disabled    == report.available = "yes" /\ report.enabled = "no"
    IN [kind |-> IF report.kind \in {"ata", "cd", "raid"} THEN report.kind ELSE None,
        rotates |-> report.rotates, serial |-> report.serial, model |-> report.model,
        available |-> IF unavailable THEN "no" ELSE "yes",
        enabled |-> IF unavailable \/ disabled THEN "no" ELSE "yes",
        health |-> None, tests |-> FALSE]

\* The text parser for ATA drives names no kind.  It files the health under the name
\* smartctl prints (set_name(name, "smart_status/passed", ...) where the generic name
\* comes first), so that a lookup of "smart_status/passed" finds nothing.
TextAtaProperties(report) ==
    [kind |-> None, rotates |-> report.rotates, serial |-> report.serial,
     model |-> report.model, available |-> report.available, enabled |-> report.enabled,
     health |-> None, tests |-> report.tests]

\* The repository of a parser that has parsed the report.
PropertiesOf(parser, format, report) ==
    IF format = "json" THEN JsonProperties(parser, report)
    ELSE IF parser = "Basic" THEN TextBasicProperties(report) ELSE TextAtaProperties(report)

\* The types that detect_drive_type_from_properties() derives from a kind.
TypeOfKind == [nvme |-> "Nvme", scsi |-> "BasicScsi", cd |-> "CdDvd", raid |-> "UnsupportedRaid"]

\* detect_drive_type_from_properties(): a drive whose kind is not told keeps its type, and
\* gets BasicScsi if it had none.
TypeFrom(type, properties) ==
    IF properties.kind = "ata" THEN IF properties.rotates THEN "AtaHdd" ELSE "AtaSsd"
    ELSE IF properties.kind # None THEN TypeOfKind[properties.kind]
    ELSE IF type = "Unknown" THEN "BasicScsi" ELSE type

-----------------------------------------------------------------------------
(* smartctl and the drive behind a device name.                            *)

\* A stick stands for a USB device that smartctl reads only with "-d scsi".
Class == {"hdd", "ssd", "nvme", "stick", "disc", "volume"}
Medium == [class: Class, serial: Serial, healthy: BOOLEAN]

HasSmart(medium, typeArg) == medium.class \in {"hdd", "ssd", "nvme"} /\ typeArg # "scsi"

KindOfClass == [hdd |-> "ata", ssd |-> "ata", nvme |-> "nvme", stick |-> "scsi",
                disc |-> "cd", volume |-> "raid"]

YesNo(b) == IF b THEN "yes" ELSE "no"

\* What smartctl prints of a drive it can read: on says that SMART is enabled on it, full
\* that the logs were asked for.
Described(medium, on, typeArg, full, format) ==
    LET smart == HasSmart(medium, typeArg)
    IN [format |-> format, asks |-> FALSE,
        kind |-> IF typeArg = "scsi" /\ medium.class \in {"hdd", "ssd"}
                 THEN "scsi" ELSE KindOfClass[medium.class],
        rotates |-> medium.class = "hdd",
        serial |-> IF smart THEN medium.serial ELSE None,
        model |-> TRUE,
        available |-> YesNo(smart),
        enabled |-> IF smart THEN YesNo(on) ELSE None,
        health |-> IF smart /\ on THEN YesNo(medium.healthy) ELSE None,
        tests |-> full /\ smart /\ on]

\* What a command may print: the drive, or a request for "-d".  When commands fail, smartctl
\* may print nothing, the banner only, half of its JSON, or even everything.
Printed(medium, on, typeArg, full, format) ==
    IF medium.class = "stick" /\ typeArg # "scsi"
    THEN [result |-> "error", report |-> Banner(format, TRUE)]
    ELSE [result |-> "ok", report |-> Described(medium, on, typeArg, full, format)]

FailedPrints(medium, on, typeArg, full, format) ==
    [result: {"error"},
     report: {EmptyReport, Banner(format, FALSE), Printed(medium, on, typeArg, full, format).report}
             \cup (IF format = "json" THEN {Banner("broken", FALSE)} ELSE {})]
=============================================================================

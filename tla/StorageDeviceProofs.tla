------------------------ MODULE StorageDeviceProofs -------------------------
(***************************************************************************)
(* Theorems about StorageDevice, for any drives, any nesting of calls and  *)
(* any number of replacements.  Every step is an evolution of the object:  *)
(* its members keep their types, the cached health fits the properties, a  *)
(* "-d" argument stays and a type that is known stays known.  What is      *)
(* between the members and the calls in progress is added to that; and, of *)
(* data that were read undisturbed, what they have to do with the outputs  *)
(* and with the drive.                                                     *)
(***************************************************************************)
EXTENDS StorageDevice, TLAPS

\* The types that tell which parser and which actions fit the drive.
KnownType == DetectedType \ {"Unknown", "NeedsExplicitType"}

\* There is a "-d" argument.
HasType(d) == d.typeArg # ""

\* What a caller may do next.
Thens == {"", "reread", "open"}

\* The cached health is that of the properties.
HealthFits(d) == d.health \in {None, d.properties.health}

\* The object e is one that the object d may become.
Evolves(d, e) ==
    /\ e \in Device
    /\ HealthFits(e)
    /\ HasType(d) => e.typeArg = d.typeArg
    /\ d.detectedType \in KnownType => e.detectedType \in KnownType

-----------------------------------------------------------------------------
(* The operators on reports.                                               *)

\* Whatever a command prints, its output is a report.
LEMMA DescribedType ==
    ASSUME NEW m \in Medium, NEW on \in BOOLEAN, NEW arg, NEW full \in BOOLEAN,
           NEW format \in Format
    PROVE  Described(m, on, arg, full, format) \in Report
<1>1. KindOfClass[m.class] \in Kind
    BY DEF Medium, Class, KindOfClass, Kind
<1>2. m.serial \in Serial /\ m.class \in Class /\ m.healthy \in BOOLEAN
    BY DEF Medium
<1>3. HasSmart(m, arg) \in BOOLEAN
    BY DEF HasSmart
<1>4. \A b \in BOOLEAN : YesNo(b) \in Answer
    BY DEF YesNo, Answer
<1>5. "scsi" \in Kind /\ None \in Answer
    BY DEF Kind, Answer
<1>. DEFINE smart == HasSmart(m, arg)
            kind == IF arg = "scsi" /\ m.class \in {"hdd", "ssd"} THEN "scsi"
                    ELSE KindOfClass[m.class]
            enabled == IF smart THEN YesNo(on) ELSE None
            health == IF smart /\ on THEN YesNo(m.healthy) ELSE None
            serial == IF smart THEN m.serial ELSE None
<1>6. kind \in Kind /\ enabled \in Answer /\ health \in Answer
      /\ serial \in Serial \cup {None} /\ YesNo(smart) \in Answer
    BY <1>1, <1>2, <1>3, <1>4, <1>5
<1>7. Described(m, on, arg, full, format) =
        [format |-> format, asks |-> FALSE, kind |-> kind, rotates |-> m.class = "hdd",
         serial |-> serial, model |-> TRUE, available |-> YesNo(smart),
         enabled |-> enabled, health |-> health, tests |-> full /\ smart /\ on]
    BY DEF Described
<1>. HIDE DEF smart, kind, enabled, health, serial
<1>8. smart \in BOOLEAN
    BY <1>3 DEF smart
<1>. QED BY <1>6, <1>7, <1>8 DEF Report

\* So is a banner.
LEMMA BannerType ==
    ASSUME NEW format \in Format \cup {"broken", "empty"}, NEW asks \in BOOLEAN
    PROVE  Banner(format, asks) \in Report
BY DEF Banner, Report, Kind, Answer

\* What the parsers find are properties.
LEMMA PropertiesType ==
    ASSUME NEW parser, NEW format, NEW report \in Report
    PROVE  PropertiesOf(parser, format, report) \in Properties
<1>1. JsonProperties(parser, report) \in Properties
    BY DEF JsonProperties, Properties, Report, Kind
<1>2. TextBasicProperties(report) \in Properties
    BY DEF TextBasicProperties, Properties, Report, Kind, Answer
<1>3. TextAtaProperties(report) \in Properties
    BY DEF TextAtaProperties, Properties, Report, Kind, Answer
<1>. QED BY <1>1, <1>2, <1>3 DEF PropertiesOf

\* detect_drive_type_from_properties() yields a type, a known one if it knew one before or
\* the parser tells the kind.
LEMMA TypeFromType ==
    ASSUME NEW type \in DetectedType, NEW p \in Properties
    PROVE  /\ TypeFrom(type, p) \in DetectedType
           /\ type \in KnownType => TypeFrom(type, p) \in KnownType
           /\ p.kind # None => TypeFrom(type, p) \in KnownType
<1>1. p.kind \in Kind
    BY DEF Properties
<1>2. p.kind \notin {None, "ata"} => TypeOfKind[p.kind] \in KnownType
    BY <1>1 DEF Kind, TypeOfKind, KnownType, DetectedType
<1>. QED BY <1>1, <1>2 DEF TypeFrom, KnownType, DetectedType

\* A report in JSON, or none: a model tells of a kind, and without one there is no word
\* about SMART.
Telling(report) ==
    /\ report.format # "text"
    /\ report.model => report.kind # None
    /\ ~report.model => report.available = None /\ report.enabled = None

\* What smartctl prints in JSON of a drive it can read tells of a kind.
LEMMA DescribedTells ==
    ASSUME NEW m \in Medium, NEW on, NEW arg, NEW full
    PROVE  Telling(Described(m, on, arg, full, "json"))
<1>1. KindOfClass[m.class] # None
    BY DEF Medium, Class, KindOfClass, None
<1>2. /\ Described(m, on, arg, full, "json").format = "json"
      /\ Described(m, on, arg, full, "json").model = TRUE
      /\ Described(m, on, arg, full, "json").kind # None
    BY <1>1 DEF Described, None
<1>. QED BY <1>2 DEF Telling

\* A banner, half of a JSON document and an empty output tell of nothing.
LEMMA BannerTells ==
    ASSUME NEW format \in {"json", "broken", "empty"}, NEW asks
    PROVE  Telling(Banner(format, asks))
BY DEF Telling, Banner

\* The replies of a fetch.
LEMMA PrintedType ==
    ASSUME NEW m \in Medium, NEW on \in BOOLEAN, NEW arg, NEW full \in BOOLEAN,
           NEW format \in Format,
           NEW reply \in {Printed(m, on, arg, full, format)}
                            \cup FailedPrints(m, on, arg, full, format)
    PROVE  /\ reply \in [result: {"ok", "error"}, report: Report]
           /\ format = "json" => Telling(reply.report)
<1>1. /\ Described(m, on, arg, full, format) \in Report
      /\ format = "json" => Telling(Described(m, on, arg, full, format))
    BY DescribedType, DescribedTells
<1>2. \A f \in {format, "broken", "empty"}, asks \in BOOLEAN : Banner(f, asks) \in Report
    BY BannerType
<1>3. format = "json" =>
        \A f \in {format, "broken", "empty"}, asks \in BOOLEAN : Telling(Banner(f, asks))
    BY BannerTells
<1>4. Printed(m, on, arg, full, format) =
        IF m.class = "stick" /\ arg # "scsi"
        THEN [result |-> "error", report |-> Banner(format, TRUE)]
        ELSE [result |-> "ok", report |-> Described(m, on, arg, full, format)]
    BY DEF Printed
<1>5. /\ Printed(m, on, arg, full, format) \in [result: {"ok", "error"}, report: Report]
      /\ format = "json" => Telling(Printed(m, on, arg, full, format).report)
    <2>. DEFINE banner == Banner(format, TRUE)
                described == Described(m, on, arg, full, format)
                printed == Printed(m, on, arg, full, format)
    <2>1. banner \in Report /\ (format = "json" => Telling(banner))
        BY <1>2, <1>3
    <2>2. described \in Report /\ (format = "json" => Telling(described))
        BY <1>1
    <2>3. printed \in {[result |-> "error", report |-> banner],
                       [result |-> "ok", report |-> described]}
        BY <1>4
    <2>. HIDE DEF banner, described, printed
    <2>4. \/ printed = [result |-> "error", report |-> banner] /\ printed.report = banner
          \/ printed = [result |-> "ok", report |-> described] /\ printed.report = described
        BY <2>3
    <2>5. printed \in [result: {"ok", "error"}, report: Report]
        BY <2>1, <2>2, <2>4
    <2>6. printed.report \in {banner, described}
        BY <2>4
    <2>7. format = "json" => Telling(printed.report)
        <3>. SUFFICES ASSUME format = "json" PROVE Telling(printed.report)
            OBVIOUS
        <3>1. CASE printed.report = banner
            BY <2>1, <3>1, Zenon
        <3>2. CASE printed.report = described
            BY <2>2, <3>2, Zenon
        <3>. QED BY <2>6, <3>1, <3>2
    <2>. QED BY <2>5, <2>7 DEF printed
<1>6. ASSUME reply \in FailedPrints(m, on, arg, full, format)
      PROVE  /\ reply.result = "error" /\ reply = [result |-> reply.result, report |-> reply.report]
             /\ \/ reply.report = Printed(m, on, arg, full, format).report
                \/ \E f \in {format, "broken", "empty"}, asks \in BOOLEAN :
                        reply.report = Banner(f, asks)
    <2>1. reply.report \in {EmptyReport, Banner(format, FALSE), Banner("broken", FALSE),
                            Printed(m, on, arg, full, format).report}
        BY <1>6 DEF FailedPrints
    <2>2. reply.result = "error" /\ reply = [result |-> reply.result, report |-> reply.report]
        BY <1>6 DEF FailedPrints
    <2>. QED BY <2>1, <2>2 DEF EmptyReport
<1>7. Printed(m, on, arg, full, format).report \in Report
    BY <1>5
<1>8. CASE reply \in FailedPrints(m, on, arg, full, format)
    <2>1. reply.report \in Report
        BY <1>8, <1>6, <1>7, <1>2
    <2>2. format = "json" => Telling(reply.report)
        BY <1>8, <1>6, <1>5, <1>3
    <2>. QED BY <1>8, <1>6, <2>1, <2>2
<1>. QED BY <1>5, <1>8

-----------------------------------------------------------------------------
(* The operators on the object.                                            *)

\* An object may stay as it is, and
LEMMA EvolvesReflexive ==
    ASSUME NEW d \in Device, HealthFits(d) PROVE Evolves(d, d)
BY DEF Evolves

\* what it may become in two steps it may become in one.
LEMMA EvolvesTransitive ==
    ASSUME NEW d, NEW e, NEW f, Evolves(d, e), Evolves(e, f) PROVE Evolves(d, f)
BY DEF Evolves, HasType

\* clear_parse_results() takes the data and the cached health, and leaves the type.
LEMMA ClearedEvolves ==
    ASSUME NEW d \in Device
    PROVE  /\ Evolves(d, Cleared(d))
           /\ Cleared(d).typeArg = d.typeArg
           /\ Cleared(d).detectedType = d.detectedType
           /\ Cleared(d).parseStatus = "None" /\ Cleared(d).common = NoCommon
<1>1. NoProperties \in Properties /\ NoCommon \in Common /\ "None" \in ParseStatus
    BY DEF NoProperties, Properties, NoCommon, Common, ParseStatus, Kind, Answer
<1>2. None \in Answer
    BY DEF Answer
<1>3. Cleared(d) \in Device
    BY <1>1, <1>2 DEF Cleared, Device
<1>4. /\ Cleared(d).typeArg = d.typeArg /\ Cleared(d).detectedType = d.detectedType
      /\ Cleared(d).parseStatus = "None" /\ Cleared(d).common = NoCommon
      /\ Cleared(d).health = None
    BY DEF Cleared, Device
<1>. QED BY <1>3, <1>4 DEF Evolves, HealthFits

\* clear_outputs() takes nothing but the outputs.
LEMMA OutputsClearedEvolves ==
    ASSUME NEW d \in Device, HealthFits(d)
    PROVE  /\ Evolves(d, OutputsCleared(d))
           /\ OutputsCleared(d).typeArg = d.typeArg
           /\ OutputsCleared(d).detectedType = d.detectedType
           /\ OutputsCleared(d).parseStatus = d.parseStatus
           /\ OutputsCleared(d).common = d.common
<1>1. EmptyReport \in Report
    BY BannerType DEF EmptyReport
<1>2. OutputsCleared(d) \in Device
    BY <1>1 DEF OutputsCleared, Device
<1>. QED BY <1>2 DEF OutputsCleared, Device, Evolves, HealthFits

\* What the object u knows after the common part of a parse of d that has found p.
Knows(d, u, p) ==
    /\ u \in Device /\ u.health = None /\ u.typeArg = d.typeArg
    /\ d.detectedType \in KnownType => u.detectedType \in KnownType
    /\ u.common = [available |-> p.available, enabled |-> p.enabled, model |-> p.model]
    /\ p.kind # None => u.detectedType \in KnownType

\* The common part of a parse leaves no cached health, and finds the type if the output tells it.
LEMMA UnderstoodKnows ==
    ASSUME NEW d \in Device, NEW parser, NEW format, NEW report \in Report
    PROVE  Knows(d, Understood(Cleared(d), parser, format, report),
                 PropertiesOf(parser, format, report))
<1>. DEFINE u == Understood(Cleared(d), parser, format, report)
            c == Cleared(d)
            p == PropertiesOf(parser, format, report)
            t == TypeFrom(c.detectedType, p)
            common == [available |-> p.available, enabled |-> p.enabled, model |-> p.model]
            serial == IF p.serial = None THEN c.serialNumber ELSE p.serial
<1>1. c \in Device /\ c.detectedType = d.detectedType /\ c.typeArg = d.typeArg /\ c.health = None
    BY ClearedEvolves DEF Evolves, Cleared, Device
<1>2. p \in Properties
    BY PropertiesType
<1>3. c.detectedType \in DetectedType
    BY <1>1 DEF Device
<1>4. /\ t \in DetectedType
      /\ c.detectedType \in KnownType => t \in KnownType
      /\ p.kind # None => t \in KnownType
    BY <1>2, <1>3, TypeFromType
<1>5. common \in Common /\ serial \in Serial \cup {None}
    BY <1>1, <1>2 DEF Common, Properties, Device
<1>. HIDE DEF p, t, c
<1>6. u = [c EXCEPT !.properties = p, !.detectedType = t, !.common = common,
                    !.serialNumber = serial]
    BY <1>1 DEF Understood, CommonRead, Device, p, t, c
<1>. HIDE DEF common, serial, u
<1>7. u \in Device
    BY <1>1, <1>2, <1>4, <1>5, <1>6 DEF Device
<1>8. /\ u.health = None /\ u.typeArg = d.typeArg /\ u.detectedType = t /\ u.common = common
      /\ u.properties = p
    BY <1>1, <1>6 DEF Device
<1>9. Knows(d, u, p)
    BY <1>1, <1>4, <1>7, <1>8 DEF Knows, common
<1>. QED BY <1>9 DEF u, p

\* The same with a status, which the three parses add.
LEMMA UnderstoodEvolves ==
    ASSUME NEW d \in Device, NEW parser, NEW format, NEW report \in Report,
           NEW status \in ParseStatus
    PROVE  Evolves(d, [Understood(Cleared(d), parser, format, report)
                        EXCEPT !.parseStatus = status])
<1>. DEFINE u == Understood(Cleared(d), parser, format, report)
<1>0. Knows(d, u, PropertiesOf(parser, format, report))
    BY UnderstoodKnows
<1>. HIDE DEF u
<1>1. /\ u \in Device /\ u.health = None /\ u.typeArg = d.typeArg
      /\ d.detectedType \in KnownType => u.detectedType \in KnownType
    BY <1>0 DEF Knows
<1>. DEFINE v == [u EXCEPT !.parseStatus = status]
<1>2. /\ v \in Device /\ v.health = None /\ v.typeArg = d.typeArg
      /\ v.detectedType = u.detectedType
    BY <1>1 DEF Device
<1>3. Evolves(d, v)
    BY <1>1, <1>2 DEF Evolves, HealthFits
<1>. QED BY <1>3 DEF u

\* After parse_basic_data() of telling JSON, there is either no word about SMART or a known type.
LEMMA BasicParsedEvolves ==
    ASSUME NEW d \in Device, d.basicOutput \in Report
    PROVE  /\ Evolves(d, BasicParsed(d))
           /\ BasicFormat(d.basicOutput) = "json" /\ Telling(d.basicOutput) =>
                IF BasicParsed(d).parseStatus = "None"
                THEN /\ BasicParsed(d).common.available = None
                     /\ BasicParsed(d).common.enabled = None
                ELSE BasicParsed(d).detectedType \in KnownType
<1>. DEFINE report == d.basicOutput
            format == BasicFormat(report)
            p == PropertiesOf("Basic", format, report)
            u == Understood(Cleared(d), "Basic", format, report)
            status == IF u.common.model THEN "Basic" ELSE "None"
<1>1. status \in ParseStatus
    BY DEF ParseStatus
<1>2. BasicParsed(d) = [u EXCEPT !.parseStatus = status]
    BY DEF BasicParsed
<1>. HIDE DEF u, status
<1>3. /\ Evolves(d, [u EXCEPT !.parseStatus = status])
      /\ u \in Device
      /\ u.common = [available |-> p.available, enabled |-> p.enabled, model |-> p.model]
      /\ p.kind # None => u.detectedType \in KnownType
    <2>1. Evolves(d, [u EXCEPT !.parseStatus = status])
        BY <1>1, UnderstoodEvolves DEF u
    <2>2. Knows(d, u, p)
        BY UnderstoodKnows DEF u
    <2>. HIDE DEF p
    <2>. QED BY <2>1, <2>2 DEF Knows
<1>4. /\ BasicParsed(d).parseStatus = status /\ BasicParsed(d).common = u.common
      /\ BasicParsed(d).detectedType = u.detectedType
    BY <1>2, <1>3 DEF Device
<1>5. ASSUME format = "json", Telling(report)
      PROVE  IF status = "None" THEN u.common.available = None /\ u.common.enabled = None
             ELSE u.detectedType \in KnownType
    <2>1. /\ p.model = report.model /\ p.available = report.available
          /\ p.enabled = report.enabled
          /\ report.kind # None => p.kind # None
        BY <1>5 DEF p, PropertiesOf, JsonProperties, None
    <2>. HIDE DEF p
    <2>2. CASE report.model
        BY <1>3, <1>5, <2>1, <2>2 DEF status, Telling
    <2>3. CASE ~report.model
        BY <1>3, <1>5, <2>1, <2>3 DEF status, Telling
    <2>. QED BY <2>2, <2>3
<1>. QED BY <1>2, <1>3, <1>4, <1>5

\* parse_full_data() leaves the object with a status.
LEMMA FullParsedEvolves ==
    ASSUME NEW d \in Device, d.fullOutput \in Report, NEW parser, NEW format
    PROVE  /\ Evolves(d, FullParsed(d, parser, format))
           /\ FullParsed(d, parser, format).parseStatus # "None"
<1>. DEFINE u == Understood(Cleared(d), parser, format, d.fullOutput)
            status == IF parser = "Basic" THEN "Basic" ELSE "Full"
<1>1. status \in ParseStatus \ {"None"}
    BY DEF ParseStatus
<1>2. FullParsed(d, parser, format) = [u EXCEPT !.parseStatus = status]
    BY DEF FullParsed
<1>. HIDE DEF u, status
<1>3. Evolves(d, [u EXCEPT !.parseStatus = status]) /\ u \in Device
    <2>1. Evolves(d, [u EXCEPT !.parseStatus = status])
        BY <1>1, UnderstoodEvolves DEF u
    <2>2. Knows(d, u, PropertiesOf(parser, format, d.fullOutput))
        BY UnderstoodKnows DEF u
    <2>. QED BY <2>1, <2>2 DEF Knows
<1>4. [u EXCEPT !.parseStatus = status].parseStatus = status
    BY <1>3 DEF Device
<1>. QED BY <1>1, <1>2, <1>3, <1>4

\* Parsing a file is an evolution, whether the specialised parser can read it or not.
LEMMA VirtualParsedEvolves ==
    ASSUME NEW d \in Device, d.fullOutput \in Report
    PROVE  Evolves(d, VirtualParsed(d))
<1>. DEFINE format == DetectedFormat(d.fullOutput)
            basic  == Understood(Cleared(d), "Basic", format, d.fullOutput)
            parser == ParserFor(basic.detectedType)
            p      == PropertiesOf(parser, format, d.fullOutput)
            full   == [basic EXCEPT !.parseStatus = "Full", !.properties = p]
            half   == [basic EXCEPT !.parseStatus = "Basic"]
<1>1. VirtualParsed(d) \in {full, half}
    BY DEF VirtualParsed
<1>2. p \in Properties
    BY PropertiesType
<1>. HIDE DEF basic, p
<1>3. "Basic" \in ParseStatus /\ "Full" \in ParseStatus
    BY DEF ParseStatus
<1>4. /\ basic \in Device /\ basic.health = None /\ basic.typeArg = d.typeArg
      /\ d.detectedType \in KnownType => basic.detectedType \in KnownType
    <2>1. Knows(d, basic, PropertiesOf("Basic", format, d.fullOutput))
        BY UnderstoodKnows DEF basic
    <2>. QED BY <2>1 DEF Knows
<1>5. Evolves(d, half)
    BY <1>3, UnderstoodEvolves DEF basic
<1>6. full \in Device /\ full.health = None /\ full.typeArg = d.typeArg
      /\ full.detectedType = basic.detectedType
    BY <1>2, <1>3, <1>4 DEF Device
<1>7. Evolves(d, full)
    BY <1>4, <1>6 DEF Evolves, HealthFits
<1>. QED BY <1>1, <1>5, <1>7

\* Asking for the health, as decorating the icon does, changes nothing but the cache.
LEMMA HealthAskedEvolves ==
    ASSUME NEW d \in Device, HealthFits(d)
    PROVE  /\ Evolves(d, HealthAsked(d))
           /\ HealthAsked(d).parseStatus = d.parseStatus
           /\ HealthAsked(d).common = d.common
           /\ HealthAsked(d).detectedType = d.detectedType
           /\ HealthAsked(d).typeArg = d.typeArg
           /\ ViewOf(d) \in Views
<1>1. HealthOf(d) \in Answer /\ HealthOf(d) \in {None, d.properties.health}
    BY DEF HealthOf, HealthFits, Device, Properties
<1>2. HealthAsked(d) = [d EXCEPT !.health = HealthOf(d)]
    BY DEF HealthAsked
<1>. DEFINE h == HealthOf(d)
<1>. HIDE DEF h
<1>3. HealthAsked(d) = [d EXCEPT !.health = h] /\ h \in Answer /\ h \in {None, d.properties.health}
    BY <1>1, <1>2 DEF h
<1>4. HealthAsked(d) \in Device
    BY <1>3 DEF Device
<1>5. /\ HealthAsked(d).health = h /\ HealthAsked(d).properties = d.properties
      /\ HealthAsked(d).parseStatus = d.parseStatus
      /\ HealthAsked(d).common = d.common
      /\ HealthAsked(d).detectedType = d.detectedType
      /\ HealthAsked(d).typeArg = d.typeArg
    BY <1>3 DEF Device
<1>6. Evolves(d, HealthAsked(d))
    BY <1>3, <1>4, <1>5 DEF Evolves, HealthFits
<1>7. SmartStatus(d) \in SmartStatusType
    BY DEF SmartStatus, SmartStatusType
<1>8. ViewOf(d) \in Views
    BY <1>1, <1>7 DEF ViewOf, Views, Device, Common
<1>. QED BY <1>5, <1>6, <1>8

\* Setting "-d scsi" is one for an object that has no argument.
LEMMA WithTypeEvolves ==
    ASSUME NEW d \in Device, HealthFits(d), ~HasType(d)
    PROVE  Evolves(d, WithType(d)) /\ WithType(d).typeArg = "scsi"
<1>1. "BasicScsi" \in KnownType
    BY DEF KnownType, DetectedType
<1>2. WithType(d) \in Device /\ WithType(d).typeArg = "scsi"
      /\ WithType(d).detectedType = "BasicScsi" /\ WithType(d).health = d.health
      /\ WithType(d).properties = d.properties
    BY DEF WithType, Device, DetectedType
<1>. QED BY <1>1, <1>2 DEF Evolves, HealthFits

-----------------------------------------------------------------------------
(* What the members of the object have to do with each other and with the  *)
(* calls.  "told": the object is of a drive, and smartctl speaks JSON.     *)

\* Without data there is no word about SMART; with data, or once there has been a window,
\* the type is known.
Fits(told, d, opened) ==
    told => /\ d.parseStatus = "None" => d.common.available = None /\ d.common.enabled = None
            /\ d.parseStatus # "None" \/ opened => d.detectedType \in KnownType

\* A call is at most one retry, which has set a type, and knows the type of the drive if it
\* asks for the full data.
CallFits(told, d, call) ==
    /\ call.tries <= 1
    /\ call.tries = 1 => HasType(d)
    /\ told => /\ Telling(call.reply.report)
               /\ call.cmd = "full" => call.type \in KnownType /\ d.detectedType \in KnownType

FittingCalls(told, d) == {call \in Call : CallFits(told, d, call)}

\* Calls go on fitting the object while it evolves.
LEMMA FittingCallsKept ==
    ASSUME NEW told, NEW d, NEW e, Evolves(d, e)
    PROVE  Seq(FittingCalls(told, d)) \subseteq Seq(FittingCalls(told, e))
<1>1. FittingCalls(told, d) \subseteq FittingCalls(told, e)
    <2>1. /\ HasType(d) => HasType(e)
          /\ d.detectedType \in KnownType => e.detectedType \in KnownType
        BY DEF Evolves, HasType
    <2>. QED BY <2>1 DEF FittingCalls, CallFits
<1>. QED BY <1>1

\* The calls when one returns, and when one is made.
LEMMA FrontFits ==
    ASSUME NEW S, NEW s \in Seq(S), s # <<>>
    PROVE  /\ Front(s) \in Seq(S) /\ Len(Front(s)) = Len(s) - 1
           /\ Last(s) \in S /\ Last(s) = s[Len(s)] /\ Len(s) \in DOMAIN s
<1>1. Len(s) \in Nat /\ Len(s) # 0
    OBVIOUS
<1>2. Front(s) = [i \in 1 .. (Len(s) - 1) |-> s[i]]
    BY DEF Front
<1>3. \A i \in 1 .. (Len(s) - 1) : s[i] \in S
    BY <1>1
<1>4. Len(s) - 1 \in Nat
    BY <1>1
<1>5. [i \in 1 .. (Len(s) - 1) |-> s[i]] \in Seq(S)
    BY <1>3, <1>4
<1>6. Len([i \in 1 .. (Len(s) - 1) |-> s[i]]) = Len(s) - 1
    BY <1>4
<1>7. Last(s) = s[Len(s)] /\ Last(s) \in S /\ Len(s) \in DOMAIN s
    BY <1>1 DEF Last
<1>. QED BY <1>2, <1>5, <1>6, <1>7

\* The same for one that is made.
LEMMA AppendFits ==
    ASSUME NEW S, NEW s \in Seq(S), NEW x \in S
    PROVE  Append(s, x) \in Seq(S) /\ Len(Append(s, x)) = Len(s) + 1
OBVIOUS

\* A fetch begins with an object without data.
LEMMA EmptiedFits ==
    ASSUME NEW told, NEW opened, NEW d \in Device, Fits(told, d, opened)
    PROVE  /\ Evolves(d, OutputsCleared(Cleared(d)))
           /\ Fits(told, OutputsCleared(Cleared(d)), opened)
           /\ OutputsCleared(Cleared(d)).typeArg = d.typeArg
           /\ OutputsCleared(Cleared(d)).detectedType = d.detectedType
<1>1. /\ Evolves(d, Cleared(d)) /\ Cleared(d).typeArg = d.typeArg
      /\ Cleared(d).detectedType = d.detectedType
      /\ Cleared(d).parseStatus = "None" /\ Cleared(d).common = NoCommon
    BY ClearedEvolves
<1>2. Cleared(d) \in Device /\ HealthFits(Cleared(d))
    BY <1>1 DEF Evolves
<1>. DEFINE c == Cleared(d)
<1>. HIDE DEF c
<1>3. c \in Device /\ HealthFits(c)
    BY <1>2 DEF c
<1>4. /\ Evolves(c, OutputsCleared(c)) /\ OutputsCleared(c).typeArg = c.typeArg
      /\ OutputsCleared(c).detectedType = c.detectedType
      /\ OutputsCleared(c).parseStatus = c.parseStatus
      /\ OutputsCleared(c).common = c.common
    BY <1>3, OutputsClearedEvolves
<1>. DEFINE e == OutputsCleared(c)
<1>. HIDE DEF e
<1>5. /\ Evolves(c, e) /\ e.typeArg = d.typeArg /\ e.detectedType = d.detectedType
      /\ e.parseStatus = "None" /\ e.common = NoCommon
    BY <1>1, <1>4 DEF c, e
<1>6. Evolves(d, e)
    BY <1>1, <1>5, EvolvesTransitive DEF c
<1>7. Fits(told, e, opened)
    BY <1>5 DEF Fits, NoCommon
<1>. QED BY <1>5, <1>6, <1>7 DEF c, e

\* A call that is made fits the object it is made from.
LEMMA NewCallFits ==
    ASSUME NEW told \in BOOLEAN, NEW d \in Device, NEW e, e.typeArg = d.typeArg,
           e.detectedType = d.detectedType, NEW cmd \in Commands, NEW then \in Thens,
           NEW tries \in {0, 1}, tries = 1 => HasType(d),
           told /\ cmd = "full" => d.detectedType \in KnownType
    PROVE  NewCall(cmd, then, d, tries) \in FittingCalls(told, e)
<1>1. EmptyReport \in Report /\ Telling(EmptyReport)
    BY BannerType, BannerTells DEF EmptyReport
<1>2. NoReply \in [result: Results, report: Report] /\ NoReply.report = EmptyReport
    BY <1>1 DEF NoReply, Results
<1>3. d.detectedType \in DetectedType /\ d.typeArg \in TypeArgs \cup {"scsi"}
    BY DEF Device
<1>. DEFINE c == NewCall(cmd, then, d, tries)
<1>4. c = [cmd |-> cmd, then |-> then, type |-> d.detectedType, typeArg |-> d.typeArg,
           tries |-> tries, reply |-> NoReply]
    BY DEF NewCall
<1>. HIDE DEF c
<1>5. c.cmd = cmd /\ c.type = d.detectedType /\ c.tries = tries /\ c.reply = NoReply
    BY <1>4
<1>6. c \in Call
    <2>1. tries \in Nat
        OBVIOUS
    <2>2. then \in {"", "reread", "open"}
        BY DEF Thens
    <2>. QED BY <1>2, <1>3, <1>4, <2>1, <2>2 DEF Call
<1>7. c.tries <= 1 /\ (c.tries = 1 => HasType(e))
    <2>1. HasType(d) => HasType(e)
        BY DEF HasType
    <2>. QED BY <1>5, <2>1
<1>8. Telling(c.reply.report)
    BY <1>1, <1>2, <1>5
<1>9. told /\ c.cmd = "full" => c.type \in KnownType /\ e.detectedType \in KnownType
    BY <1>5
<1>10. CallFits(told, e, c)
    BY <1>7, <1>8, <1>9, Zenon DEF CallFits
<1>11. c \in FittingCalls(told, e)
    BY <1>6, <1>10 DEF FittingCalls
<1>. QED BY <1>11 DEF c

-----------------------------------------------------------------------------
(* The inductive invariant, and what every step does to its parts.         *)

Told == defaultFormat = "json" /\ ~isVirtual

IInv ==
    /\ TypeOK
    /\ HealthFits(dev)
    /\ Fits(Told, dev, window)
    /\ calls \in Seq(FittingCalls(Told, dev))

ObjectStep == Evolves(dev, dev') /\ view' \in Views /\ Fits(Told, dev', window')

CallsStep == calls' \in Seq(FittingCalls(Told, dev')) /\ Len(calls') <= MaxDepth

RestStep ==
    /\ {testIsActive', window', smartOn', disturbed', lastOk'} \subseteq BOOLEAN
    /\ medium' \in Drives /\ swaps' \in 0 .. MaxSwaps
    /\ UNCHANGED fixed

\* The parts of the invariant, by variable.
LEMMA IInvFacts ==
    ASSUME IInv
    PROVE  /\ dev \in Device /\ HealthFits(dev) /\ Fits(Told, dev, window) /\ view \in Views
           /\ Evolves(dev, dev)
           /\ calls \in Seq(FittingCalls(Told, dev)) /\ Len(calls) <= MaxDepth
           /\ Len(calls) \in Nat
           /\ testIsActive \in BOOLEAN /\ isVirtual \in BOOLEAN /\ window \in BOOLEAN
           /\ smartOn \in BOOLEAN /\ disturbed \in BOOLEAN /\ lastOk \in BOOLEAN
           /\ Told \in BOOLEAN
           /\ defaultFormat \in Formats /\ medium \in Drives /\ swaps \in 0 .. MaxSwaps
<1>1. TypeOK /\ HealthFits(dev) /\ Fits(Told, dev, window)
      /\ calls \in Seq(FittingCalls(Told, dev))
    BY DEF IInv
<1>2. /\ dev \in Device /\ view \in Views /\ Len(calls) <= MaxDepth
      /\ {testIsActive, isVirtual, window, smartOn, disturbed, lastOk} \subseteq BOOLEAN
      /\ defaultFormat \in Formats /\ medium \in Drives /\ swaps \in 0 .. MaxSwaps
    BY <1>1 DEF TypeOK
<1>3. Evolves(dev, dev)
    BY <1>1, <1>2, EvolvesReflexive
<1>4. /\ testIsActive \in BOOLEAN /\ isVirtual \in BOOLEAN /\ window \in BOOLEAN
      /\ smartOn \in BOOLEAN /\ disturbed \in BOOLEAN /\ lastOk \in BOOLEAN
    BY <1>2
<1>5. Told \in BOOLEAN
    BY <1>4 DEF Told
<1>6. Len(calls) \in Nat
    BY <1>1
<1>. QED BY <1>1, <1>2, <1>3, <1>4, <1>5, <1>6

\* The call that returns, and the ones below it.
LEMMA TopFacts ==
    ASSUME IInv, calls # <<>>
    PROVE  /\ Top \in Call /\ CallFits(Told, dev, Top)
           /\ Below \in Seq(FittingCalls(Told, dev)) /\ Len(Below) < MaxDepth
<1>1. calls \in Seq(FittingCalls(Told, dev)) /\ Len(calls) <= MaxDepth /\ Len(calls) \in Nat
    BY IInvFacts
<1>. DEFINE S == FittingCalls(Told, dev)
<1>. HIDE DEF S
<1>2. /\ Front(calls) \in Seq(S) /\ Len(Front(calls)) = Len(calls) - 1
      /\ Last(calls) \in S
    BY <1>1, FrontFits DEF S
<1>3. Len(Below) < MaxDepth
    BY <1>1, <1>2, BoundsAssumption DEF Below
<1>. QED BY <1>2, <1>3 DEF S, FittingCalls, Top, Below

\* The members change and the icon is told.
LEMMA SignalSteps ==
    ASSUME IInv, NEW d, Evolves(dev, d), Fits(Told, d, window'), Signal(d)
    PROVE  ObjectStep
<1>1. d \in Device /\ HealthFits(d)
    BY DEF Evolves
<1>2. /\ Evolves(d, HealthAsked(d)) /\ HealthAsked(d).parseStatus = d.parseStatus
      /\ HealthAsked(d).common = d.common /\ HealthAsked(d).detectedType = d.detectedType
      /\ ViewOf(d) \in Views
    BY <1>1, HealthAskedEvolves
<1>3. dev' = HealthAsked(d) /\ view' = ViewOf(d)
    BY DEF Signal
<1>4. Evolves(dev, dev')
    BY <1>2, <1>3, EvolvesTransitive
<1>5. Fits(Told, dev', window')
    BY <1>2, <1>3 DEF Fits
<1>. QED BY <1>2, <1>3, <1>4, <1>5 DEF ObjectStep

\* The members change and the icon is not told.
LEMMA NoSignalSteps ==
    ASSUME IInv, NEW d, Evolves(dev, d), Fits(Told, d, window'), NoSignal(d)
    PROVE  ObjectStep
<1>1. dev' = d /\ view' = view
    BY DEF NoSignal
<1>2. view \in Views
    BY IInvFacts
<1>. QED BY <1>1, <1>2 DEF ObjectStep

\* A step that makes no call.
LEMMA CallsKept ==
    ASSUME IInv, ObjectStep,
           calls' = calls \/ (calls' = Below /\ calls # <<>>)
    PROVE  CallsStep
<1>1. calls' \in Seq(FittingCalls(Told, dev)) /\ Len(calls') <= MaxDepth
    <2>1. CASE calls' = calls
        BY <2>1, IInvFacts
    <2>2. CASE calls' = Below /\ calls # <<>>
        <3>1. Below \in Seq(FittingCalls(Told, dev)) /\ Len(Below) < MaxDepth
            BY <2>2, TopFacts
        <3>2. Len(Below) \in Nat
            BY <3>1
        <3>3. Len(Below) <= MaxDepth
            BY <3>1, <3>2, BoundsAssumption
        <3>. QED BY <2>2, <3>1, <3>3
    <2>. QED BY <2>1, <2>2
<1>2. Evolves(dev, dev')
    BY DEF ObjectStep
<1>3. Seq(FittingCalls(Told, dev)) \subseteq Seq(FittingCalls(Told, dev'))
    BY <1>2, FittingCallsKept
<1>. QED BY <1>1, <1>3 DEF CallsStep

\* A step that makes one.
LEMMA CallsMade ==
    ASSUME IInv, ObjectStep, NEW below \in Seq(FittingCalls(Told, dev)),
           Len(below) < MaxDepth, NEW call \in FittingCalls(Told, dev'),
           calls' = Append(below, call)
    PROVE  CallsStep
<1>1. Evolves(dev, dev')
    BY DEF ObjectStep
<1>2. below \in Seq(FittingCalls(Told, dev'))
    BY <1>1, FittingCallsKept
<1>. DEFINE S == FittingCalls(Told, dev')
<1>. HIDE DEF S
<1>3. Append(below, call) \in Seq(S) /\ Len(Append(below, call)) = Len(below) + 1
    BY <1>2, AppendFits DEF S
<1>4. Len(below) \in Nat
    BY <1>2
<1>5. Len(below) + 1 <= MaxDepth
    BY <1>4, BoundsAssumption
<1>. QED BY <1>3, <1>5 DEF CallsStep, S

\* The beginning of the calls.
LEMMA StartBasicSteps ==
    ASSUME IInv, NEW d, Evolves(dev, d), Fits(Told, d, window),
           NEW below \in Seq(FittingCalls(Told, dev)), Len(below) < MaxDepth,
           NEW tries \in {0, 1}, tries = 1 => HasType(d),
           StartBasic(d, below, tries), window' = window
    PROVE  ObjectStep /\ CallsStep /\ disturbed' \in BOOLEAN
<1>. DEFINE e == OutputsCleared(Cleared(d))
            call == NewCall("basic", "", d, tries)
<1>1. d \in Device /\ Told \in BOOLEAN
    BY IInvFacts DEF Evolves
<1>2. /\ Evolves(d, e) /\ Fits(Told, e, window)
      /\ e.typeArg = d.typeArg /\ e.detectedType = d.detectedType
    BY <1>1, EmptiedFits
<1>3. NoSignal(e) /\ Push(below, call)
    BY DEF StartBasic
<1>. HIDE DEF e
<1>4. Evolves(dev, e)
    BY <1>2, EvolvesTransitive
<1>5. ObjectStep
    BY <1>2, <1>3, <1>4, NoSignalSteps
<1>6. "basic" \in Commands /\ "" \in Thens /\ "basic" # "full"
    BY DEF Commands, Thens
<1>7. call \in FittingCalls(Told, e)
    BY <1>1, <1>2, <1>6, NewCallFits
<1>. HIDE DEF call
<1>8. dev' = e /\ calls' = Append(below, call) /\ disturbed' \in BOOLEAN
    BY <1>3, IInvFacts DEF NoSignal, Push
<1>9. CallsStep
    BY <1>5, <1>7, <1>8, CallsMade
<1>. QED BY <1>5, <1>8, <1>9

\* A full fetch begins only with a known type.
LEMMA StartFullSteps ==
    ASSUME IInv, Told => dev.detectedType \in KnownType,
           NEW below \in Seq(FittingCalls(Told, dev)), Len(below) < MaxDepth,
           NEW then \in Thens, StartFull(below, then), window' = window
    PROVE  ObjectStep /\ CallsStep /\ disturbed' \in BOOLEAN
<1>. DEFINE e == OutputsCleared(Cleared(dev))
            call == NewCall("full", then, dev, 0)
<1>1. dev \in Device /\ Fits(Told, dev, window) /\ Told \in BOOLEAN
    BY IInvFacts
<1>2. /\ Evolves(dev, e) /\ Fits(Told, e, window)
      /\ e.typeArg = dev.typeArg /\ e.detectedType = dev.detectedType
    BY <1>1, EmptiedFits
<1>3. NoSignal(e) /\ Push(below, call)
    BY DEF StartFull
<1>. HIDE DEF e
<1>4. ObjectStep
    BY <1>2, <1>3, NoSignalSteps
<1>5. "full" \in Commands /\ 0 \in {0, 1} /\ 0 # 1
    BY DEF Commands
<1>6. call \in FittingCalls(Told, e)
    BY <1>1, <1>2, <1>5, NewCallFits
<1>. HIDE DEF call
<1>7. dev' = e /\ calls' = Append(below, call) /\ disturbed' \in BOOLEAN
    BY <1>3, IInvFacts DEF NoSignal, Push
<1>8. CallsStep
    BY <1>4, <1>6, <1>7, CallsMade
<1>. QED BY <1>4, <1>7, <1>8

\* Switching SMART begins with the object as it is.
LEMMA StartSmartSteps ==
    ASSUME IInv, Len(calls) < MaxDepth, NEW on \in BOOLEAN, NEW then \in Thens,
           StartSmart(on, then), window' = window
    PROVE  ObjectStep /\ CallsStep /\ disturbed' \in BOOLEAN
<1>. DEFINE cmd == IF on THEN "smartOn" ELSE "smartOff"
            call == NewCall(cmd, then, dev, 0)
<1>1. /\ dev \in Device /\ Fits(Told, dev, window) /\ Told \in BOOLEAN
      /\ Evolves(dev, dev) /\ calls \in Seq(FittingCalls(Told, dev))
    BY IInvFacts
<1>2. NoSignal(dev) /\ Push(calls, call)
    BY DEF StartSmart
<1>3. cmd \in Commands /\ cmd # "full" /\ 0 \in {0, 1} /\ 0 # 1
    BY DEF Commands
<1>. HIDE DEF cmd
<1>4. ObjectStep
    BY <1>1, <1>2, NoSignalSteps
<1>5. call \in FittingCalls(Told, dev)
    BY <1>1, <1>3, NewCallFits
<1>. HIDE DEF call
<1>6. dev' = dev /\ calls' = Append(calls, call) /\ disturbed' \in BOOLEAN
    BY <1>2, IInvFacts DEF NoSignal, Push
<1>7. CallsStep
    BY <1>1, <1>4, <1>5, <1>6, CallsMade
<1>. QED BY <1>4, <1>6, <1>7

-----------------------------------------------------------------------------
(* The handlers of the windows.                                            *)

Step == ObjectStep /\ CallsStep /\ RestStep

\* The rest of a step that leaves the drive alone.
LEMMA RestKept ==
    ASSUME IInv, UNCHANGED <<fixed, external>>, testIsActive' \in BOOLEAN, window' \in BOOLEAN,
           disturbed' \in BOOLEAN, lastOk' \in BOOLEAN
    PROVE  RestStep
<1>1. /\ smartOn \in BOOLEAN /\ medium \in Drives /\ swaps \in 0 .. MaxSwaps
    BY IInvFacts
<1>2. smartOn' = smartOn /\ medium' = medium /\ swaps' = swaps
    BY DEF external
<1>. QED BY <1>1, <1>2 DEF RestStep

\* A drive whose SMART status is known has data, and a type.
LEMMA StatusKnowsType ==
    ASSUME IInv, SmartStatus(dev) # "Unsupported"
    PROVE  Told => dev.detectedType \in KnownType
<1>1. Fits(Told, dev, window)
    BY IInvFacts
<1>2. ~(dev.common.available = None /\ dev.common.enabled = None)
    BY DEF SmartStatus, None
<1>. QED BY <1>1, <1>2 DEF Fits

\* Reading the data again.
LEMMA RereadSteps ==
    ASSUME IInv, Reread PROVE Step
<1>1. /\ StartBasic(dev, calls, 0) /\ Len(calls) < MaxDepth
      /\ UNCHANGED <<testIsActive, window, lastOk, fixed, external>>
    BY DEF Reread, CanClick
<1>2. /\ Evolves(dev, dev) /\ Fits(Told, dev, window) /\ calls \in Seq(FittingCalls(Told, dev))
      /\ testIsActive \in BOOLEAN /\ window \in BOOLEAN /\ lastOk \in BOOLEAN
    BY IInvFacts
<1>3. 0 \in {0, 1} /\ 0 # 1
    OBVIOUS
<1>4. ObjectStep /\ CallsStep /\ disturbed' \in BOOLEAN
    BY <1>1, <1>2, <1>3, StartBasicSteps
<1>5. RestStep
    BY <1>1, <1>2, <1>4, RestKept
<1>. QED BY <1>4, <1>5 DEF Step

\* The two handlers that switch SMART.
LEMMA SmartSteps ==
    ASSUME IInv, ToggleSmart \/ OpenEnabling PROVE Step
<1>1. /\ \E on \in BOOLEAN, then \in Thens : StartSmart(on, then)
      /\ Len(calls) < MaxDepth
      /\ UNCHANGED <<testIsActive, window, lastOk, fixed, external>>
    BY DEF ToggleSmart, OpenEnabling, CanClick, Thens
<1>2. testIsActive \in BOOLEAN /\ window \in BOOLEAN /\ lastOk \in BOOLEAN
    BY IInvFacts
<1>3. ObjectStep /\ CallsStep /\ disturbed' \in BOOLEAN
    BY <1>1, StartSmartSteps
<1>4. RestStep
    BY <1>1, <1>2, <1>3, RestKept
<1>. QED BY <1>3, <1>4 DEF Step

\* The end of show_device_info_window(): a status other than unsupported tells the type.
LEMMA FetchAndShowSteps ==
    ASSUME IInv, NEW below, FetchAndShow(below), UNCHANGED <<testIsActive, fixed, external>>,
           \/ below = calls /\ Len(calls) < MaxDepth
           \/ below = Below /\ calls # <<>>
    PROVE  Step
<1>1. /\ Evolves(dev, dev) /\ Fits(Told, dev, window) /\ testIsActive \in BOOLEAN
      /\ window \in BOOLEAN /\ lastOk \in BOOLEAN /\ disturbed \in BOOLEAN
    BY IInvFacts
<1>2. below \in Seq(FittingCalls(Told, dev)) /\ Len(below) < MaxDepth
    BY IInvFacts, TopFacts
<1>3. CASE isVirtual \/ SmartStatus(dev) = "Unsupported"
    <2>1. /\ NoSignal(dev) /\ calls' = below /\ ShowWindow(dev)
          /\ UNCHANGED <<disturbed, lastOk>>
        BY <1>3 DEF FetchAndShow
    <2>2. window' = (window \/ dev.parseStatus # "None")
        BY <2>1 DEF ShowWindow
    <2>3. Fits(Told, dev, window')
        BY <1>1, <2>2 DEF Fits
    <2>4. ObjectStep
        BY <1>1, <2>1, <2>3, NoSignalSteps
    <2>5. CallsStep
        BY <2>1, <2>4, CallsKept
    <2>6. RestStep
        BY <1>1, <2>1, <2>2, RestKept
    <2>. QED BY <2>4, <2>5, <2>6 DEF Step
<1>4. CASE ~(isVirtual \/ SmartStatus(dev) = "Unsupported") /\ testIsActive
    <2>1. /\ NoSignal(dev) /\ calls' = below /\ lastOk' = FALSE
          /\ UNCHANGED <<window, disturbed>>
        BY <1>4 DEF FetchAndShow
    <2>2. ObjectStep
        BY <1>1, <2>1, NoSignalSteps
    <2>3. CallsStep
        BY <2>1, <2>2, CallsKept
    <2>4. RestStep
        BY <1>1, <2>1, RestKept
    <2>. QED BY <2>2, <2>3, <2>4 DEF Step
<1>5. CASE ~(isVirtual \/ SmartStatus(dev) = "Unsupported") /\ ~testIsActive
    <2>1. StartFull(below, "open") /\ UNCHANGED <<window, lastOk>>
        BY <1>5 DEF FetchAndShow
    <2>2. "open" \in Thens
        BY DEF Thens
    <2>3. ObjectStep /\ CallsStep /\ disturbed' \in BOOLEAN
        BY <1>2, <1>5, <2>1, <2>2, StatusKnowsType, StartFullSteps
    <2>4. RestStep
        BY <1>1, <2>1, <2>3, RestKept
    <2>. QED BY <2>3, <2>4 DEF Step
<1>. QED BY <1>3, <1>4, <1>5

\* Opening a window.
LEMMA OpenSteps ==
    ASSUME IInv, Open PROVE Step
<1>1. /\ FetchAndShow(calls) /\ Len(calls) < MaxDepth
      /\ UNCHANGED <<testIsActive, fixed, external>>
    BY DEF Open, CanClick
<1>. QED BY <1>1, FetchAndShowSteps

\* Refreshing one: there is a window, thus a type.
LEMMA RefreshSteps ==
    ASSUME IInv, Refresh PROVE Step
<1>1. /\ StartFull(calls, "") /\ Len(calls) < MaxDepth /\ window
      /\ UNCHANGED <<testIsActive, window, lastOk, fixed, external>>
    BY DEF Refresh, CanClick
<1>2. /\ Fits(Told, dev, window) /\ calls \in Seq(FittingCalls(Told, dev))
      /\ testIsActive \in BOOLEAN /\ window \in BOOLEAN /\ lastOk \in BOOLEAN
    BY IInvFacts
<1>3. Told => dev.detectedType \in KnownType
    BY <1>1, <1>2 DEF Fits
<1>4. "" \in Thens
    BY DEF Thens
<1>5. ObjectStep /\ CallsStep /\ disturbed' \in BOOLEAN
    BY <1>1, <1>2, <1>3, <1>4, StartFullSteps
<1>6. RestStep
    BY <1>1, <1>2, <1>5, RestKept
<1>. QED BY <1>5, <1>6 DEF Step

\* Loading a file; nothing is told of a virtual drive.
LEMMA LoadVirtualSteps ==
    ASSUME IInv, LoadVirtual PROVE Step
<1>1. PICK m \in Drives, on \in BOOLEAN, format \in Format :
        LET report == Described(m, on, "", TRUE, format)
            loaded == [dev EXCEPT !.basicOutput = report, !.fullOutput = report]
        IN Signal(VirtualParsed(loaded))
    BY DEF LoadVirtual
<1>2. /\ isVirtual /\ lastOk' = TRUE
      /\ UNCHANGED <<testIsActive, calls, window, disturbed, fixed, external>>
    BY DEF LoadVirtual
<1>3. /\ dev \in Device /\ HealthFits(dev) /\ testIsActive \in BOOLEAN /\ window \in BOOLEAN
      /\ disturbed \in BOOLEAN
    BY IInvFacts
<1>. DEFINE report == Described(m, on, "", TRUE, format)
            loaded == [dev EXCEPT !.basicOutput = report, !.fullOutput = report]
<1>4. report \in Report
    BY DescribedType, DrivesAssumption
<1>5. Signal(VirtualParsed(loaded))
    BY <1>1
<1>. HIDE DEF report
<1>6. /\ loaded \in Device /\ loaded.fullOutput \in Report /\ loaded.typeArg = dev.typeArg
      /\ loaded.detectedType = dev.detectedType /\ loaded.health = dev.health
      /\ loaded.properties = dev.properties
    BY <1>3, <1>4 DEF Device
<1>. HIDE DEF loaded
<1>7. Evolves(dev, loaded)
    BY <1>3, <1>6 DEF Evolves, HealthFits
<1>8. Evolves(loaded, VirtualParsed(loaded))
    BY <1>6, VirtualParsedEvolves
<1>9. Evolves(dev, VirtualParsed(loaded))
    BY <1>7, <1>8, EvolvesTransitive
<1>10. Fits(Told, VirtualParsed(loaded), window')
    BY <1>2 DEF Told, Fits
<1>11. ObjectStep
    BY <1>5, <1>9, <1>10, SignalSteps
<1>12. CallsStep
    BY <1>2, <1>11, CallsKept
<1>13. RestStep
    BY <1>2, <1>3, RestKept
<1>. QED BY <1>11, <1>12, <1>13 DEF Step

-----------------------------------------------------------------------------
(* Commands, and what the calls do when they have ended.                   *)

ReplySet == [result: Results, report: Report]

\* A reply that is a report, and telling if it is JSON, leaves the calls fitting.
LEMMA RepliedFits ==
    ASSUME NEW told \in BOOLEAN, NEW d, NEW s \in Seq(FittingCalls(told, d)), NEW i \in DOMAIN s,
           NEW r \in ReplySet, told => Telling(r.report)
    PROVE  /\ [s EXCEPT ![i].reply = r] \in Seq(FittingCalls(told, d))
           /\ Len([s EXCEPT ![i].reply = r]) = Len(s)
<1>1. s[i] \in FittingCalls(told, d)
    OBVIOUS
<1>. DEFINE c == s[i]
            e == [c EXCEPT !.reply = r]
<1>2. c \in Call /\ CallFits(told, d, c)
    BY <1>1 DEF FittingCalls
<1>. HIDE DEF c
<1>3. e \in Call
    BY <1>2 DEF Call, ReplySet
<1>4. e.reply = r /\ e.tries = c.tries /\ e.cmd = c.cmd /\ e.type = c.type
    BY <1>2 DEF Call
<1>. HIDE DEF e
<1>5. CallFits(told, d, e)
    BY <1>2, <1>4 DEF CallFits
<1>6. e \in FittingCalls(told, d)
    BY <1>3, <1>5 DEF FittingCalls
<1>7. [s EXCEPT ![i].reply = r] = [s EXCEPT ![i] = e]
    BY DEF c, e
<1>. DEFINE S == FittingCalls(told, d)
<1>8. s \in Seq(S) /\ e \in S
    BY <1>6
<1>. HIDE DEF S
<1>9. [s EXCEPT ![i] = e] \in Seq(S) /\ Len([s EXCEPT ![i] = e]) = Len(s)
    BY <1>8
<1>. QED BY <1>7, <1>9 DEF S

\* Every command that ends gives such a reply.
LEMMA CommandRunsReply ==
    ASSUME IInv, NEW i, CommandRuns(i)
    PROVE  /\ \E r \in ReplySet : (Told => Telling(r.report)) /\ Replied(i, r)
           /\ smartOn' \in BOOLEAN
<1>1. medium \in Medium /\ smartOn \in BOOLEAN /\ defaultFormat \in Format
    BY IInvFacts, DrivesAssumption, FormatsAssumption
<1>2. CASE FetchRuns(i)
    <2>. DEFINE full == calls[i].cmd = "full"
                arg == calls[i].typeArg
    <2>1. PICK r \in {Printed(medium, smartOn, arg, full, defaultFormat)}
                        \cup FailedPrints(medium, smartOn, arg, full, defaultFormat) :
            Replied(i, r)
        BY <1>2 DEF FetchRuns
    <2>2. full \in BOOLEAN
        OBVIOUS
    <2>. HIDE DEF full, arg
    <2>3. /\ r \in [result: {"ok", "error"}, report: Report]
          /\ defaultFormat = "json" => Telling(r.report)
        BY <1>1, <2>2, PrintedType
    <2>4. r \in ReplySet
        BY <2>3 DEF ReplySet, Results
    <2>5. smartOn' = smartOn
        BY <1>2 DEF FetchRuns
    <2>. QED BY <1>1, <2>1, <2>3, <2>4, <2>5 DEF Told
<1>3. CASE SwitchRuns(i)
    <2>1. EmptyReport \in Report /\ Telling(EmptyReport)
        BY BannerType, BannerTells DEF EmptyReport
    <2>2. PICK result \in Results : Replied(i, [NoReply EXCEPT !.result = result])
        BY <1>3 DEF SwitchRuns, Results
    <2>3. [NoReply EXCEPT !.result = result] = [result |-> result, report |-> EmptyReport]
        BY DEF NoReply
    <2>4. [NoReply EXCEPT !.result = result] \in ReplySet
          /\ [NoReply EXCEPT !.result = result].report = EmptyReport
        BY <2>1, <2>3 DEF ReplySet
    <2>5. smartOn' \in BOOLEAN
        BY <1>1, <1>3 DEF SwitchRuns
    <2>. QED BY <2>1, <2>2, <2>4, <2>5
<1>. QED BY <1>2, <1>3 DEF CommandRuns

\* The end of a command changes nothing but the call, and perhaps the drive.
LEMMA CommandRunsSteps ==
    ASSUME IInv, NEW i, CommandRuns(i) PROVE Step
<1>1. /\ i \in DOMAIN calls
      /\ UNCHANGED <<dev, testIsActive, window, view, medium, swaps, disturbed, lastOk, fixed>>
    BY DEF CommandRuns
<1>2. PICK r \in ReplySet : (Told => Telling(r.report)) /\ Replied(i, r)
    BY CommandRunsReply
<1>3. IInv /\ Evolves(dev, dev) /\ Fits(Told, dev, window) /\ view \in Views
      /\ calls \in Seq(FittingCalls(Told, dev)) /\ Len(calls) <= MaxDepth /\ Told \in BOOLEAN
    BY IInvFacts
<1>4. calls' = [calls EXCEPT ![i].reply = r]
    BY <1>2 DEF Replied
<1>5. calls' \in Seq(FittingCalls(Told, dev)) /\ Len(calls') = Len(calls)
    <2>1. Told => Telling(r.report)
        BY <1>2
    <2>2. /\ [calls EXCEPT ![i].reply = r] \in Seq(FittingCalls(Told, dev))
          /\ Len([calls EXCEPT ![i].reply = r]) = Len(calls)
        <3>1. calls \in Seq(FittingCalls(Told, dev)) /\ i \in DOMAIN calls /\ Told \in BOOLEAN
            BY <1>1, <1>3, Zenon
        <3> QED
            BY <1>2, <2>1, <3>1, RepliedFits
    <2> QED
        BY <1>4, <2>2
<1>6. ObjectStep
    BY <1>1, <1>3 DEF ObjectStep
<1>7. CallsStep
    BY <1>1, <1>3, <1>5 DEF CallsStep
<1>8. /\ testIsActive \in BOOLEAN /\ window \in BOOLEAN /\ disturbed \in BOOLEAN
      /\ lastOk \in BOOLEAN /\ smartOn' \in BOOLEAN /\ medium \in Drives
      /\ swaps \in 0 .. MaxSwaps
    BY IInvFacts, CommandRunsReply
<1>9. RestStep
    BY <1>1, <1>8 DEF RestStep
<1>. QED BY <1>6, <1>7, <1>9 DEF Step

\* The output and the note that a type is wanted, before the data are parsed.
LEMMA BasicExecutedFits ==
    ASSUME IInv, calls # <<>>
    PROVE  /\ Evolves(dev, BasicExecuted) /\ Fits(Told, BasicExecuted, window)
           /\ BasicExecuted.typeArg = dev.typeArg
           /\ BasicExecuted.basicOutput = Top.reply.report /\ Top.reply.report \in Report
           /\ Told => Telling(Top.reply.report)
<1>1. dev \in Device /\ HealthFits(dev) /\ Fits(Told, dev, window)
    BY IInvFacts
<1>2. Top \in Call /\ CallFits(Told, dev, Top)
    BY TopFacts
<1>3. Top.reply.report \in Report /\ (Told => Telling(Top.reply.report))
    BY <1>2 DEF Call, CallFits
<1>. DEFINE asked == Top.reply.result = "error" /\ Top.reply.report.asks
            type == IF asked /\ dev.detectedType = "Unknown" THEN "NeedsExplicitType"
                    ELSE dev.detectedType
            output == Top.reply.report
            e == [dev EXCEPT !.basicOutput = output, !.detectedType = type]
<1>4. BasicExecuted = e
    BY <1>1 DEF BasicExecuted, Device
<1>5. type \in DetectedType /\ (dev.detectedType \in KnownType => type \in KnownType)
    BY <1>1 DEF Device, DetectedType, KnownType
<1>. HIDE DEF output, type
<1>6. output \in Report
    BY <1>3 DEF output
<1>7. /\ e \in Device /\ e.typeArg = dev.typeArg /\ e.detectedType = type
      /\ e.health = dev.health /\ e.properties = dev.properties /\ e.basicOutput = output
      /\ e.parseStatus = dev.parseStatus /\ e.common = dev.common
    BY <1>1, <1>5, <1>6 DEF Device
<1>. HIDE DEF e
<1>8. Evolves(dev, e)
    BY <1>1, <1>5, <1>7 DEF Evolves, HealthFits
<1>9. Fits(Told, e, window)
    BY <1>1, <1>5, <1>7 DEF Fits
<1>. QED BY <1>3, <1>4, <1>7, <1>8, <1>9 DEF output

\* The retry is made with a type, by a call that is no retry itself.
LEMMA BasicRetriesSteps ==
    ASSUME IInv, BasicRetries PROVE Step
<1>1. /\ calls # <<>> /\ RetryWanted
      /\ UNCHANGED <<testIsActive, window, fixed, external>>
    BY DEF BasicRetries, Ended
<1>2. /\ testIsActive \in BOOLEAN /\ window \in BOOLEAN /\ lastOk \in BOOLEAN
      /\ disturbed \in BOOLEAN
    BY IInvFacts
<1>. DEFINE b == BasicExecuted
            d == WithType(b)
<1>3. Evolves(dev, b) /\ Fits(Told, b, window) /\ b \in Device /\ HealthFits(b)
    BY <1>1, BasicExecutedFits DEF Evolves
<1>4. ~HasType(b)
    BY <1>1 DEF RetryWanted, HasType
<1>. HIDE DEF b
<1>5. Evolves(b, d) /\ d.typeArg = "scsi" /\ d.detectedType = "BasicScsi"
      /\ d.parseStatus = b.parseStatus /\ d.common = b.common
    BY <1>3, <1>4, WithTypeEvolves DEF WithType, Device
<1>. HIDE DEF d
<1>6. HasType(d) /\ d.detectedType \in KnownType
    BY <1>5 DEF HasType, KnownType, DetectedType
<1>7. Evolves(dev, d)
    BY <1>3, <1>5, EvolvesTransitive
<1>8. Fits(Told, d, window)
    BY <1>3, <1>5, <1>6 DEF Fits
<1>9. CASE testIsActive
    <2>1. NoSignal(d) /\ Return /\ lastOk' = FALSE
        BY <1>9 DEF BasicRetries, d, b
    <2>2. ObjectStep
        BY <1>1, <1>7, <1>8, <2>1, NoSignalSteps
    <2>3. calls' = Below /\ disturbed' = disturbed
        BY <2>1 DEF Return
    <2>4. CallsStep
        BY <1>1, <2>2, <2>3, CallsKept
    <2>5. RestStep
        BY <1>1, <1>2, <2>1, <2>3, RestKept
    <2>. QED BY <2>2, <2>4, <2>5 DEF Step
<1>10. CASE ~testIsActive
    <2>1. StartBasic(d, Below, Top.tries + 1) /\ lastOk' = lastOk
        BY <1>10 DEF BasicRetries, d, b
    <2>2. /\ Top \in Call /\ CallFits(Told, dev, Top)
          /\ Below \in Seq(FittingCalls(Told, dev)) /\ Len(Below) < MaxDepth
        BY <1>1, TopFacts
    <2>3. ~HasType(dev)
        BY <1>1, <1>4, BasicExecutedFits DEF HasType, b
    <2>4. Top.tries = 0
        <3>1. Top.tries \in Nat
            BY <2>2 DEF Call
        <3>2. Top.tries <= 1 /\ Top.tries # 1
            BY <2>2, <2>3 DEF CallFits
        <3>. QED BY <3>1, <3>2
    <2>5. Top.tries + 1 \in {0, 1}
        BY <2>4
    <2>6. ObjectStep /\ CallsStep /\ disturbed' \in BOOLEAN
        BY <1>1, <1>6, <1>7, <1>8, <2>1, <2>2, <2>5, StartBasicSteps
    <2>7. RestStep
        BY <1>1, <1>2, <2>1, <2>6, RestKept
    <2>. QED BY <2>6, <2>7 DEF Step
<1>. QED BY <1>9, <1>10

\* A basic fetch returns, parsed or not.
LEMMA BasicReturnsSteps ==
    ASSUME IInv, BasicReturns PROVE Step
<1>1. /\ calls # <<>> /\ Return
      /\ UNCHANGED <<testIsActive, window, fixed, external>>
    BY DEF BasicReturns, Ended
<1>2. /\ testIsActive \in BOOLEAN /\ window \in BOOLEAN /\ disturbed \in BOOLEAN
      /\ Told \in BOOLEAN
    BY IInvFacts
<1>. DEFINE b == BasicExecuted
<1>3. /\ Evolves(dev, b) /\ Fits(Told, b, window) /\ b \in Device
      /\ b.basicOutput = Top.reply.report /\ b.basicOutput \in Report
      /\ Told => Telling(b.basicOutput)
    BY <1>1, BasicExecutedFits DEF Evolves
<1>4. \/ BasicParses(b.basicOutput) /\ Signal(BasicParsed(b)) /\ lastOk' = TRUE
      \/ NoSignal(Cleared(b)) /\ lastOk' = FALSE
    BY <1>3 DEF BasicReturns
<1>. HIDE DEF b
<1>5. ObjectStep
    <2>1. CASE NoSignal(Cleared(b))
        <3>1. /\ Evolves(b, Cleared(b)) /\ Cleared(b).detectedType = b.detectedType
              /\ Cleared(b).parseStatus = "None" /\ Cleared(b).common = NoCommon
            BY <1>3, ClearedEvolves
        <3>2. Evolves(dev, Cleared(b))
            BY <1>3, <3>1, EvolvesTransitive
        <3>3. Fits(Told, Cleared(b), window)
            BY <1>3, <3>1 DEF Fits, NoCommon
        <3>. QED BY <1>1, <2>1, <3>2, <3>3, NoSignalSteps
    <2>2. CASE BasicParses(b.basicOutput) /\ Signal(BasicParsed(b))
        <3>. DEFINE p == BasicParsed(b)
        <3>1. /\ Evolves(b, p)
              /\ BasicFormat(b.basicOutput) = "json" /\ Telling(b.basicOutput) =>
                   IF p.parseStatus = "None"
                   THEN p.common.available = None /\ p.common.enabled = None
                   ELSE p.detectedType \in KnownType
            BY <1>3, BasicParsedEvolves
        <3>. HIDE DEF p
        <3>2. Evolves(dev, p)
            BY <1>3, <3>1, EvolvesTransitive
        <3>3. Told => BasicFormat(b.basicOutput) = "json"
            BY <1>3, <2>2 DEF Telling, BasicParses, Parses, BasicFormat, DetectedFormat, None
        <3>4. b.detectedType \in KnownType => p.detectedType \in KnownType
            BY <3>1 DEF Evolves
        <3>5. Fits(Told, p, window)
            BY <1>3, <3>1, <3>3, <3>4 DEF Fits
        <3>6. Signal(p)
            BY <2>2 DEF p
        <3>. QED BY <1>1, <3>2, <3>5, <3>6, SignalSteps
    <2>. QED BY <1>4, <2>1, <2>2
<1>6. calls' = Below /\ disturbed' = disturbed
    BY <1>1 DEF Return
<1>7. CallsStep
    BY <1>1, <1>5, <1>6, CallsKept
<1>8. RestStep
    BY <1>1, <1>2, <1>4, <1>6, RestKept
<1>. QED BY <1>5, <1>7, <1>8 DEF Step

\* A full fetch returns, parsed or not; its call has known the type.
LEMMA FullReturnsSteps ==
    ASSUME IInv, FullReturns PROVE Step
<1>1. /\ calls # <<>> /\ Top.cmd = "full" /\ Return
      /\ UNCHANGED <<testIsActive, fixed, external>>
    BY DEF FullReturns, Ended
<1>2. /\ testIsActive \in BOOLEAN /\ window \in BOOLEAN /\ disturbed \in BOOLEAN
      /\ dev \in Device /\ HealthFits(dev)
    BY IInvFacts
<1>. DEFINE output  == Top.reply.report
            fetched == [dev EXCEPT !.fullOutput = output]
            parsed  == FullParsed(fetched, ParserFor(Top.type), defaultFormat)
<1>3. \/ /\ Signal(parsed) /\ lastOk' = TRUE
         /\ window' = window \/ window' = (window \/ parsed.parseStatus # "None")
      \/ NoSignal(Cleared(fetched)) /\ lastOk' = FALSE /\ window' = window
    BY DEF FullReturns, ShowWindow
<1>4. Top \in Call /\ CallFits(Told, dev, Top)
    BY <1>1, TopFacts
<1>5. output \in Report /\ (Told => dev.detectedType \in KnownType)
    BY <1>1, <1>4 DEF Call, CallFits
<1>. HIDE DEF output
<1>6. /\ fetched \in Device /\ fetched.fullOutput = output /\ fetched.typeArg = dev.typeArg
      /\ fetched.detectedType = dev.detectedType /\ fetched.health = dev.health
      /\ fetched.properties = dev.properties
    BY <1>2, <1>5 DEF Device
<1>. HIDE DEF fetched
<1>7. Evolves(dev, fetched)
    BY <1>2, <1>6 DEF Evolves, HealthFits
<1>8. Evolves(fetched, parsed)
    BY <1>5, <1>6, FullParsedEvolves
<1>9. /\ Evolves(fetched, Cleared(fetched)) /\ Cleared(fetched).common = NoCommon
    BY <1>6, ClearedEvolves
<1>. HIDE DEF parsed
<1>10. window' \in BOOLEAN /\ lastOk' \in BOOLEAN
    BY <1>2, <1>3
<1>11. ObjectStep
    <2>1. CASE Signal(parsed)
        <3>1. Evolves(dev, parsed)
            BY <1>7, <1>8, EvolvesTransitive
        <3>2. Told => parsed.detectedType \in KnownType
            BY <1>5, <3>1 DEF Evolves
        <3>3. parsed.parseStatus # "None"
            BY <1>5, <1>6, FullParsedEvolves DEF parsed
        <3>4. Fits(Told, parsed, window')
            BY <3>2, <3>3 DEF Fits
        <3>. QED BY <2>1, <3>1, <3>4, SignalSteps
    <2>2. CASE NoSignal(Cleared(fetched))
        <3>1. Evolves(dev, Cleared(fetched))
            BY <1>7, <1>9, EvolvesTransitive
        <3>2. Told => Cleared(fetched).detectedType \in KnownType
            BY <1>5, <3>1 DEF Evolves
        <3>3. Fits(Told, Cleared(fetched), window')
            BY <1>9, <3>2 DEF Fits, NoCommon
        <3>. QED BY <2>2, <3>1, <3>3, NoSignalSteps
    <2>. QED BY <1>3, <2>1, <2>2
<1>12. calls' = Below /\ disturbed' = disturbed
    BY <1>1 DEF Return
<1>13. CallsStep
    BY <1>1, <1>11, <1>12, CallsKept
<1>14. RestStep
    BY <1>1, <1>2, <1>10, <1>12, RestKept
<1>. QED BY <1>11, <1>13, <1>14 DEF Step

\* The returns that leave the object alone.
LEMMA ReturnSteps ==
    ASSUME IInv, NoSignal(dev), calls # <<>>, calls' = Below, disturbed' \in BOOLEAN,
           lastOk' \in BOOLEAN, UNCHANGED <<testIsActive, window, fixed, external>>
    PROVE  Step
<1>1. /\ Evolves(dev, dev) /\ Fits(Told, dev, window)
      /\ testIsActive \in BOOLEAN /\ window \in BOOLEAN
    BY IInvFacts
<1>2. ObjectStep
    BY <1>1, NoSignalSteps
<1>3. CallsStep
    BY <1>2, CallsKept
<1>4. RestStep
    BY <1>1, RestKept
<1>. QED BY <1>2, <1>3, <1>4 DEF Step

\* A full fetch returns without its command.
LEMMA FullFailsSteps ==
    ASSUME IInv, FullFails PROVE Step
<1>1. disturbed \in BOOLEAN
    BY IInvFacts
<1>2. /\ NoSignal(dev) /\ calls # <<>> /\ calls' = Below /\ disturbed' = disturbed
      /\ lastOk' = FALSE /\ UNCHANGED <<testIsActive, window, fixed, external>>
    BY DEF FullFails, Ended, Return
<1>3. disturbed' \in BOOLEAN /\ lastOk' \in BOOLEAN
    BY <1>1, <1>2
<1>. QED BY <1>2, <1>3, ReturnSteps

\* Switching SMART returns, and the data are read again or not.
LEMMA SwitchReturnsSteps ==
    ASSUME IInv, SwitchReturns \/ SwitchReturnsElsewhere PROVE Step
<1>1. /\ calls # <<>> /\ UNCHANGED <<testIsActive, window, lastOk, fixed, external>>
    BY DEF SwitchReturns, SwitchReturnsElsewhere, Ended
<1>2. /\ Evolves(dev, dev) /\ Fits(Told, dev, window) /\ disturbed \in BOOLEAN
      /\ testIsActive \in BOOLEAN /\ window \in BOOLEAN /\ lastOk \in BOOLEAN
    BY IInvFacts
<1>3. \/ NoSignal(dev) /\ calls' = Below /\ disturbed' \in {disturbed, TRUE}
      \/ StartBasic(dev, Below, 0)
    BY DEF SwitchReturns, SwitchReturnsElsewhere, Return
<1>4. CASE NoSignal(dev) /\ calls' = Below /\ disturbed' \in {disturbed, TRUE}
    <2>1. disturbed' \in BOOLEAN /\ lastOk' \in BOOLEAN
        BY <1>1, <1>2, <1>4
    <2>. QED BY <1>1, <1>4, <2>1, ReturnSteps
<1>5. CASE StartBasic(dev, Below, 0)
    <2>1. Below \in Seq(FittingCalls(Told, dev)) /\ Len(Below) < MaxDepth
        BY <1>1, TopFacts
    <2>2. 0 \in {0, 1} /\ 0 # 1
        OBVIOUS
    <2>3. ObjectStep /\ CallsStep /\ disturbed' \in BOOLEAN
        BY <1>1, <1>2, <1>5, <2>1, <2>2, StartBasicSteps
    <2>4. RestStep
        BY <1>1, <1>2, <2>3, RestKept
    <2>. QED BY <2>3, <2>4 DEF Step
<1>. QED BY <1>3, <1>4, <1>5

\* Enabling SMART for a window returns to show_device_info_window().
LEMMA EnablingReturnsSteps ==
    ASSUME IInv, EnablingReturns PROVE Step
<1>1. /\ calls # <<>> /\ FetchAndShow(Below)
      /\ UNCHANGED <<testIsActive, fixed, external>>
    BY DEF EnablingReturns, Ended
<1>. QED BY <1>1, FetchAndShowSteps

-----------------------------------------------------------------------------
(* Tests, and the drive.                                                   *)

\* A test begins or ends.
LEMMA SetTestIsActiveSteps ==
    ASSUME IInv, SetTestIsActive PROVE Step
<1>1. /\ Signal(dev) /\ testIsActive' = ~testIsActive
      /\ disturbed' = (disturbed \/ calls # <<>>)
      /\ UNCHANGED <<calls, window, lastOk, fixed, external>>
    BY DEF SetTestIsActive
<1>2. /\ Evolves(dev, dev) /\ Fits(Told, dev, window) /\ disturbed \in BOOLEAN
      /\ window \in BOOLEAN /\ lastOk \in BOOLEAN
    BY IInvFacts
<1>3. ObjectStep
    BY <1>1, <1>2, SignalSteps
<1>4. CallsStep
    BY <1>1, <1>3, CallsKept
<1>5. RestStep
    BY <1>1, <1>2, RestKept
<1>. QED BY <1>3, <1>4, <1>5 DEF Step

\* Another drive behind the name leaves the object alone.
LEMMA DriveReplacedSteps ==
    ASSUME IInv, DriveReplaced PROVE Step
<1>1. /\ swaps < MaxSwaps /\ medium' \in Drives /\ smartOn' \in BOOLEAN
      /\ swaps' = swaps + 1 /\ disturbed' = TRUE
      /\ UNCHANGED <<dev, testIsActive, calls, window, view, lastOk, fixed>>
    BY DEF DriveReplaced
<1>2. /\ Evolves(dev, dev) /\ Fits(Told, dev, window) /\ view \in Views
      /\ testIsActive \in BOOLEAN /\ window \in BOOLEAN /\ lastOk \in BOOLEAN
      /\ swaps \in 0 .. MaxSwaps
    BY IInvFacts
<1>3. swaps' \in 0 .. MaxSwaps
    BY <1>1, <1>2, BoundsAssumption
<1>4. ObjectStep
    BY <1>1, <1>2 DEF ObjectStep
<1>5. CallsStep
    BY <1>1, <1>4, CallsKept
<1>6. RestStep
    BY <1>1, <1>2, <1>3 DEF RestStep
<1>. QED BY <1>4, <1>5, <1>6 DEF Step

-----------------------------------------------------------------------------
(* The invariant.                                                          *)

\* Every action is such a step, and
LEMMA NextSteps ==
    ASSUME IInv, Next PROVE Step
<1>1. CASE User
    BY <1>1, RereadSteps, SmartSteps, OpenSteps, RefreshSteps, LoadVirtualSteps,
       SetTestIsActiveSteps DEF User
<1>2. CASE CallReturns
    BY <1>2, BasicRetriesSteps, BasicReturnsSteps, FullReturnsSteps, FullFailsSteps,
       SwitchReturnsSteps, EnablingReturnsSteps DEF CallReturns
<1>3. CASE DriveReplaced
    BY <1>3, DriveReplacedSteps
<1>4. CASE \E i \in 1 .. MaxDepth : CommandRuns(i)
    BY <1>4, CommandRunsSteps
<1>. QED BY <1>1, <1>2, <1>3, <1>4 DEF Next

\* so is doing nothing.
LEMMA StutterSteps ==
    ASSUME IInv, UNCHANGED vars PROVE Step
<1>1. UNCHANGED <<dev, testIsActive, isVirtual, defaultFormat, calls, window, view, medium,
                  smartOn, swaps, disturbed, lastOk>>
    BY DEF vars
<1>2. /\ Evolves(dev, dev) /\ Fits(Told, dev, window) /\ view \in Views
      /\ testIsActive \in BOOLEAN /\ window \in BOOLEAN /\ lastOk \in BOOLEAN
      /\ smartOn \in BOOLEAN /\ disturbed \in BOOLEAN /\ medium \in Drives
      /\ swaps \in 0 .. MaxSwaps
    BY IInvFacts
<1>3. ObjectStep
    BY <1>1, <1>2 DEF ObjectStep
<1>4. CallsStep
    BY <1>1, <1>3, CallsKept
<1>5. RestStep
    BY <1>1, <1>2 DEF RestStep, fixed
<1>. QED BY <1>3, <1>4, <1>5 DEF Step

\* Such a step keeps the invariant.
LEMMA StepKeeps ==
    ASSUME IInv, Step PROVE IInv'
<1>1. /\ isVirtual \in BOOLEAN /\ defaultFormat \in Formats
    BY IInvFacts
<1>2. isVirtual' = isVirtual /\ defaultFormat' = defaultFormat
    BY DEF Step, RestStep, fixed
<1>3. Told' = Told
    BY <1>2 DEF Told
<1>4. /\ dev' \in Device /\ HealthFits(dev') /\ view' \in Views /\ Fits(Told, dev', window')
      /\ calls' \in Seq(FittingCalls(Told, dev')) /\ Len(calls') <= MaxDepth
      /\ {testIsActive', window', smartOn', disturbed', lastOk'} \subseteq BOOLEAN
      /\ medium' \in Drives /\ swaps' \in 0 .. MaxSwaps
    BY DEF Step, ObjectStep, CallsStep, RestStep, Evolves
<1>5. Seq(FittingCalls(Told, dev')) \subseteq Seq(Call)
    <2>1. FittingCalls(Told, dev') \subseteq Call
        BY DEF FittingCalls
    <2>. QED BY <2>1
<1>6. TypeOK'
    BY <1>1, <1>2, <1>4, <1>5 DEF TypeOK
<1>7. HealthFits(dev)'
    BY <1>4 DEF HealthFits
<1>8. Fits(Told, dev, window)'
    BY <1>3, <1>4 DEF Fits
<1>9. FittingCalls(Told, dev)' = FittingCalls(Told, dev')
    BY <1>3 DEF FittingCalls, CallFits, HasType
<1>. QED BY <1>4, <1>6, <1>7, <1>8, <1>9 DEF IInv

\* A new object has no data, no calls and no window.
LEMMA IInvInit ==
    ASSUME Init PROVE IInv
<1>1. PICK typeArg \in TypeArgs :
        dev = Constructed(typeArg) /\ view = ViewOf(Constructed(typeArg))
    BY DEF Init
<1>2. /\ isVirtual \in BOOLEAN /\ defaultFormat \in Formats /\ medium \in Drives
      /\ smartOn \in BOOLEAN /\ testIsActive = FALSE /\ calls = <<>> /\ window = FALSE
      /\ swaps = 0 /\ disturbed = FALSE /\ lastOk = TRUE
    BY DEF Init
<1>3. EmptyReport \in Report
    BY BannerType DEF EmptyReport
<1>4. NoProperties \in Properties /\ NoCommon \in Common /\ None \in Answer
      /\ "None" \in ParseStatus /\ "Unknown" \in DetectedType
    BY DEF NoProperties, Properties, NoCommon, Common, ParseStatus, Kind, Answer, DetectedType
<1>5. dev \in Device
    BY <1>1, <1>3, <1>4 DEF Constructed, Device
<1>6. dev.health = None /\ dev.parseStatus = "None" /\ dev.common = NoCommon
    BY <1>1 DEF Constructed
<1>7. HealthFits(dev)
    BY <1>6 DEF HealthFits
<1>8. Fits(Told, dev, window)
    BY <1>2, <1>6 DEF Fits, NoCommon
<1>9. view \in Views
    BY <1>1, <1>5, <1>7, HealthAskedEvolves
<1>10. \A S : calls \in Seq(S)
    BY <1>2
<1>11. Len(calls) = 0 /\ 0 <= MaxDepth /\ 0 \in 0 .. MaxSwaps
    BY <1>2, BoundsAssumption
<1>12. {testIsActive, isVirtual, window, smartOn, disturbed, lastOk} \subseteq BOOLEAN
    BY <1>2
<1>13. TypeOK
    BY <1>2, <1>5, <1>9, <1>10, <1>11, <1>12 DEF TypeOK
<1>. QED BY <1>7, <1>8, <1>10, <1>13 DEF IInv

\* The object fits its properties and the calls in progress at all times.
THEOREM Invariance == Spec => []IInv
<1>1. Init => IInv
    BY IInvInit
<1>2. IInv /\ [Next]_vars => IInv'
    BY NextSteps, StutterSteps, StepKeeps
<1>. QED BY <1>1, <1>2, PTL DEF Spec

-----------------------------------------------------------------------------
(* What follows from it.                                                   *)

\* The variables keep their types through every nesting of calls.
THEOREM TypeCorrect == Spec => []TypeOK
<1>1. IInv => TypeOK
    BY DEF IInv
<1>. QED BY <1>1, Invariance, PTL

\* get_health_property() never returns what it cached from data that are gone.
THEOREM HealthNeverStale == Spec => []HealthIsCurrent
<1>1. IInv => HealthIsCurrent
    BY DEF IInv, HealthFits, HealthIsCurrent
<1>. QED BY <1>1, Invariance, PTL

\* An object without data has no SMART to switch or to read.
THEOREM NoDataMeansNoSmart == Spec => []NoDataNoSmart
<1>1. ASSUME IInv, ~isVirtual, defaultFormat = "json", dev.parseStatus = "None"
      PROVE  SmartStatus(dev) = "Unsupported"
    <2>1. dev.common.available = None /\ dev.common.enabled = None
        BY <1>1 DEF IInv, Fits, Told
    <2>. QED BY <2>1 DEF SmartStatus, None
<1>2. IInv => NoDataNoSmart
    BY <1>1 DEF NoDataNoSmart
<1>. QED BY <1>2, Invariance, PTL

\* The calls in progress are elements of the sequence.
LEMMA CallsInProgress ==
    ASSUME IInv, NEW call \in ToSet(calls)
    PROVE  call \in Call /\ CallFits(Told, dev, call)
<1>1. calls \in Seq(FittingCalls(Told, dev))
    BY DEF IInv
<1>2. call \in FittingCalls(Told, dev)
    BY <1>1 DEF ToSet
<1>. QED BY <1>2 DEF FittingCalls

\* No command is run for a virtual drive.
VirtualIsIdle == isVirtual => calls = <<>>

\* No step makes a call for one, and no call is there to return.
LEMMA VirtualStaysIdle ==
    ASSUME VirtualIsIdle, Next PROVE VirtualIsIdle'
<1>1. SUFFICES ASSUME isVirtual' PROVE calls' = <<>>
    BY DEF VirtualIsIdle
<1>2. isVirtual' = isVirtual
    <2>1. CASE User
        BY <2>1 DEF User, Reread, ToggleSmart, OpenEnabling, Open, Refresh, LoadVirtual,
                    SetTestIsActive, fixed
    <2>2. CASE CallReturns
        BY <2>2 DEF CallReturns, BasicRetries, BasicReturns, FullReturns, FullFails,
                    SwitchReturns, SwitchReturnsElsewhere, EnablingReturns, fixed
    <2>3. CASE DriveReplaced
        BY <2>3 DEF DriveReplaced, fixed
    <2>4. CASE \E i \in 1 .. MaxDepth : CommandRuns(i)
        BY <2>4 DEF CommandRuns, fixed
    <2>. QED BY <2>1, <2>2, <2>3, <2>4 DEF Next
<1>3. isVirtual /\ calls = <<>>
    BY <1>1, <1>2 DEF VirtualIsIdle
<1>4. CASE User
    <2>1. Open \/ LoadVirtual
        BY <1>3, <1>4 DEF User, Reread, ToggleSmart, SwitchSupported, OpenEnabling, Refresh,
                          SetTestIsActive
    <2>2. CASE Open
        BY <1>3, <2>2 DEF Open, FetchAndShow
    <2>3. CASE LoadVirtual
        BY <1>3, <2>3 DEF LoadVirtual
    <2>. QED BY <2>1, <2>2, <2>3
<1>5. ~CallReturns
    BY <1>3 DEF CallReturns, BasicRetries, BasicReturns, FullReturns, FullFails,
                SwitchReturns, SwitchReturnsElsewhere, EnablingReturns, Ended
<1>6. ~DriveReplaced
    BY <1>3 DEF DriveReplaced
<1>7. ~ \E i \in 1 .. MaxDepth : CommandRuns(i)
    <2>1. DOMAIN calls = {}
        BY <1>3
    <2>. QED BY <2>1 DEF CommandRuns
<1>. QED BY <1>4, <1>5, <1>6, <1>7 DEF Next

\* The full data are never asked for before the type of the drive is known.
THEOREM TypeKnownBeforeFullFetch == Spec => []FullFetchKnowsType
<1>1. Init => VirtualIsIdle
    BY DEF Init, VirtualIsIdle
<1>2. VirtualIsIdle /\ [Next]_vars => VirtualIsIdle'
    BY VirtualStaysIdle DEF VirtualIsIdle, vars
<1>3. ASSUME IInv, VirtualIsIdle, defaultFormat = "json", NEW call \in ToSet(calls),
             call.cmd = "full"
      PROVE  call.type \notin {"Unknown", "NeedsExplicitType"}
    <2>1. ~isVirtual
        BY <1>3 DEF VirtualIsIdle, ToSet
    <2>2. call.type \in KnownType
        BY <1>3, <2>1, CallsInProgress DEF CallFits, Told
    <2>. QED BY <2>2 DEF KnownType
<1>4. IInv /\ VirtualIsIdle => FullFetchKnowsType
    BY <1>3 DEF FullFetchKnowsType
<1>. QED BY <1>1, <1>2, <1>4, Invariance, PTL DEF Spec

\* fetch_basic_data_and_parse() calls itself at most once, whatever smartctl answers.
THEOREM RetriesAtMostOnce == Spec => []RetriesOnce
<1>1. ASSUME IInv, NEW call \in ToSet(calls) PROVE call.tries <= 1
    BY <1>1, CallsInProgress DEF CallFits
<1>2. IInv => RetriesOnce
    BY <1>1 DEF RetriesOnce
<1>. QED BY <1>2, Invariance, PTL

-----------------------------------------------------------------------------
(* Data that were read undisturbed.  Of the object d, the drive behind its *)
(* name is m, with SMART on or off.                                        *)

SavedOf(d) == IF d.fullOutput # EmptyReport THEN d.fullOutput ELSE d.basicOutput

\* What the object holds was parsed from the output that the user can save.
Backed(d) ==
    d.parseStatus # "None" =>
        \E parser \in ParserType, format \in Format :
            /\ Parses(parser, format, SavedOf(d))
            /\ d.properties = PropertiesOf(parser, format, SavedOf(d))

\* What it says of SMART is so.
Truthful(d, m, on) ==
    d.parseStatus # "None" => (d.common.enabled = "yes" <=> HasSmart(m, d.typeArg) /\ on)

\* A fetch has taken everything and waits for its output.
Emptied(d) ==
    d.parseStatus = "None" /\ d.basicOutput = EmptyReport /\ d.fullOutput = EmptyReport

\* What a fetch may get, while nothing happens to the drive.
Printable(call, m, on, format) ==
    LET full == call.cmd = "full"
    IN {Printed(m, on, call.typeArg, full, format)}
        \cup FailedPrints(m, on, call.typeArg, full, format)

\* A call that nothing disturbs: a fetch has emptied the object; a switch keeps its data until
\* they are read again, which the caller will do.
Alone(call, d, m, on, format) ==
    \/ /\ call.cmd \in {"basic", "full"} /\ Emptied(d) /\ call.typeArg = d.typeArg
       /\ call.reply.result # None => call.reply \in Printable(call, m, on, format)
    \/ /\ call.cmd \in {"smartOn", "smartOff"} /\ Backed(d)
       /\ call.reply.result = None => Truthful(d, m, on)
       /\ call.then = "reread" \/ (call.then = "open" /\ SmartStatus(d) # "Unsupported")

DataInv ==
    ~disturbed =>
        \/ calls = <<>> /\ Backed(dev) /\ (isVirtual \/ Truthful(dev, medium, smartOn))
        \/ /\ ~testIsActive /\ ~isVirtual
           /\ Len(calls) = 1 /\ Alone(calls[1], dev, medium, smartOn, defaultFormat)

\* A report of the drive tells whether SMART is enabled, whatever parser reads it.
LEMMA SmartIsRead ==
    ASSUME NEW m \in Medium, NEW on \in BOOLEAN, NEW arg, NEW full, NEW format, NEW parser, NEW f
    PROVE  PropertiesOf(parser, f, Described(m, on, arg, full, format)).enabled = "yes"
              <=> HasSmart(m, arg) /\ on
<1>. DEFINE r == Described(m, on, arg, full, format)
<1>1. m.class \in Class
    BY DEF Medium
<1>2. /\ r.available = YesNo(HasSmart(m, arg))
      /\ r.enabled = IF HasSmart(m, arg) THEN YesNo(on) ELSE None
      /\ HasSmart(m, arg) => r.kind # "raid"
    BY <1>1 DEF Described, HasSmart, Class, KindOfClass
<1>. HIDE DEF r
<1>3. PropertiesOf(parser, f, r).enabled \in
        {r.enabled, IF \/ r.kind = "raid" \/ r.available = "no"
                       \/ r.available = "yes" /\ r.enabled = "no" THEN "no" ELSE "yes"}
    <2>1. JsonProperties(parser, r).enabled = r.enabled
        BY DEF JsonProperties
    <2>2. TextAtaProperties(r).enabled = r.enabled
        BY DEF TextAtaProperties
    <2>3. TextBasicProperties(r).enabled =
            IF \/ r.kind = "raid" \/ r.available = "no"
               \/ r.available = "yes" /\ r.enabled = "no" THEN "no" ELSE "yes"
        BY DEF TextBasicProperties
    <2>. QED BY <2>1, <2>2, <2>3 DEF PropertiesOf
<1>4. CASE HasSmart(m, arg)
    <2>1. r.available = "yes" /\ r.enabled = YesNo(on) /\ r.kind # "raid"
        BY <1>2, <1>4 DEF YesNo
    <2>2. CASE on
        <3>1. r.enabled = "yes"
            BY <2>1, <2>2 DEF YesNo
        <3>. QED BY <1>3, <1>4, <2>1, <2>2, <3>1 DEF r
    <2>3. CASE ~on
        <3>1. r.enabled = "no"
            BY <2>1, <2>3 DEF YesNo
        <3>. QED BY <1>3, <1>4, <2>1, <2>3, <3>1 DEF r
    <2>. QED BY <2>2, <2>3
<1>5. CASE ~HasSmart(m, arg)
    <2>1. r.available = "no" /\ r.enabled = None
        BY <1>2, <1>5 DEF YesNo
    <2>. QED BY <1>3, <1>5, <2>1 DEF r, None
<1>. QED BY <1>4, <1>5

\* What a fetch gets is such a report, or names no model and comes with an error.
LEMMA PrintableTells ==
    ASSUME NEW call, NEW m, NEW on, NEW format, call.reply \in Printable(call, m, on, format)
    PROVE  \/ call.reply.report = Described(m, on, call.typeArg, call.cmd = "full", format)
           \/ call.reply.report.model = FALSE /\ call.reply.result = "error"
<1>. DEFINE full == call.cmd = "full"
            printed == Printed(m, on, call.typeArg, full, format)
            described == Described(m, on, call.typeArg, full, format)
<1>1. \A f, asks : Banner(f, asks).model = FALSE
    BY DEF Banner
<1>2. \/ printed.report = described
      \/ printed.report.model = FALSE /\ printed.result = "error"
    BY <1>1 DEF Printed
<1>3. CASE call.reply = printed
    BY <1>2, <1>3
<1>4. CASE call.reply \in FailedPrints(m, on, call.typeArg, full, format)
    <2>1. /\ call.reply.result = "error"
          /\ \/ call.reply.report = printed.report
             \/ \E f, asks : call.reply.report = Banner(f, asks)
        BY <1>4 DEF FailedPrints, EmptyReport
    <2>. QED BY <1>1, <1>2, <2>1
<1>. QED BY <1>3, <1>4 DEF Printable

\* The common part of a parse leaves the outputs and the "-d" argument.
LEMMA UnderstoodHolds ==
    ASSUME NEW d \in Device, NEW parser, NEW format, NEW report \in Report
    PROVE  LET u == Understood(Cleared(d), parser, format, report)
               p == PropertiesOf(parser, format, report)
           IN /\ u \in Device /\ u.properties = p /\ u.common.enabled = p.enabled
              /\ u.common.model = p.model /\ u.typeArg = d.typeArg
              /\ u.basicOutput = d.basicOutput /\ u.fullOutput = d.fullOutput
<1>. DEFINE u == Understood(Cleared(d), parser, format, report)
            c == Cleared(d)
            p == PropertiesOf(parser, format, report)
            common == [available |-> p.available, enabled |-> p.enabled, model |-> p.model]
            t == TypeFrom(c.detectedType, p)
            serial == IF p.serial = None THEN c.serialNumber ELSE p.serial
<1>1. c \in Device /\ c.typeArg = d.typeArg /\ c.basicOutput = d.basicOutput
      /\ c.fullOutput = d.fullOutput
    BY ClearedEvolves DEF Evolves, Cleared, Device
<1>2. Knows(d, u, p)
    BY UnderstoodKnows
<1>. HIDE DEF p, c
<1>3. u = [c EXCEPT !.properties = p, !.detectedType = t, !.common = common,
                    !.serialNumber = serial]
    BY <1>1 DEF Understood, CommonRead, Device, p, c
<1>. HIDE DEF t, serial, common, u
<1>4. /\ u.properties = p /\ u.common = common /\ u.basicOutput = c.basicOutput
      /\ u.fullOutput = c.fullOutput
    BY <1>1, <1>3 DEF Device
<1>5. u \in Device /\ u.typeArg = d.typeArg
    BY <1>2 DEF Knows
<1>6. common.enabled = p.enabled /\ common.model = p.model
    BY DEF common
<1>. QED BY <1>1, <1>4, <1>5, <1>6 DEF u, p

\* Asking for the health leaves the data.
LEMMA AskedHolds ==
    ASSUME NEW d \in Device
    PROVE  /\ Backed(HealthAsked(d)) <=> Backed(d)
           /\ \A m, on : Truthful(HealthAsked(d), m, on) <=> Truthful(d, m, on)
<1>. DEFINE h == HealthOf(d)
            a == [d EXCEPT !.health = h]
<1>1. HealthAsked(d) = a
    BY DEF HealthAsked
<1>. HIDE DEF h
<1>2. /\ a.parseStatus = d.parseStatus /\ a.properties = d.properties /\ a.common = d.common
      /\ a.typeArg = d.typeArg /\ a.basicOutput = d.basicOutput /\ a.fullOutput = d.fullOutput
    BY DEF Device
<1>. HIDE DEF a
<1>3. SavedOf(a) = SavedOf(d)
    BY <1>2 DEF SavedOf
<1>. QED BY <1>1, <1>2, <1>3 DEF Backed, Truthful

\* parse_basic_data() of what a fetch got: the output is the only one there is.
LEMMA BasicHolds ==
    ASSUME NEW d \in Device, d.fullOutput = EmptyReport, BasicParses(d.basicOutput),
           NEW call, call.reply.report = d.basicOutput, call.typeArg = d.typeArg,
           NEW m \in Medium, NEW on \in BOOLEAN, NEW format,
           call.reply \in Printable(call, m, on, format)
    PROVE  Backed(BasicParsed(d)) /\ Truthful(BasicParsed(d), m, on)
<1>. DEFINE report == d.basicOutput
            f == BasicFormat(report)
            p == PropertiesOf("Basic", f, report)
            u == Understood(Cleared(d), "Basic", f, report)
            status == IF u.common.model THEN "Basic" ELSE "None"
            b == [u EXCEPT !.parseStatus = status]
<1>1. BasicParsed(d) = b
    BY DEF BasicParsed
<1>2. report \in Report
    BY DEF Device
<1>3. /\ u \in Device /\ u.properties = p /\ u.common.enabled = p.enabled
      /\ u.common.model = p.model /\ u.typeArg = d.typeArg
      /\ u.basicOutput = report /\ u.fullOutput = EmptyReport
    BY <1>2, UnderstoodHolds
<1>. HIDE DEF u
<1>4. /\ b.properties = p /\ b.common.enabled = p.enabled /\ b.typeArg = d.typeArg
      /\ b.basicOutput = report /\ b.fullOutput = EmptyReport /\ b.parseStatus = status
    BY <1>3 DEF Device
<1>5. status # "None" => p.model
    BY <1>3
<1>. HIDE DEF b, status
<1>6. f \in Format /\ "Basic" \in ParserType /\ Parses("Basic", f, report)
    BY DEF BasicFormat, DetectedFormat, Format, ParserType, BasicParses, None
<1>7. SavedOf(b) = report
    BY <1>4 DEF SavedOf
<1>8. Backed(b)
    BY <1>4, <1>6, <1>7 DEF Backed
<1>9. p.model = report.model
    BY DEF PropertiesOf, JsonProperties, TextBasicProperties
<1>. HIDE DEF p
<1>10. Truthful(b, m, on)
    <2>1. SUFFICES ASSUME status # "None"
                   PROVE  p.enabled = "yes" <=> HasSmart(m, d.typeArg) /\ on
        BY <1>4 DEF Truthful
    <2>2. report = Described(m, on, call.typeArg, call.cmd = "full", format)
        BY <1>5, <1>9, <2>1, PrintableTells
    <2>. QED BY <2>2, SmartIsRead DEF p
<1>. QED BY <1>1, <1>8, <1>10

\* parse_full_data() of what a successful one got.
LEMMA FullHolds ==
    ASSUME NEW d \in Device, NEW parser \in ParserType, NEW format \in Format,
           Parses(parser, format, d.fullOutput),
           NEW call, call.reply.report = d.fullOutput, call.typeArg = d.typeArg,
           NEW m \in Medium, NEW on \in BOOLEAN,
           call.reply \in Printable(call, m, on, format), call.reply.result = "ok"
    PROVE  Backed(FullParsed(d, parser, format)) /\ Truthful(FullParsed(d, parser, format), m, on)
<1>. DEFINE report == d.fullOutput
            p == PropertiesOf(parser, format, report)
            u == Understood(Cleared(d), parser, format, report)
            status == IF parser = "Basic" THEN "Basic" ELSE "Full"
            b == [u EXCEPT !.parseStatus = status]
<1>1. FullParsed(d, parser, format) = b
    BY DEF FullParsed
<1>2. report \in Report
    BY DEF Device
<1>3. /\ u \in Device /\ u.properties = p /\ u.common.enabled = p.enabled
      /\ u.typeArg = d.typeArg /\ u.fullOutput = report
    BY <1>2, UnderstoodHolds
<1>. HIDE DEF u
<1>4. /\ b.properties = p /\ b.common.enabled = p.enabled /\ b.typeArg = d.typeArg
      /\ b.fullOutput = report
    BY <1>3 DEF Device
<1>. HIDE DEF b
<1>5. report # EmptyReport
    <2>1. report.format \in Format
        BY DEF Parses
    <2>2. EmptyReport.format \notin Format
        BY DEF EmptyReport, Banner, Format
    <2>. QED BY <2>1, <2>2
<1>6. Backed(b)
    BY <1>4, <1>5 DEF Backed, SavedOf
<1>7. report = Described(m, on, call.typeArg, call.cmd = "full", format)
    BY PrintableTells
<1>8. p.enabled = "yes" <=> HasSmart(m, d.typeArg) /\ on
    BY <1>7, SmartIsRead
<1>. HIDE DEF p
<1>9. Truthful(b, m, on)
    BY <1>4, <1>8 DEF Truthful
<1>. QED BY <1>1, <1>6, <1>9

\* Parsing a file: it is both outputs.
LEMMA VirtualHolds ==
    ASSUME NEW d \in Device, d.fullOutput # EmptyReport, d.fullOutput.format \in Format,
           Parses("Basic", DetectedFormat(d.fullOutput), d.fullOutput)
    PROVE  Backed(VirtualParsed(d)) /\ VirtualParsed(d) \in Device
<1>. DEFINE report == d.fullOutput
            format == DetectedFormat(report)
            basic  == Understood(Cleared(d), "Basic", format, report)
            parser == ParserFor(basic.detectedType)
            p      == PropertiesOf(parser, format, report)
            full   == [basic EXCEPT !.parseStatus = "Full", !.properties = p]
            half   == [basic EXCEPT !.parseStatus = "Basic"]
<1>1. \/ VirtualParsed(d) = full /\ Parses(parser, format, report)
      \/ VirtualParsed(d) = half
    BY DEF VirtualParsed
<1>2. report \in Report
    BY DEF Device
<1>3. /\ basic \in Device /\ basic.properties = PropertiesOf("Basic", format, report)
      /\ basic.fullOutput = report
    BY <1>2, UnderstoodHolds
<1>4. VirtualParsed(d) \in Device
    BY <1>2, VirtualParsedEvolves DEF Evolves
<1>5. parser \in ParserType /\ "Basic" \in ParserType
    BY DEF ParserFor, ParserType
<1>6. format \in Format
    BY DEF DetectedFormat, Format
<1>. HIDE DEF basic, p, parser
<1>7. full.properties = p /\ full.fullOutput = report
    BY <1>3 DEF Device
<1>8. half.properties = basic.properties /\ half.fullOutput = report
    BY <1>3 DEF Device
<1>. HIDE DEF full, half, format
<1>9. CASE VirtualParsed(d) = full /\ Parses(parser, format, report)
    BY <1>4, <1>5, <1>6, <1>7, <1>9 DEF Backed, SavedOf, p
<1>10. CASE VirtualParsed(d) = half
    BY <1>3, <1>4, <1>5, <1>6, <1>8, <1>10 DEF Backed, SavedOf, format
<1>. QED BY <1>1, <1>9, <1>10

-----------------------------------------------------------------------------
(* Every step leaves what was read undisturbed as it is on the drive.      *)

DataKept == IInv /\ VirtualIsIdle /\ DataInv

\* The parts of the invariant, by what is in progress.
LEMMA DataFacts ==
    ASSUME DataKept
    PROVE  /\ dev \in Device /\ medium \in Medium /\ smartOn \in BOOLEAN
           /\ defaultFormat \in Format /\ Len(calls) \in Nat
           /\ calls = <<>> \/ ~isVirtual
           /\ calls = <<>> /\ ~disturbed =>
                Backed(dev) /\ (isVirtual \/ Truthful(dev, medium, smartOn))
           /\ calls # <<>> /\ ~disturbed =>
                /\ ~testIsActive /\ calls = <<Top>> /\ Below = <<>> /\ Top = calls[1]
                /\ Alone(Top, dev, medium, smartOn, defaultFormat)
<1>1. /\ dev \in Device /\ medium \in Medium /\ smartOn \in BOOLEAN
      /\ defaultFormat \in Format /\ Len(calls) \in Nat
    BY IInvFacts, DrivesAssumption, FormatsAssumption DEF DataKept
<1>2. calls = <<>> \/ ~isVirtual
    BY DEF DataKept, VirtualIsIdle
<1>3. calls \in Seq(Call)
    BY DEF DataKept, IInv, TypeOK
<1>4. ASSUME calls = <<>>, ~disturbed
      PROVE  Backed(dev) /\ (isVirtual \/ Truthful(dev, medium, smartOn))
    <2>1. Len(calls) # 1
        BY <1>4
    <2>. QED BY <1>4, <2>1 DEF DataKept, DataInv
<1>5. ASSUME calls # <<>>, ~disturbed
      PROVE  /\ ~testIsActive /\ calls = <<Top>> /\ Below = <<>> /\ Top = calls[1]
             /\ Alone(Top, dev, medium, smartOn, defaultFormat)
    <2>1. ~testIsActive /\ Len(calls) = 1 /\ Alone(calls[1], dev, medium, smartOn, defaultFormat)
        BY <1>5 DEF DataKept, DataInv
    <2>2. Top = calls[1]
        BY <1>3, <1>5, <2>1, FrontFits DEF Top
    <2>3. Below = <<>>
        <3>1. Below \in Seq(Call) /\ Len(Below) = 0
            BY <1>3, <1>5, <2>1, FrontFits DEF Below
        <3>. QED BY <3>1
    <2>4. calls = <<calls[1]>>
        BY <1>3, <2>1
    <2>. QED BY <2>1, <2>2, <2>3, <2>4
<1>. QED BY <1>1, <1>2, <1>4, <1>5

\* With no call in progress, what counts is the object,
LEMMA IdleData ==
    ASSUME calls' = <<>>,
           ~disturbed' => Backed(dev') /\ (isVirtual' \/ Truthful(dev', medium', smartOn'))
    PROVE  DataInv'
BY DEF DataInv

\* and with one, what it waits for.
LEMMA BusyData ==
    ASSUME NEW call, calls' = <<call>>, ~isVirtual', ~testIsActive',
           ~disturbed' => Alone(call, dev', medium', smartOn', defaultFormat')
    PROVE  DataInv'
<1>1. Len(calls') = 1 /\ calls'[1] = call
    OBVIOUS
<1>. QED BY <1>1 DEF DataInv

\* A fetch that begins on its own has emptied the object.
LEMMA FetchBegins ==
    ASSUME NEW d \in Device, NEW below, NEW then, NEW tries, NEW cmd \in {"basic", "full"},
           NoSignal(OutputsCleared(Cleared(d))), Push(below, NewCall(cmd, then, d, tries)),
           ~isVirtual, ~testIsActive, isVirtual' = isVirtual, testIsActive' = testIsActive
    PROVE  DataInv'
<1>. DEFINE call == NewCall(cmd, then, d, tries)
            c == Cleared(d)
            e == OutputsCleared(c)
<1>1. c \in Device /\ c.parseStatus = "None" /\ c.typeArg = d.typeArg
    BY ClearedEvolves DEF Evolves
<1>. HIDE DEF c
<1>2. Emptied(e) /\ e.typeArg = d.typeArg
    BY <1>1 DEF OutputsCleared, Device, Emptied
<1>. HIDE DEF e
<1>3. /\ dev' = e /\ calls' = Append(below, call)
      /\ below # <<>> => disturbed'
    BY DEF NoSignal, Push, e, c
<1>4. call.cmd = cmd /\ call.typeArg = d.typeArg /\ call.reply.result = None
    BY DEF NewCall, NoReply
<1>. HIDE DEF call
<1>5. CASE below = <<>>
    <2>1. calls' = <<call>>
        BY <1>3, <1>5
    <2>2. Alone(call, dev', medium', smartOn', defaultFormat')
        BY <1>2, <1>3, <1>4 DEF Alone
    <2>. QED BY <2>1, <2>2, BusyData
<1>6. CASE below # <<>>
    BY <1>3, <1>6 DEF DataInv
<1>. QED BY <1>5, <1>6

\* The two fetches.
LEMMA BasicBegins ==
    ASSUME NEW d \in Device, NEW below, NEW tries, StartBasic(d, below, tries),
           ~isVirtual, ~testIsActive, isVirtual' = isVirtual, testIsActive' = testIsActive
    PROVE  DataInv'
<1>1. "basic" \in {"basic", "full"}
    OBVIOUS
<1>2. NoSignal(OutputsCleared(Cleared(d))) /\ Push(below, NewCall("basic", "", d, tries))
    BY DEF StartBasic
<1>. QED BY <1>1, <1>2, FetchBegins

LEMMA FullBegins ==
    ASSUME dev \in Device, NEW below, NEW then, StartFull(below, then),
           ~isVirtual, ~testIsActive, isVirtual' = isVirtual, testIsActive' = testIsActive
    PROVE  DataInv'
<1>1. "full" \in {"basic", "full"}
    OBVIOUS
<1>2. NoSignal(OutputsCleared(Cleared(dev))) /\ Push(below, NewCall("full", then, dev, 0))
    BY DEF StartFull
<1>. QED BY <1>1, <1>2, FetchBegins

\* Switching SMART begins with the data read before.
LEMMA SwitchBegins ==
    ASSUME DataKept, NEW on \in BOOLEAN, NEW then, StartSmart(on, then),
           ~isVirtual, ~testIsActive, UNCHANGED <<testIsActive, fixed, external>>,
           then = "reread" \/ (then = "open" /\ SmartStatus(dev) # "Unsupported")
    PROVE  DataInv'
<1>. DEFINE call == NewCall(IF on THEN "smartOn" ELSE "smartOff", then, dev, 0)
<1>1. /\ dev' = dev /\ calls' = Append(calls, call)
      /\ calls # <<>> => disturbed'
      /\ ~disturbed' => ~disturbed
    <2>1. call.cmd \notin {"basic", "full"}
        BY DEF NewCall
    <2>. QED BY <2>1 DEF StartSmart, NoSignal, Push
<1>2. call.cmd \in {"smartOn", "smartOff"} /\ call.then = then /\ call.reply.result = None
    BY DEF NewCall, NoReply
<1>. HIDE DEF call
<1>3. /\ isVirtual' = isVirtual /\ testIsActive' = testIsActive /\ medium' = medium
      /\ smartOn' = smartOn /\ defaultFormat' = defaultFormat
    BY DEF fixed, external
<1>4. CASE calls = <<>> /\ ~disturbed'
    <2>1. calls' = <<call>>
        BY <1>1, <1>4
    <2>2. Backed(dev) /\ Truthful(dev, medium, smartOn)
        BY <1>1, <1>4, DataFacts
    <2>3. Alone(call, dev', medium', smartOn', defaultFormat')
        BY <1>1, <1>2, <1>3, <2>2 DEF Alone
    <2>. QED BY <1>3, <2>1, <2>3, BusyData
<1>5. CASE disturbed'
    BY <1>5 DEF DataInv
<1>. QED BY <1>1, <1>4, <1>5

\* A step that changes neither the object nor the calls.
LEMMA NothingHappens ==
    ASSUME DataInv, UNCHANGED <<dev, calls, testIsActive, disturbed, fixed, external>>
    PROVE  DataInv'
<1>1. UNCHANGED <<dev, calls, testIsActive, disturbed, isVirtual, defaultFormat, medium, smartOn>>
    BY DEF fixed, external
<1>. QED BY <1>1 DEF DataInv

\* show_device_info_window(), clicked or gone on with after a switch, which it was made for.
LEMMA ShowKeeps ==
    ASSUME DataKept, NEW below, FetchAndShow(below), UNCHANGED <<testIsActive, fixed, external>>,
           below = calls \/ (below = Below /\ calls # <<>> /\ Ended({"smartOn"}, Results \ {None})
                             /\ Top.then = "open")
    PROVE  DataInv'
<1>1. DataInv /\ isVirtual' = isVirtual /\ testIsActive' = testIsActive /\ dev \in Device
    BY DataFacts DEF DataKept, fixed
<1>2. CASE isVirtual \/ SmartStatus(dev) = "Unsupported" \/ testIsActive
    <2>1. dev' = dev /\ calls' = below /\ disturbed' = disturbed
        BY <1>2 DEF FetchAndShow, NoSignal
    <2>2. CASE below = calls
        BY <1>1, <2>1, <2>2, NothingHappens
    <2>3. CASE /\ below = Below /\ calls # <<>>
               /\ Ended({"smartOn"}, Results \ {None}) /\ Top.then = "open"
        <3>1. SUFFICES ASSUME ~disturbed' PROVE FALSE
            BY DEF DataInv
        <3>2. /\ ~testIsActive /\ ~isVirtual
              /\ Alone(Top, dev, medium, smartOn, defaultFormat)
            BY <2>1, <2>3, <3>1, DataFacts
        <3>3. Top.cmd = "smartOn"
            BY <2>3 DEF Ended
        <3>4. SmartStatus(dev) # "Unsupported"
            BY <2>3, <3>2, <3>3 DEF Alone
        <3>. QED BY <1>2, <3>2, <3>4
    <2>. QED BY <2>2, <2>3
<1>3. CASE ~(isVirtual \/ SmartStatus(dev) = "Unsupported" \/ testIsActive)
    <2>1. StartFull(below, "open")
        BY <1>3 DEF FetchAndShow
    <2>. QED BY <1>1, <1>3, <2>1, FullBegins
<1>. QED BY <1>2, <1>3

\* What the user does.
LEMMA UserKeeps ==
    ASSUME DataKept, User PROVE DataInv'
<1>1. dev \in Device
    BY DataFacts
<1>2. CASE Reread
    <2>1. /\ StartBasic(dev, calls, 0) /\ ~isVirtual /\ ~testIsActive
          /\ isVirtual' = isVirtual /\ testIsActive' = testIsActive
        BY <1>2 DEF Reread, fixed
    <2>. QED BY <1>1, <2>1, BasicBegins
<1>3. CASE ToggleSmart
    <2>1. /\ StartSmart(SmartStatus(dev) = "Disabled", "reread") /\ ~isVirtual /\ ~testIsActive
          /\ UNCHANGED <<testIsActive, fixed, external>>
        BY <1>3 DEF ToggleSmart, SwitchSupported
    <2>2. (SmartStatus(dev) = "Disabled") \in BOOLEAN
        OBVIOUS
    <2>. QED BY <2>1, <2>2, SwitchBegins
<1>4. CASE OpenEnabling
    <2>1. /\ StartSmart(TRUE, "open") /\ ~isVirtual /\ ~testIsActive
          /\ SmartStatus(dev) # "Unsupported"
          /\ UNCHANGED <<testIsActive, fixed, external>>
        BY <1>4 DEF OpenEnabling
    <2>. QED BY <2>1, SwitchBegins
<1>5. CASE Open
    <2>1. FetchAndShow(calls) /\ UNCHANGED <<testIsActive, fixed, external>>
        BY <1>5 DEF Open
    <2>. QED BY <2>1, ShowKeeps
<1>6. CASE Refresh
    <2>1. /\ StartFull(calls, "") /\ ~isVirtual /\ ~testIsActive
          /\ isVirtual' = isVirtual /\ testIsActive' = testIsActive
        BY <1>6 DEF Refresh, fixed
    <2>. QED BY <1>1, <2>1, FullBegins
<1>7. CASE LoadVirtual
    <2>1. /\ isVirtual /\ calls' = calls /\ disturbed' = disturbed
          /\ isVirtual' = isVirtual
        BY <1>7 DEF LoadVirtual, fixed
    <2>2. calls = <<>>
        BY <2>1, DataFacts
    <2>3. PICK m \in Drives, on \in BOOLEAN, format \in Format :
            LET report == Described(m, on, "", TRUE, format)
                loaded == [dev EXCEPT !.basicOutput = report, !.fullOutput = report]
            IN /\ Parses("Basic", DetectedFormat(report), report)
               /\ Signal(VirtualParsed(loaded))
        BY <1>7 DEF LoadVirtual
    <2>. DEFINE report == Described(m, on, "", TRUE, format)
                loaded == [dev EXCEPT !.basicOutput = report, !.fullOutput = report]
                parsed == VirtualParsed(loaded)
    <2>4. report \in Report /\ report.format = format
        <3>1. m \in Medium
            BY DrivesAssumption
        <3>2. report \in Report
            BY <3>1, DescribedType
        <3>3. report.format = format
            BY DEF Described
        <3>. QED BY <3>2, <3>3
    <2>5. Parses("Basic", DetectedFormat(report), report) /\ Signal(parsed)
        BY <2>3
    <2>. HIDE DEF report
    <2>6. loaded \in Device /\ loaded.fullOutput = report
        BY <1>1, <2>4 DEF Device
    <2>. HIDE DEF loaded
    <2>7. report # EmptyReport
        <3>1. EmptyReport.format \notin Format
            BY DEF EmptyReport, Banner, Format
        <3>. QED BY <2>4, <3>1
    <2>8. Backed(parsed) /\ parsed \in Device
        BY <2>4, <2>5, <2>6, <2>7, VirtualHolds
    <2>. HIDE DEF parsed
    <2>9. Backed(dev')
        BY <2>5, <2>8, AskedHolds DEF Signal
    <2>. QED BY <2>1, <2>2, <2>9, IdleData
<1>8. CASE SetTestIsActive
    <2>1. /\ dev' = HealthAsked(dev) /\ calls' = calls
          /\ disturbed' = (disturbed \/ calls # <<>>)
          /\ isVirtual' = isVirtual /\ medium' = medium /\ smartOn' = smartOn
        BY <1>8 DEF SetTestIsActive, Signal, fixed, external
    <2>2. CASE disturbed'
        BY <2>2 DEF DataInv
    <2>3. CASE ~disturbed'
        <3>1. calls = <<>> /\ ~disturbed
            BY <2>1, <2>3
        <3>2. Backed(dev) /\ (isVirtual \/ Truthful(dev, medium, smartOn))
            BY <3>1, DataFacts
        <3>3. Backed(dev') /\ (isVirtual' \/ Truthful(dev', medium', smartOn'))
            BY <1>1, <2>1, <3>2, AskedHolds
        <3>. QED BY <2>1, <3>1, <3>3, IdleData
    <2>. QED BY <2>2, <2>3
<1>. QED BY <1>2, <1>3, <1>4, <1>5, <1>6, <1>7, <1>8 DEF User

\* A command that ends gives a fetch what the drive then is, and may switch SMART.
LEMMA CommandKeeps ==
    ASSUME DataKept, NEW i, CommandRuns(i) PROVE DataInv'
<1>1. SUFFICES ASSUME ~disturbed PROVE DataInv'
    BY DEF CommandRuns, DataInv
<1>2. /\ i \in DOMAIN calls /\ (FetchRuns(i) \/ SwitchRuns(i)) /\ calls[i].reply.result = None
      /\ dev' = dev /\ testIsActive' = testIsActive /\ isVirtual' = isVirtual
      /\ medium' = medium /\ defaultFormat' = defaultFormat
    BY DEF CommandRuns, fixed
<1>3. calls # <<>>
    BY <1>2
<1>. DEFINE c == calls[1]
<1>4. /\ ~testIsActive /\ ~isVirtual /\ calls = <<c>>
      /\ Alone(c, dev, medium, smartOn, defaultFormat)
    BY <1>1, <1>3, DataFacts
<1>5. i = 1
    <2>1. DOMAIN <<c>> = {1}
        OBVIOUS
    <2>. HIDE DEF c
    <2>. QED BY <1>2, <1>4, <2>1
<1>6. c \in Call
    <2>1. calls \in Seq(Call) /\ 1 \in DOMAIN calls
        BY <1>2, <1>5 DEF DataKept, IInv, TypeOK
    <2>. QED BY <2>1
<1>7. ASSUME NEW r, Replied(i, r)
      PROVE  calls' = <<[c EXCEPT !.reply = r]>>
    <2>1. calls' = [calls EXCEPT ![1].reply = r]
        BY <1>5, <1>7 DEF Replied
    <2>. HIDE DEF c
    <2>2. [<<c>> EXCEPT ![1].reply = r] = <<[c EXCEPT !.reply = r]>>
        OBVIOUS
    <2>. QED BY <1>4, <2>1, <2>2
<1>. HIDE DEF c
<1>8. ASSUME NEW r
      PROVE  LET e == [c EXCEPT !.reply = r]
             IN e.cmd = c.cmd /\ e.then = c.then /\ e.typeArg = c.typeArg /\ e.reply = r
    BY <1>6 DEF Call
<1>9. CASE FetchRuns(i)
    <2>1. c.cmd \in {"basic", "full"} /\ smartOn' = smartOn
        BY <1>5, <1>9 DEF FetchRuns, c
    <2>2. PICK r \in Printable(c, medium, smartOn, defaultFormat) : Replied(i, r)
        BY <1>5, <1>9 DEF FetchRuns, Printable, c
    <2>. DEFINE e == [c EXCEPT !.reply = r]
    <2>3. e.cmd = c.cmd /\ e.typeArg = c.typeArg /\ e.reply = r
        BY <1>8
    <2>4. calls' = <<e>>
        BY <1>7, <2>2
    <2>. HIDE DEF e
    <2>5. Emptied(dev) /\ c.typeArg = dev.typeArg
        BY <1>4, <2>1 DEF Alone
    <2>6. r \in Printable(e, medium, smartOn, defaultFormat)
        BY <2>2, <2>3 DEF Printable
    <2>7. Alone(e, dev', medium', smartOn', defaultFormat')
        BY <1>2, <2>1, <2>3, <2>5, <2>6 DEF Alone
    <2>. QED BY <1>2, <1>4, <2>4, <2>7, BusyData
<1>10. CASE SwitchRuns(i)
    <2>1. c.cmd \in {"smartOn", "smartOff"}
        BY <1>5, <1>10 DEF SwitchRuns, c
    <2>2. PICK result \in {"ok", "error", "refused", "unknown"} :
            Replied(i, [NoReply EXCEPT !.result = result])
        BY <1>10 DEF SwitchRuns
    <2>. DEFINE r == [NoReply EXCEPT !.result = result]
                e == [c EXCEPT !.reply = r]
    <2>3. r.result # None
        BY DEF NoReply, None
    <2>4. Replied(i, r)
        BY <2>2
    <2>. HIDE DEF r
    <2>5. e.cmd = c.cmd /\ e.then = c.then /\ e.reply = r
        BY <1>8
    <2>6. calls' = <<e>>
        BY <1>7, <2>4
    <2>. HIDE DEF e
    <2>7. Alone(e, dev', medium', smartOn', defaultFormat')
        BY <1>2, <1>4, <2>1, <2>3, <2>5 DEF Alone
    <2>. QED BY <1>2, <1>4, <2>6, <2>7, BusyData
<1>. QED BY <1>2, <1>9, <1>10

\* A fetch that returns with what it got, or with nothing.
LEMMA FetchReturns ==
    ASSUME DataKept, Return, UNCHANGED <<fixed, external>>,
           NEW d \in Device, dev' = d \/ dev' = HealthAsked(d),
           ~disturbed => Backed(d) /\ Truthful(d, medium, smartOn), calls # <<>>
    PROVE  DataInv'
<1>1. /\ disturbed' = disturbed /\ calls' = Below
      /\ isVirtual' = isVirtual /\ medium' = medium /\ smartOn' = smartOn
    BY DEF Return, fixed, external
<1>2. CASE disturbed
    BY <1>1, <1>2 DEF DataInv
<1>3. CASE ~disturbed
    <2>1. calls' = <<>>
        BY <1>1, <1>3, DataFacts
    <2>2. Backed(dev') /\ Truthful(dev', medium, smartOn)
        BY <1>3, AskedHolds
    <2>. QED BY <1>1, <2>1, <2>2, IdleData
<1>. QED BY <1>2, <1>3

\* An object without data is backed by anything.
LEMMA NoDataHolds ==
    ASSUME NEW d, d.parseStatus = "None" PROVE Backed(d) /\ \A m, on : Truthful(d, m, on)
BY DEF Backed, Truthful

\* A basic fetch, its retry,
LEMMA BasicKeeps ==
    ASSUME DataKept, BasicRetries \/ BasicReturns PROVE DataInv'
<1>1. /\ calls # <<>> /\ Ended({"basic"}, {"ok", "error"})
      /\ UNCHANGED <<testIsActive, fixed, external>>
    BY DEF BasicRetries, BasicReturns, Ended
<1>2. /\ isVirtual' = isVirtual /\ testIsActive' = testIsActive /\ ~isVirtual
      /\ medium \in Medium /\ smartOn \in BOOLEAN
    BY <1>1, DataFacts DEF fixed
<1>. DEFINE b == BasicExecuted
<1>3. b \in Device /\ b.basicOutput = Top.reply.report /\ b.typeArg = dev.typeArg
    BY <1>1, BasicExecutedFits DEF DataKept, Evolves
<1>4. b.fullOutput = dev.fullOutput /\ b.parseStatus = dev.parseStatus
    BY DataFacts DEF BasicExecuted, Device
<1>5. ~disturbed =>
        /\ ~testIsActive /\ Emptied(dev) /\ Top.typeArg = dev.typeArg
        /\ Top.reply \in Printable(Top, medium, smartOn, defaultFormat)
    <2>1. Top.cmd = "basic" /\ Top.reply.result # None
        BY <1>1 DEF Ended, None
    <2>2. ~disturbed => ~testIsActive /\ Alone(Top, dev, medium, smartOn, defaultFormat)
        BY <1>1, DataFacts
    <2>. QED BY <2>1, <2>2 DEF Alone
<1>6. CASE BasicRetries
    <2>. DEFINE d == WithType(b)
    <2>1. d \in Device /\ d.parseStatus = b.parseStatus
        <3>1. "BasicScsi" \in DetectedType
            BY DEF DetectedType
        <3>. HIDE DEF b
        <3>. QED BY <1>3, <3>1 DEF WithType, Device
    <2>2. CASE testIsActive
        <3>1. disturbed' = disturbed
            BY <1>6, <2>2 DEF BasicRetries, Return
        <3>2. disturbed
            BY <1>5, <2>2
        <3>. QED BY <3>1, <3>2 DEF DataInv
    <2>3. CASE ~testIsActive
        <3>1. StartBasic(d, Below, Top.tries + 1)
            BY <1>6, <2>3 DEF BasicRetries
        <3>. HIDE DEF d, b
        <3>. QED BY <1>2, <2>1, <2>3, <3>1, BasicBegins
    <2>. QED BY <2>2, <2>3
<1>7. CASE BasicReturns
    <2>1. /\ Return
          /\ \/ BasicParses(b.basicOutput) /\ dev' = HealthAsked(BasicParsed(b))
             \/ dev' = Cleared(b)
        BY <1>3, <1>7 DEF BasicReturns, Signal, NoSignal
    <2>. HIDE DEF b
    <2>2. CASE dev' = Cleared(b)
        <3>1. Cleared(b) \in Device /\ Cleared(b).parseStatus = "None"
            BY <1>3, ClearedEvolves DEF Evolves
        <3>2. Backed(Cleared(b)) /\ Truthful(Cleared(b), medium, smartOn)
            BY <3>1, NoDataHolds
        <3>. QED BY <1>1, <2>1, <2>2, <3>1, <3>2, FetchReturns
    <2>3. CASE BasicParses(b.basicOutput) /\ dev' = HealthAsked(BasicParsed(b))
        <3>1. BasicParsed(b) \in Device
            BY <1>3, BasicParsedEvolves DEF Evolves, Device
        <3>2. ~disturbed => Backed(BasicParsed(b)) /\ Truthful(BasicParsed(b), medium, smartOn)
            BY <1>2, <1>3, <1>4, <1>5, <2>3, BasicHolds DEF Emptied
        <3>. QED BY <1>1, <2>1, <2>3, <3>1, <3>2, FetchReturns
    <2>. QED BY <2>1, <2>2, <2>3
<1>. QED BY <1>6, <1>7

\* and a full one.
LEMMA FullKeeps ==
    ASSUME DataKept, FullReturns \/ FullFails PROVE DataInv'
<1>1. /\ calls # <<>> /\ Top.cmd = "full" /\ Top.reply.result # None /\ Return
      /\ UNCHANGED <<fixed, external>>
    BY DEF FullReturns, FullFails, Ended, None
<1>2. /\ dev \in Device /\ medium \in Medium /\ smartOn \in BOOLEAN /\ defaultFormat \in Format
    BY DataFacts
<1>3. ~disturbed =>
        /\ Emptied(dev) /\ Top.typeArg = dev.typeArg
        /\ Top.reply \in Printable(Top, medium, smartOn, defaultFormat)
    <2>1. ~disturbed => Alone(Top, dev, medium, smartOn, defaultFormat)
        BY <1>1, DataFacts
    <2>. QED BY <1>1, <2>1 DEF Alone
<1>4. CASE FullFails
    <2>1. dev' = dev
        BY <1>4 DEF FullFails, NoSignal
    <2>2. ~disturbed => Backed(dev) /\ Truthful(dev, medium, smartOn)
        BY <1>3, NoDataHolds DEF Emptied
    <2>. QED BY <1>1, <1>2, <2>1, <2>2, FetchReturns
<1>5. CASE FullReturns
    <2>. DEFINE output  == Top.reply.report
                parser  == ParserFor(Top.type)
                fetched == [dev EXCEPT !.fullOutput = output]
                parsed  == FullParsed(fetched, parser, defaultFormat)
    <2>1. /\ Top.reply.result = "ok"
          /\ \/ /\ Parses(parser, defaultFormat, output) /\ dev' = HealthAsked(parsed)
             \/ dev' = Cleared(fetched)
        BY <1>5 DEF FullReturns, Ended, Signal, NoSignal
    <2>2. output \in Report
        BY <1>1, TopFacts DEF DataKept, Call
    <2>3. parser \in ParserType
        BY DEF ParserFor, ParserType
    <2>. HIDE DEF output, parser
    <2>4. /\ fetched \in Device /\ fetched.fullOutput = output
          /\ fetched.typeArg = dev.typeArg
        BY <1>2, <2>2 DEF Device
    <2>. HIDE DEF fetched
    <2>5. CASE dev' = Cleared(fetched)
        <3>1. Cleared(fetched) \in Device /\ Cleared(fetched).parseStatus = "None"
            BY <2>4, ClearedEvolves DEF Evolves
        <3>2. Backed(Cleared(fetched)) /\ Truthful(Cleared(fetched), medium, smartOn)
            BY <3>1, NoDataHolds
        <3>. QED BY <1>1, <2>5, <3>1, <3>2, FetchReturns
    <2>6. CASE Parses(parser, defaultFormat, output) /\ dev' = HealthAsked(parsed)
        <3>1. parsed \in Device
            BY <2>2, <2>4, FullParsedEvolves DEF Evolves
        <3>2. ~disturbed => Backed(parsed) /\ Truthful(parsed, medium, smartOn)
            BY <1>2, <1>3, <2>1, <2>3, <2>4, <2>6, FullHolds DEF output
        <3>. QED BY <1>1, <2>6, <3>1, <3>2, FetchReturns
    <2>. QED BY <2>1, <2>5, <2>6
<1>. QED BY <1>4, <1>5

\* A switch returns: undisturbed, no test keeps its caller from reading the data again.
LEMMA SwitchKeeps ==
    ASSUME DataKept, SwitchReturns \/ SwitchReturnsElsewhere PROVE DataInv'
<1>1. calls # <<>> /\ isVirtual' = isVirtual /\ testIsActive' = testIsActive
    BY DEF SwitchReturns, SwitchReturnsElsewhere, Ended, fixed
<1>2. dev \in Device /\ ~isVirtual
    BY <1>1, DataFacts
<1>3. CASE SwitchReturnsElsewhere
    BY <1>3 DEF SwitchReturnsElsewhere, DataInv
<1>4. CASE SwitchReturns /\ testIsActive
    <2>1. disturbed' = disturbed
        BY <1>4 DEF SwitchReturns, Return
    <2>2. disturbed
        BY <1>1, <1>4, DataFacts
    <2>. QED BY <2>1, <2>2 DEF DataInv
<1>5. CASE SwitchReturns /\ ~testIsActive
    <2>1. StartBasic(dev, Below, 0)
        BY <1>5 DEF SwitchReturns
    <2>. QED BY <1>1, <1>2, <1>5, <2>1, BasicBegins
<1>. QED BY <1>3, <1>4, <1>5

\* So every step keeps it, and
LEMMA DataStep ==
    ASSUME DataKept, [Next]_vars PROVE DataInv'
<1>1. CASE User
    BY <1>1, UserKeeps
<1>2. CASE CallReturns
    <2>1. CASE EnablingReturns
        <3>1. /\ calls # <<>> /\ Ended({"smartOn"}, Results \ {None}) /\ Top.then = "open"
              /\ FetchAndShow(Below) /\ UNCHANGED <<testIsActive, fixed, external>>
            BY <2>1 DEF EnablingReturns, Ended
        <3>. QED BY <3>1, ShowKeeps
    <2>. QED BY <1>2, <2>1, BasicKeeps, FullKeeps, SwitchKeeps DEF CallReturns
<1>3. CASE DriveReplaced
    BY <1>3 DEF DriveReplaced, DataInv
<1>4. CASE \E i \in 1 .. MaxDepth : CommandRuns(i)
    BY <1>4, CommandKeeps
<1>5. CASE UNCHANGED vars
    <2>1. UNCHANGED <<dev, calls, testIsActive, disturbed, fixed, external>>
        BY <1>5 DEF vars, fixed, external
    <2>. QED BY <2>1, NothingHappens DEF DataKept
<1>. QED BY <1>1, <1>2, <1>3, <1>4, <1>5 DEF Next

\* it holds at all times.
THEOREM DataInvariance == Spec => []DataKept
<1>1. Init => VirtualIsIdle /\ DataInv
    <2>1. ASSUME Init PROVE VirtualIsIdle /\ DataInv
        <3>1. calls = <<>>
            BY <2>1 DEF Init
        <3>2. dev.parseStatus = "None"
            <4>1. PICK typeArg \in TypeArgs : dev = Constructed(typeArg)
                BY <2>1 DEF Init
            <4>. QED BY <4>1 DEF Constructed
        <3>3. Backed(dev) /\ Truthful(dev, medium, smartOn)
            BY <3>2, NoDataHolds
        <3>. QED BY <3>1, <3>3 DEF VirtualIsIdle, DataInv
    <2>. QED BY <2>1
<1>2. VirtualIsIdle /\ [Next]_vars => VirtualIsIdle'
    BY VirtualStaysIdle DEF VirtualIsIdle, vars
<1>3. IInv /\ VirtualIsIdle /\ DataInv /\ [Next]_vars => DataInv'
    BY DataStep DEF DataKept
<1>. QED BY <1>1, <1>2, <1>3, Invariance, PTL DEF Spec, DataKept

\* If data were read undisturbed, SMART is shown as enabled exactly if it is, whatever the
\* commands that have switched it said.
THEOREM ShownSmartAlwaysTrue == Spec => []ShownSmartIsTrue
<1>1. ASSUME DataKept, calls = <<>>, ~disturbed, ~isVirtual, dev.parseStatus # "None"
      PROVE  SmartStatus(dev) = "Enabled" <=> HasSmart(medium, dev.typeArg) /\ smartOn
    <2>1. dev.common.enabled = "yes" <=> HasSmart(medium, dev.typeArg) /\ smartOn
        BY <1>1, DataFacts DEF Truthful
    <2>2. SmartStatus(dev) = "Enabled" <=> dev.common.enabled = "yes"
        BY DEF SmartStatus
    <2>. QED BY <2>1, <2>2
<1>2. DataKept => ShownSmartIsTrue
    BY <1>1 DEF ShownSmartIsTrue
<1>. QED BY <1>2, DataInvariance, PTL

\* And what the user saves is what the properties on the screen were parsed from.
THEOREM SavedAlwaysShown == Spec => []SavedIsShown
<1>1. ASSUME DataKept, calls = <<>>, ~disturbed PROVE Backed(dev)
    BY <1>1, DataFacts
<1>2. SavedOf(dev) = Saved
    BY DEF SavedOf, Saved
<1>3. DataKept => SavedIsShown
    BY <1>1, <1>2 DEF SavedIsShown, Backed
<1>. QED BY <1>3, DataInvariance, PTL
=============================================================================

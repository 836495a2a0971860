---------------------------- MODULE LinuxDevices -----------------------------
(***************************************************************************)
(* What the Linux detection makes of the kernel's files                    *)
(* (src/applib/storage_detector_linux.cpp, storage_detector_helpers.h):    *)
(* which devices it runs smartctl on, with which type arguments.  Pure     *)
(* operators on a record "files" of the contents of                        *)
(*   partitions   /proc/partitions: the names, each a sequence of words,   *)
(*                single letters and digits: <<"sd", "a", "1">>,           *)
(*   devices      /proc/devices: the drivers that matter here: <<"twa">>,  *)
(*                <<"aac">>, <<"cciss", 0>>,                               *)
(*   scsi         /proc/scsi/scsi: [host, vendor, logical, ix] per entry,  *)
(*                "logical" if it is a volume, "ix" if the model has it,   *)
(*   sg           /proc/scsi/sg/devices: [host, id, type] per line,        *)
(*   channels     host_fw_hd_channels of the Areca hosts that have one.    *)
(***************************************************************************)
EXTENDS Integers, Sequences, FiniteSets, SequencesExt

CONSTANTS
    Cap,        \* the limits in the code: threeWare 127, areca 24, arecaEnc 128,
                \* enclosures 8, cciss 127, cciss ports scanned in any case 15
    Setting     \* the configured maximums: threeWare, areca, arecaEnc, enclosures;
                \* Unset if neither the user's nor the default settings have the key

Unset == -1

ASSUME CapAssumption ==
    Cap \in [{"threeWare", "areca", "arecaEnc", "enclosures", "cciss", "sure"} -> Nat]
ASSUME SettingAssumption ==
    Setting \in [{"threeWare", "areca", "arecaEnc", "enclosures"} -> Int]

Clamped(low, n, high) == IF n < low THEN low ELSE IF n > high THEN high ELSE n

\* The numbers of a finite set, the smallest first.  (As the argument of a function the set
\* is evaluated once by TLC.)
Ascending(S) ==
    [T \in {S} |-> [i \in 1 .. Cardinality(T) |-> CHOOSE x \in T : Cardinality({y \in T : y < x}) = i - 1]][S]

\* Concatenate F(x) for the elements x of s.
ForEach(s, F(_)) == FlattenSeq([i \in DOMAIN s |-> F(s[i])])

-----------------------------------------------------------------------------
(* Scans: a device, and the ports to ask behind it.  rule is the method's  *)
(* loop; "partition" and "adaptec" ask once.                               *)

Scan(rule, dev, from, to) ==
    [rule |-> rule, dev |-> dev, host |-> 0, enclosure |-> 0, from |-> from, to |-> to]

\* The type argument at a port.
TypeAt(scan, port) ==
    CASE scan.rule = "partition" -> <<>>
      [] scan.rule = "adaptec" -> <<"sat">>
      [] scan.rule = "3ware" -> <<"3ware", port>>
      [] scan.rule = "areca" /\ scan.enclosure = 0 -> <<"areca", port>>
      [] scan.rule = "areca" /\ scan.enclosure # 0 -> <<"areca", port, scan.enclosure>>
      [] OTHER -> <<"cciss", port>>

\* What ends the loop over the ports: smartctl knows no such port ("limit"), no such
\* controller, or the device does not open.
Stops(rule, port, reply) ==
    CASE rule \in {"3ware", "areca"} -> reply \in {"limit", "noController", "noDevice", "noAddress"}
      [] rule = "cciss" -> reply = "limit" \/ (reply = "noAddress" /\ port > Cap.sure)
      [] rule = "hpsa" -> reply \in {"limit", "noAddress"}
      [] OTHER -> FALSE

EntriesOf(scsi, vendors) == {i \in DOMAIN scsi : scsi[i].vendor \in vendors}

\* Of these entries of the file, the first of every host.
FirstOfHost(scsi, entries) ==
    {i \in entries : \A j \in entries : j < i => scsi[j].host # scsi[i].host}

\* /dev/sgN is the line N of its file, from 0.
SgDev(n) == <<"sg", n - 1>>

SgLines(files, host) == {n \in DOMAIN files.sg : files.sg[n].host = host}

-----------------------------------------------------------------------------
(* /proc/partitions                                                        *)

Digit == {"0", "1", "2", "3", "4", "5", "6", "7", "8", "9"}
Letter == {"a", "b", "c"}

\* The name ends in digits, at least "least", after its k-th part.
NumberedAfter(name, k, least) ==
    Len(name) >= k + least /\ \A j \in k + 1 .. Len(name) : name[j] \in Digit

\* "platform blacklist": partitions, RAM disks, loop devices, software RAID.
\* "/d[a-z][0-9]+$/" needs a single letter after the "d" of "sd" or "hd".
IsBlacklisted(name) ==
    \E k \in DOMAIN name :
        \/ name[k] \in {"loop", "md", "dm-"} /\ NumberedAfter(name, k, 0)
        \/ name[k] \in {"ram", "part", "p"} /\ NumberedAfter(name, k, 1)
        \/ k > 1 /\ name[k - 1] \in {"sd", "hd"} /\ name[k] \in Letter /\ NumberedAfter(name, k, 1)

\* "Remove the namespace portion from the device name, unless there are multiple
\* namespaces": counts the names that start with the controller's.
WithoutNamespace(name, names) ==
    LET n == {k \in DOMAIN name : name[1] = "nvme" /\ name[k] = "n" /\ NumberedAfter(name, k, 1)}
        controller == SubSeq(name, 1, (CHOOSE k \in n : TRUE) - 1)
    IN  IF n # {} /\ Cardinality({i \in DOMAIN names : IsPrefix(controller, names[i])}) = 1
        THEN controller ELSE name

PartitionScans(files) ==
    LET names == [i \in {k \in DOMAIN files.partitions : ~IsBlacklisted(files.partitions[k])} |->
                     files.partitions[i]]
        clean == [i \in DOMAIN names |-> WithoutNamespace(names[i], names)]
        first == {i \in DOMAIN clean : \A j \in DOMAIN clean : j < i => clean[j] # clean[i]}
    IN  ForEach(Ascending(first), LAMBDA i : <<Scan("partition", clean[i], 0, 0)>>)

-----------------------------------------------------------------------------
(* 3ware, Areca, Adaptec and HP controllers                                *)

Tw(files) == {tw \in {"twa", "twe", "twl"} : <<tw>> \in files.devices}

\* The pattern "/Vendor: (AMCC)|(3ware)|(LSI) /i" sets its first group for AMCC only.
VendorGroup(entry) == IF entry.vendor = "AMCC" THEN "AMCC" ELSE ""

VendorBase(group) ==
    CASE group = "AMCC" -> "twa" [] group = "3ware" -> "twe" [] group = "LSI" -> "twl"
      [] OTHER -> "none"

\* "If there are several different tw* devices present (like 1 twa and 1 twe), we use the
\* vendor name to differentiate them."
TwBase(files, entry) ==
    LET base == VendorBase(VendorGroup(entry)) IN
    IF Cardinality(Tw(files)) > 1 /\ base \in Tw(files) THEN base
    ELSE IF "twa" \in Tw(files) THEN "twa" ELSE IF "twl" \in Tw(files) THEN "twl" ELSE "twe"

\* "We can't map twaX to scsiY, so let's assume the relative order is the same."  Each
\* controller is asked for through tw_cli first.
ThreeWareScans(files) ==
    IF Tw(files) = {} THEN <<>> ELSE
    LET first == FirstOfHost(files.scsi, EntriesOf(files.scsi, {"AMCC", "3ware", "LSI"}))
        base(i) == TwBase(files, files.scsi[i])
        number(i) == Cardinality({j \in first : j < i /\ base(j) = base(i)})
    IN  ForEach(Ascending(first), LAMBDA i :
            <<[Scan("tw_cli", <<base(i), number(i)>>, 0, 0) EXCEPT !.host = files.scsi[i].host]>>)

\* "no tw_cli": the brute-force scan in its place.
ThreeWarePorts(scan) ==
    Scan("3ware", scan.dev, 0, Clamped(0, Setting.threeWare, Cap.threeWare))

\* The ports of a controller without enclosures: as it says, else as configured.
ArecaPorts(files, host) ==
    IF host \in DOMAIN files.channels /\ files.channels[host] # 0 THEN files.channels[host]
    ELSE Setting.areca

ArecaScans(files) ==
    LET first == FirstOfHost(files.scsi, EntriesOf(files.scsi, {"Areca"}))
        hosts == {files.scsi[i].host : i \in first}
        boxes(host) ==
            {n \in SgLines(files, host) : files.sg[n].id = 16 /\ files.sg[n].type = 3}
        hasEnclosure(host) == \E i \in first : files.scsi[i].host = host /\ files.scsi[i].ix
        last == Clamped(1, Setting.enclosures, Cap.enclosures) - 1
        enclosed(dev) ==
            [e \in 1 .. last |->
                [Scan("areca", dev, 1, Clamped(1, Setting.arecaEnc, Cap.arecaEnc)) EXCEPT !.enclosure = e]]
        flat(dev, host) ==
            LET ports == ArecaPorts(files, host) IN
            <<Scan("areca", dev, 1, IF ports = Unset THEN Unset ELSE Clamped(1, ports, Cap.areca))>>
    IN  ForEach(Ascending(hosts), LAMBDA host :
            ForEach(Ascending(boxes(host)), LAMBDA n :
                IF hasEnclosure(host) THEN enclosed(SgDev(n)) ELSE flat(SgDev(n), host)))

\* id 0 is "the controller, probably".
AdaptecScans(files) ==
    IF <<"aac">> \notin files.devices THEN <<>> ELSE
    LET first == FirstOfHost(files.scsi, EntriesOf(files.scsi, {"Adaptec"}))
        targets(host) == {n \in SgLines(files, host) : files.sg[n].id > 0}
    IN  ForEach(Ascending(first), LAMBDA i :
            ForEach(Ascending(targets(files.scsi[i].host)), LAMBDA n :
                <<Scan("adaptec", SgDev(n), 0, 0)>>))

CcissScans(files) ==
    LET controllers == {d[2] : d \in {e \in files.devices : e[1] = "cciss"}}
    IN  ForEach(Ascending(controllers), LAMBDA c : <<Scan("cciss", <<"cciss/c", c>>, 0, Cap.cciss)>>)

\* Every node of the host, those of logical volumes too.
HpsaScans(files) ==
    LET disks == {i \in EntriesOf(files.scsi, {"HP"}) : ~files.scsi[i].logical}
        first == FirstOfHost(files.scsi, disks)
    IN  ForEach(Ascending(first), LAMBDA i :
            ForEach(Ascending(SgLines(files, files.scsi[i].host)), LAMBDA n :
                <<Scan("hpsa", SgDev(n), 0, Cap.cciss)>>))

-----------------------------------------------------------------------------
(* The methods, in the order of detect_drives_linux().                     *)

Methods == <<"partitions", "3ware", "areca", "adaptec", "cciss", "hpsa">>

\* The files a method reads, in order, until one of them fails or says that there is no
\* such controller.
FilesOf(method, files) ==
    CASE method = "partitions" -> <<"partitions">>
      [] method = "3ware" -> IF Tw(files) = {} THEN <<"devices">> ELSE <<"devices", "scsi">>
      [] method = "areca" -> IF \E i \in DOMAIN files.scsi : files.scsi[i].vendor = "Areca"
                             THEN <<"scsi", "sg">> ELSE <<"scsi">>
      [] method = "adaptec" -> IF <<"aac">> \in files.devices THEN <<"devices", "scsi", "sg">>
                                                          ELSE <<"devices">>
      [] method = "cciss" -> <<"devices">>
      [] method = "hpsa" -> <<"scsi", "sg">>

ScansOf(method, files) ==
    CASE method = "partitions" -> PartitionScans(files)
      [] method = "3ware" -> ThreeWareScans(files)
      [] method = "areca" -> ArecaScans(files)
      [] method = "adaptec" -> AdaptecScans(files)
      [] method = "cciss" -> CcissScans(files)
      [] method = "hpsa" -> HpsaScans(files)
=============================================================================

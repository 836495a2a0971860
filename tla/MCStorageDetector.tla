-------------------------- MODULE MCStorageDetector --------------------------
\* Machines for TLC: for Linux one per kind of controller, with a machine that has no
\* /proc/scsi, one where a file of one method is missing, and one that cannot be read at
\* all; for Windows one per way to find drives; for the BSDs with and without nodes.
EXTENDS WindowsDetector, TLC

MCCap == [threeWare |-> 2, areca |-> 2, arecaEnc |-> 2, enclosures |-> 3, cciss |-> 2, sure |-> 1]
MCSetting == [threeWare |-> 5, areca |-> Unset, arecaEnc |-> 2, enclosures |-> 3]

Sda == <<"sd", "a">>
Sdb == <<"sd", "b">>
Twa(n) == <<"twa", n>>
Sg(n) == <<"sg", n>>
Entry(host, vendor) == [host |-> host, vendor |-> vendor, logical |-> FALSE, ix |-> FALSE]
Line(host, id, type) == [host |-> host, id |-> id, type |-> type]
Disk(dev, type) == {<<dev, type>>}

\* A desktop: a disk with a partition, an NVMe drive, a USB stick that wants "-d scsi",
\* a RAM disk; a kernel without /proc/scsi.
Desktop ==
    [system |-> "linux", partitions |-> <<Sda, <<"sd", "a", "1">>, <<"nvme", "0", "n", "1">>, Sdb, <<"ram", "0">>>>,
     devices |-> {}, scsi |-> <<>>, sg |-> <<>>, channels |-> <<>>, twCli |-> <<>>,
     missing |-> {"scsi", "sg"},
     disks |-> {Disk(Sda, <<>>), {<<<<"nvme", "0">>, <<>>>>, <<<<"nvme", "0", "n", "1">>, <<>>>>},
                Disk(Sdb, <<"scsi">>)},
     reply |-> <<Sdb, <<>>>> :> "needsType"]

Bare == [Desktop EXCEPT !.partitions = <<>>, !.missing = {}, !.disks = {}, !.reply = <<>>]

\* A 3ware controller whose volume is sda, with an empty port; two LUNs of one host.
ThreeWare ==
    [Bare EXCEPT
        !.partitions = <<Sda>>, !.devices = {<<"twa">>},
        !.scsi = <<Entry(6, "AMCC"), Entry(6, "AMCC"), Entry(7, "AMCC")>>,
        !.missing = {"sg"},
        !.disks = {Disk(Twa(0), <<"3ware", 0>>), Disk(Twa(0), <<"3ware", 2>>),
                   Disk(Twa(1), <<"3ware", 1>>)},
        !.reply = <<Sda, <<>>>> :> "raid" @@ <<Twa(0), <<"3ware", 1>>>> :> "identityFailed"
                  @@ <<Twa(1), <<"3ware", 0>>>> :> "identityFailed"]

WithTwCli == [ThreeWare EXCEPT !.twCli = 6 :> {0, 2}]

\* An Areca controller with two channels and a volume, and one with enclosures.
Areca ==
    [Bare EXCEPT
        !.scsi = <<Entry(1, "Areca"), [Entry(0, "Areca") EXCEPT !.ix = TRUE], Entry(1, "Areca")>>,
        !.sg = <<Line(1, 0, 0), Line(1, 16, 3), Line(0, 16, 3)>>,
        !.channels = 1 :> 2, !.missing = {"devices"},
        !.disks = {Disk(Sg(1), <<"areca", 2>>), Disk(Sg(2), <<"areca", 2, 1>>),
                   Disk(Sg(2), <<"areca", 1, 2>>)},
        !.reply = <<Sg(1), <<"areca", 1>>>> :> "identityFailed"
                  @@ <<Sg(2), <<"areca", 1, 1>>>> :> "identityFailed"]

\* The file of the channels is missing, and the setting has no default.
ArecaOld == [Areca EXCEPT !.channels = <<>>]
MCOldAreca == [areca |-> ArecaOld]

\* An Adaptec controller with a SATA and a SAS disk.
Adaptec ==
    [Bare EXCEPT
        !.partitions = <<Sda>>, !.devices = {<<"aac">>},
        !.scsi = <<Entry(3, "Adaptec"), Entry(4, "ATA")>>,
        !.sg = <<Line(4, 1, 0), Line(3, 0, 0), Line(3, 1, 0), Line(3, 2, 0)>>,
        !.disks = {Disk(Sda, <<>>), Disk(Sg(2), <<"sat">>), Disk(Sg(3), <<>>)},
        !.reply = <<Sg(3), <<"sat">>>> :> "identityFailed"]

\* HP controllers of both drivers.
Hp ==
    [Bare EXCEPT
        !.devices = {<<"cciss", 0>>},
        !.scsi = <<[Entry(2, "HP") EXCEPT !.logical = TRUE], Entry(2, "HP")>>,
        !.sg = <<Line(5, 0, 0), Line(2, 0, 12)>>,
        !.disks = {Disk(<<"cciss/c", 0>>, <<"cciss", 1>>), Disk(Sg(1), <<"cciss", 0>>)},
        !.reply = <<<<"cciss/c", 0>>, <<"cciss", 0>>>> :> "noAddress"
                  @@ <<<<"cciss/c", 0>>, <<"cciss", 2>>>> :> "noAddress"
                  @@ <<Sg(1), <<"cciss", 1>>>> :> "noAddress"]

Unreadable == [Bare EXCEPT !.missing = File]

-----------------------------------------------------------------------------
(* Machines with Windows: a maximum of two Areca controllers is scanned.   *)

MCWinSetting == [controllers |-> 2, areca |-> 2, arecaEnc |-> 1, enclosures |-> 2]

NoAreca == [scan |-> 2, useCli |-> 2, installed |-> FALSE, http |-> FALSE,
            exists |-> FALSE, runs |-> FALSE, lists |-> {}]
Cli == [NoAreca EXCEPT !.installed = TRUE, !.exists = TRUE, !.runs = TRUE]

\* Two disks, and removed ones between them.
Laptop ==
    [system |-> "windows", scanOpen |-> <<>>, pds |-> {0, 3}, noSerial |-> FALSE,
     tools |-> FALSE, twCli |-> <<>>, areca |-> NoAreca, missing |-> {},
     disks |-> {Disk(Pd(0), <<>>), Disk(Pd(3), <<>>)}, reply |-> <<>>]

Csmi(n) == <<<<"csmi", n>>, <<"ata">>>>
SdaPort(n) == <<<<"sda", n>>, <<"3ware", n>>>>
Open(address, pd) == [address |-> address, pd |-> pd]

\* A disk behind a "csmi" port that is a PhysicalDrive as well, and one that is not;
\* Areca controllers without their software, one with flat ports, one with enclosures.
Workstation ==
    [Laptop EXCEPT
        !.scanOpen = <<Open(Csmi(0), NoPd)>>, !.pds = {0, 1},
        !.areca = [NoAreca EXCEPT !.scan = 1],
        !.disks = {{Csmi(0), <<Pd(0), <<>>>>}, Disk(Pd(1), <<>>),
                   Disk(Arcmsr(0), <<"areca", 2>>), Disk(Arcmsr(1), <<"areca", 1, 1>>)},
        !.reply = <<Arcmsr(0), <<"areca", 1>>>> :> "identityFailed"
                  @@ <<Arcmsr(1), <<"areca", 1>>>> :> "noController"]

\* The ports of a 3ware controller, whose volume is PhysicalDrive0; an Areca controller
\* with its CLI.
Server ==
    [Laptop EXCEPT
        !.scanOpen = <<Open(SdaPort(0), 0), Open(SdaPort(1), 0)>>, !.pds = {0},
        !.areca = [Cli EXCEPT !.lists = {<<"areca", 1, 2>>}],
        !.disks = {{SdaPort(0)}, {SdaPort(1)}, Disk(Arcmsr(0), <<"areca", 1, 2>>)},
        !.reply = <<Arcmsr(0), <<"areca", 1>>>> :> "identityFailed" @@ <<Pd(0), <<>>>> :> "raid"]

\* 3ware controllers that only tw_cli reaches; the CLI of Areca cannot be run.
OldServer ==
    [Laptop EXCEPT
        !.pds = {0}, !.tools = TRUE, !.twCli = 0 :> {0, 1},
        !.areca = [Cli EXCEPT !.runs = FALSE],
        !.disks = {Disk(Pd(0), <<>>), Disk(<<"tw_cli", 0, 0>>, <<>>), Disk(<<"tw_cli", 0, 1>>, <<>>),
                   Disk(Arcmsr(0), <<"areca", 1>>)}]

(* Machines with another system.                                           *)

Node(n, dummy) == [dev |-> <<"ad", n>>, dummy |-> dummy]

\* Enough nodes for some to be dummies.
Bsd ==
    [system |-> "other", nodes |-> {Node(0, FALSE), Node(1, FALSE), Node(2, TRUE), Node(3, TRUE)},
     filters |-> TRUE, missing |-> {}, disks |-> {Disk(<<"ad", 0>>, <<>>), Disk(<<"ad", 1>>, <<>>)},
     reply |-> <<>>]

NoDev == [Bsd EXCEPT !.missing = {"dev"}]

-----------------------------------------------------------------------------

MCHardware ==
    [desktop |-> Desktop, threeWare |-> ThreeWare, twCli |-> WithTwCli, areca |-> Areca, arecaOld |-> ArecaOld,
     adaptec |-> Adaptec, hp |-> Hp, unreadable |-> Unreadable,
     laptop |-> Laptop, workstation |-> Workstation, server |-> Server, oldServer |-> OldServer,
     bsd |-> Bsd, noDev |-> NoDev]

Added == {NewDrive(<<"sd", "z">>, <<>>, read) : read \in BOOLEAN}

\* The machines are asked for each of their disks under one address, except where the scan
\* ends the program or cannot read the devices, and the user adds none of these disks: what
\* EveryAskedDiskOnce in StorageDetectorProofs assumes.
ASSUME MachinesAreAsked ==
    Hardware = MCHardware =>
        \A m \in DOMAIN Hardware \ {"arecaOld", "noDev"} :
            /\ AsksForEach(m)
            /\ \A disk \in Hardware[m].disks : disk \cap {Address(d) : d \in Manual} = {}

-----------------------------------------------------------------------------
(* Machines whose disks are not all shown once, see README.                *)

\* "twa" and "twe" controllers together.
Mixed ==
    [Bare EXCEPT
        !.devices = {<<"twa">>, <<"twe">>}, !.scsi = <<Entry(6, "AMCC"), Entry(7, "3ware")>>,
        !.disks = {Disk(Twa(0), <<"3ware", 0>>), Disk(<<"twe", 0>>, <<"3ware", 0>>)}]

\* A disk in the last enclosure.
LastEnclosure == [Areca EXCEPT !.disks = @ \cup {Disk(Sg(2), <<"areca", 1, 3>>)}]

\* The HP host has a node for a volume too, which answers for the same disks.
HpVolume ==
    [Hp EXCEPT !.sg = <<Line(2, 0, 0), Line(2, 0, 12)>>,
               !.disks = {{<<Sg(0), <<"cciss", 0>>>>, <<Sg(1), <<"cciss", 0>>>>}}]

\* A partition of a disk with a two-letter name.
ManyDisks ==
    [Bare EXCEPT
        !.partitions = <<<<"sd", "a", "a">>, <<"sd", "a", "a", "1">>>>,
        !.disks = {{<<<<"sd", "a", "a">>, <<>>>>, <<<<"sd", "a", "a", "1">>, <<>>>>}}]

\* Three PhysicalDrives have been removed, not in a row.
Holes == [Laptop EXCEPT !.pds = {0, 2, 5}, !.disks = {Disk(Pd(n), <<>>) : n \in {0, 2, 5}}]

\* smartctl is told not to print serial numbers.
NoSerials == [Workstation EXCEPT !.noSerial = TRUE]

\* The ports of a controller with enclosures fail to identify without an enclosure.
Enclosures ==
    [Workstation EXCEPT
        !.disks = {{Csmi(0), <<Pd(0), <<>>>>}, Disk(Pd(1), <<>>), Disk(Arcmsr(0), <<"areca", 1, 1>>)}]

\* A disk has a "csmi" port, and another one only tw_cli reaches.
CsmiAndTwCli == [OldServer EXCEPT !.scanOpen = <<Open(Csmi(0), NoPd)>>, !.disks = @ \cup {{Csmi(0)}}]

MCTroubled ==
    [mixed |-> Mixed, lastEnclosure |-> LastEnclosure, hpVolume |-> HpVolume, manyDisks |-> ManyDisks,
     holes |-> Holes, noSerials |-> NoSerials, enclosures |-> Enclosures, csmiAndTwCli |-> CsmiAndTwCli]
=============================================================================

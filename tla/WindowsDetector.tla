--------------------------- MODULE WindowsDetector ---------------------------
(***************************************************************************)
(* The detection of drives on Windows (src/applib/storage_detector_win32.  *)
(* cpp) and on the BSDs and others (storage_detector_other.cpp), beside    *)
(* the one on Linux.  On Windows smartctl lists devices with a port first, *)
(* then the PhysicalDriveN are tried in turn, then the RAID tools, then    *)
(* the ports of Areca controllers; one disk may have several names.        *)
(*                                                                         *)
(* A machine with Windows has                                              *)
(*   scanOpen   the lines of --scan-open that have a port: [address, pd],  *)
(*              pd the number of the drive if it is an sdX, else NoPd,     *)
(*   pds        the numbers N whose PhysicalDriveN opens,                  *)
(*   noSerial   smartctl is configured not to print serial numbers,        *)
(*   tools      3DM2 is installed,                                         *)
(*   areca      the configuration "scan" and "useCli" (0 no, 1 yes, 2      *)
(*              auto), whether the CLI and ArcHTTP are installed, whether  *)
(*              the CLI's file exists and runs, and the types it lists;    *)
(* one with another system                                                 *)
(*   nodes      the device nodes that match: [dev, dummy],                 *)
(*   filters    it is a BSD, which filters dummy devices.                  *)
(***************************************************************************)
EXTENDS StorageDetector

CONSTANTS
    MaxPd,      \* the last PhysicalDrive tried: 254 in the code
    WinSetting  \* the configured maximums: controllers, areca, arecaEnc, enclosures

ASSUME PdAssumption == MaxPd \in Nat
ASSUME WinSettingAssumption ==
    WinSetting \in [{"controllers", "areca", "arecaEnc", "enclosures"} -> Int]

\* What detect_drives_win32() remembers between its steps.
VARIABLE known  \* [pds: used_pds, serials: of the drives with a port, misses: num_failed,
                \*  ports: multiport_found, areca: areca_open_found, byPort: scan_detect]

Nothing == [pds |-> {}, serials |-> {}, misses |-> 0, ports |-> FALSE, areca |-> FALSE, byPort |-> FALSE]

allVars == <<vars, known>>
restVars == <<machine, pc, cache, listVars>>

NoPd == -1
Pd(n) == <<"pd", n>>
Arcmsr(n) == <<"arcmsr", n>>

Method(m) ==
    /\ pc = "detect" /\ scans = <<>> /\ methods # <<>> /\ Head(methods) = m
    /\ methods' = Tail(methods)

-----------------------------------------------------------------------------
(* Devices with a port.                                                    *)

\* used_pds
UsedPds(m) == {line.pd : line \in Range(Hardware[m].scanOpen)} \ {NoPd}

OpenScans(m) ==
    LET lines == Hardware[m].scanOpen IN [i \in DOMAIN lines |-> Scan("open", lines[i].address, 0, 0)]

\* smartctl --scan-open; its error does not end the detection.
ScanOpen ==
    /\ Method("scan-open")
    /\ \/ /\ known' = [known EXCEPT !.pds = UsedPds(machine), !.ports = Hardware[machine].scanOpen # <<>>]
          /\ GoOn(OpenScans(machine))
          /\ Note(FALSE)
          /\ UNCHANGED failed
       \/ /\ MayFail /\ Note(TRUE)
          /\ failed' = TRUE /\ GoOn(<<>>)
          /\ UNCHANGED known
    /\ UNCHANGED <<restVars, found>>

\* Model and serial number tell disks apart; a drive that was not read has none.
Serials(m, dev, got) ==
    {disk \in Hardware[m].disks : /\ got.reply = "drive" /\ ~Hardware[m].noSerial
                                  /\ <<dev, got.type>> \in disk}

\* "Don't exit, just report it": a drive that cannot be read stays.
FetchOpen ==
    /\ InScan({"open"})
    /\ LET dev == Head(scans).dev[1] type == Head(scans).dev[2] IN
       \E got \in Fetched(dev, type) :
          /\ found' = found (+) One(NewDrive(dev, got.type, got.reply # "nothing"))
          /\ known' = [known EXCEPT !.serials = @ \cup Serials(machine, dev, got),
                                    !.areca = @ \/ got.type[1] = "areca"]
          /\ Note(got.reply = "nothing")
    /\ NextPort(FALSE)
    /\ UNCHANGED <<restVars, methods, failed>>

-----------------------------------------------------------------------------
(* PhysicalDriveN                                                          *)

AllPds == Scan("pd", <<>>, 0, MaxPd)

PhysicalDrives ==
    /\ Method("physical")
    /\ GoOn(<<AllPds>>)
    /\ UNCHANGED <<restVars, found, failed, known, smooth, count>>

\* "already encountered in --scan-open"
SkipUsed ==
    /\ InScan({"pd"}) /\ port \in known.pds
    /\ NextPort(FALSE)
    /\ UNCHANGED <<restVars, methods, found, failed, known, smooth, count>>

\* "Try 3 extra drives just in case": three in all, not in a row.
CannotOpen ==
    /\ InScan({"pd"}) /\ port \notin known.pds \cup Hardware[machine].pds
    /\ known' = [known EXCEPT !.misses = @ + 1]
    /\ NextPort(known.misses + 1 >= 3)
    /\ UNCHANGED <<restVars, methods, found, failed, smooth, count>>

\* "Prefer the port-having ones": the same disk is not listed again.
ProbePhysical ==
    /\ InScan({"pd"}) /\ port \in Hardware[machine].pds \ known.pds
    /\ \E got \in Fetched(Pd(port), <<>>) :
          /\ found' = IF Serials(machine, Pd(port), got) \cap known.serials # {} THEN found
                      ELSE found (+) One(NewDrive(Pd(port), got.type, got.reply # "nothing"))
          /\ Note(got.reply = "nothing")
    /\ NextPort(FALSE)
    /\ UNCHANGED <<restVars, methods, failed, known>>

-----------------------------------------------------------------------------
(* 3ware controllers through tw_cli                                        *)

ToolScans(m) ==
    ForEach(Ascending(DOMAIN Hardware[m].twCli), LAMBDA c : <<[Scan("3dm2", <<>>, 0, 0) EXCEPT !.host = c]>>)

\* "tw_cli show", if no device has a port; "ignore the error message".
TwCliControllers ==
    /\ Method("3dm2")
    /\ IF known.ports \/ ~Hardware[machine].tools THEN GoOn(<<>>) /\ Note(FALSE)
       ELSE \/ GoOn(ToolScans(machine)) /\ Note(FALSE)
            \/ MayFail /\ GoOn(<<>>) /\ Note(TRUE)
    /\ UNCHANGED <<restVars, found, failed, known>>

\* "tw_cli /cN show all": its ports are listed without reading them.
TwCliPorts ==
    /\ InScan({"3dm2"})
    /\ LET c == Head(scans).host
           ports == IF c \in DOMAIN Hardware[machine].twCli THEN Hardware[machine].twCli[c] ELSE {}
       IN  \/ /\ found' = found (+) SetToBag({NewDrive(<<"tw_cli", c, p>>, <<>>, FALSE) : p \in ports})
              /\ Note(FALSE)
           \/ MayFail /\ Note(TRUE) /\ UNCHANGED found
    /\ NextPort(FALSE)
    /\ UNCHANGED <<restVars, methods, failed, known>>

-----------------------------------------------------------------------------
(* Areca controllers                                                       *)

PortsOf(dev) == Scan("areca", dev, 1, Clamped(1, WinSetting.areca, Cap.areca))
BoxesOf(dev) ==
    [e \in 1 .. Clamped(1, WinSetting.enclosures, Cap.enclosures) - 1 |->
        [Scan("areca", dev, 1, Clamped(1, WinSetting.arecaEnc, Cap.arecaEnc)) EXCEPT !.enclosure = e]]

\* The brute-force scan: the ports of each controller, then its enclosures.
ByPort ==
    ForEach([c \in 1 .. WinSetting.controllers |-> c - 1], LAMBDA c :
        <<PortsOf(Arcmsr(c)), Scan("expanders", Arcmsr(c), 0, 0)>>)

\* What is installed and configured decides between the CLI, the ports and nothing.
MayByPort(m) == Hardware[m].areca.useCli # 1

ArecaStart(m, hasPort) ==
    LET a == Hardware[m].areca
        wanted == ~hasPort /\ a.scan # 0 /\ (a.scan = 2 => a.installed \/ a.http)
        useCli == (a.useCli = 1 \/ (a.useCli = 2 /\ a.installed)) /\ (a.installed => a.exists)
    IN  CASE wanted /\ useCli -> <<Scan("presence", Arcmsr(0), 0, 0)>>
          [] wanted /\ ~useCli /\ MayByPort(m) -> ByPort
          [] OTHER -> <<>>

ArecaTools ==
    /\ Method("arcmsr")
    /\ known' = [known EXCEPT !.byPort = MayByPort(machine)]
    /\ GoOn(ArecaStart(machine, known.areca))
    /\ UNCHANGED <<restVars, found, failed, smooth, count>>

\* "Since CLI may segfault if there are no drives, test the controller presence first."
NoArcmsr == {"noController", "noDevice", "noAddress"}

ArecaPresence ==
    /\ InScan({"presence"})
    /\ \E reply \in Replies(Head(scans).dev, <<"areca", 1>>) :
          /\ GoOn(IF reply \in NoArcmsr THEN <<>>
                  ELSE <<Scan("cli", Head(scans).dev, 0, 0)>>)
          /\ Note(reply = "nothing")
    /\ UNCHANGED <<restVars, methods, found, failed, known>>

\* "disk info"; "if we get an error on controller 0, fall back to no-cli detection", if
\* the CLI is not forced.
ArecaCli ==
    /\ InScan({"cli"})
    /\ LET a == Hardware[machine].areca IN
       \/ /\ a.runs
          /\ found' = found (+) SetToBag({NewDrive(Head(scans).dev, type, FALSE) : type \in a.lists})
          /\ GoOn(<<>>)
          /\ Note(FALSE)
       \/ /\ ~a.runs \/ MayFail
          /\ GoOn(IF known.byPort THEN ByPort ELSE <<>>)
          /\ Note(a.runs)
          /\ UNCHANGED found
    /\ UNCHANGED <<restVars, methods, failed, known>>

\* "If no drives were added (but the controller is present), it may be due to expander
\* syntax requirement."
ArecaExpanders ==
    /\ InScan({"expanders"})
    /\ LET dev == Head(scans).dev IN
       GoOn((IF \E d \in DOMAIN found : d.dev = dev THEN <<>> ELSE BoxesOf(dev)) \o Tail(scans))
    /\ UNCHANGED <<restVars, methods, found, failed, known, smooth, count>>

-----------------------------------------------------------------------------
(* detect_drives_other()                                                   *)

\* The nodes of the device directory that match; "if there are less than 4 devices, they
\* are probably not dummy".
KeptNodes(m) ==
    LET all == Hardware[m].nodes
    IN  {n \in all : ~(Hardware[m].filters /\ Cardinality(all) >= 4 /\ n.dummy)}

DeviceNodes ==
    /\ Method("dev")
    /\ IF "dev" \in Hardware[machine].missing
       THEN failed' = TRUE /\ UNCHANGED found
       ELSE /\ found' = SetToBag({NewDrive(n.dev, <<>>, FALSE) : n \in KeptNodes(machine)})
            /\ UNCHANGED failed
    /\ GoOn(<<>>)
    /\ UNCHANGED <<restVars, known, smooth, count>>

-----------------------------------------------------------------------------
(* What the tools say of a machine is true.                                *)

IsSeq(s) == s \in Seq(Range(s))

\* Devices, none of them the volume of a controller that hides disks.
AreDisks(m, devs) == devs \subseteq Devices(m) \ Volumes(m)

\* What a scan keeps without asking, or whatever the answer, is a disk.  A volume is asked
\* as a partition only, which ignores it, or as a PhysicalDrive whose disks have a port.
Honest(m, scan) ==
    CASE scan.rule = "partition" -> scan.dev \in Devices(m)
      [] scan.rule \in {"adaptec", "cciss", "hpsa"} -> AreDisks(m, {scan.dev})
      [] scan.rule = "tw_cli" -> /\ scan.dev \notin Volumes(m)
                                 /\ scan.host \in DOMAIN Hardware[m].twCli => scan.dev \in Devices(m)
      [] scan.rule \in {"3ware", "areca", "expanders"} -> scan.dev \notin Volumes(m)
      [] scan.rule = "open" -> AreDisks(m, {scan.dev[1]})
      [] scan.rule = "pd" -> /\ Hardware[m].system = "windows"
                             /\ AreDisks(m, {Pd(n) : n \in Hardware[m].pds \ UsedPds(m)})
      [] scan.rule = "3dm2" -> /\ scan.host \in DOMAIN Hardware[m].twCli
                               /\ AreDisks(m, {<<"tw_cli", scan.host, p>> : p \in Hardware[m].twCli[scan.host]})
      [] scan.rule \in {"presence", "cli"} -> /\ Hardware[m].system = "windows"
                                              /\ scan.dev \notin Volumes(m)
                                              /\ Hardware[m].areca.lists # {} => scan.dev \in Devices(m)
      [] OTHER -> FALSE

\* So are the scans that the methods of a machine start, and the nodes they keep.
HonestScans(m) ==
    LET h == Hardware[m] IN
    CASE h.system = "linux" -> \A method \in Range(Methods) :
                                   \A scan \in Range(ScansOf(method, FilesNow(m))) : Honest(m, scan)
      [] h.system = "windows" -> /\ \A line \in Range(h.scanOpen) : Honest(m, Scan("open", line.address, 0, 0))
                                 /\ Honest(m, AllPds)
                                 /\ Honest(m, Scan("presence", Arcmsr(0), 0, 0))
                                 /\ \A scan \in Range(ToolScans(m)) \cup Range(ByPort) : Honest(m, scan)
      [] h.system = "other" -> AreDisks(m, {n.dev : n \in KeptNodes(m)})

\* The files of Linux are lists of lines; hosts, cciss controllers and ports are numbered,
\* and /dev/sgN is no block device.
AreFiles(files) ==
    /\ IsSeq(files.partitions) /\ IsSeq(files.scsi) /\ IsSeq(files.sg) /\ IsFiniteSet(files.devices)
    /\ \A name \in Range(files.partitions) : IsSeq(name) /\ name # <<>> /\ name[1] # "sg"
    /\ \A entry \in Range(files.scsi) : entry.host \in Int
    /\ \A driver \in files.devices : driver[1] = "cciss" => driver[2] \in Int
    /\ \A host \in DOMAIN files.channels : files.channels[host] \in Int

WellFormed(m) ==
    LET h == Hardware[m] IN
    CASE h.system = "linux" -> AreFiles(h)
      [] h.system = "windows" -> IsSeq(h.scanOpen) /\ IsFiniteSet(DOMAIN h.twCli)
                                 /\ DOMAIN h.twCli \subseteq Int
      [] h.system = "other" -> TRUE
      [] OTHER -> FALSE

ASSUME HardwareAssumption == \A m \in DOMAIN Hardware : WellFormed(m) /\ HonestScans(m)

-----------------------------------------------------------------------------
(* What a scan lists if nothing goes wrong, by the machine alone: no       *)
(* steps, no cache, no one else.                                           *)

\* What smartctl says of a device in the end, and with which type.
Settled(m, dev, type) ==
    LET reply == ReplyOf(m, dev, type) IN
    IF reply = "needsType" /\ type = <<>>
    THEN [type |-> <<"scsi">>, reply |-> ReplyOf(m, dev, <<"scsi">>)]
    ELSE [type |-> type, reply |-> reply]

AtPort(m, scan, p) == Settled(m, scan.dev, TypeAt(scan, p))

\* The ports from this one on before one that ends the loop; one is asked in any case.
PortsFrom(m, scan, from) ==
    {p \in from .. IF scan.to < from THEN from ELSE scan.to :
        \A q \in from .. p : ~Stops(scan.rule, q, AtPort(m, scan, q).reply)}

AnsweringFrom(m, scan, from) ==
    {<<scan.dev, AtPort(m, scan, p).type>> :
        p \in {q \in PortsFrom(m, scan, from) :
                 ~(scan.rule = "partition" /\ AtPort(m, scan, q).reply = "raid")}}

\* On Windows: a device with a port, and what all of them say.
AtOpen(m, scan) == Settled(m, scan.dev[1], scan.dev[2])
OpenSerials(m) == UNION {Serials(m, scan.dev[1], AtOpen(m, scan)) : scan \in Range(OpenScans(m))}
HasArecaPort(m) == \E scan \in Range(OpenScans(m)) : AtOpen(m, scan).type[1] = "areca"

\* The PhysicalDrives from a number on, before three have not opened.
Misses(m, n) == Cardinality({k \in 0 .. n - 1 : k \notin UsedPds(m) \cup Hardware[m].pds})
PdsFrom(m, from) ==
    {<<Pd(n), Settled(m, Pd(n), <<>>).type>> :
        n \in {k \in from .. MaxPd :
                 /\ Misses(m, k) < 3 /\ k \in Hardware[m].pds \ UsedPds(m)
                 /\ Serials(m, Pd(k), Settled(m, Pd(k), <<>>)) \cap OpenSerials(m) = {}}}

\* The enclosures of an Areca controller that no port has been found of.
Boxed(m, dev) ==
    IF \/ \E scan \in Range(OpenScans(m)) : scan.dev[1] = dev
       \/ AnsweringFrom(m, PortsOf(dev), 1) # {}
    THEN {} ELSE UNION {AnsweringFrom(m, scan, 1) : scan \in Range(BoxesOf(dev))}

ListedByPort(m, scan) == IF scan.rule = "expanders" THEN Boxed(m, scan.dev) ELSE AnsweringFrom(m, scan, 1)

CliLists(m, dev) ==
    IF Hardware[m].areca.runs THEN {<<dev, type>> : type \in Hardware[m].areca.lists}
    ELSE IF MayByPort(m) THEN UNION {ListedByPort(m, scan) : scan \in Range(ByPort)}
    ELSE {}

\* The addresses a scan lists from a port on.
ListedFrom(m, scan, from) ==
    CASE scan.rule = "adaptec" ->
            LET sat == Settled(m, scan.dev, <<"sat">>)
                last == IF sat.reply = "identityFailed" THEN Settled(m, scan.dev, <<>>) ELSE sat
            IN  {<<scan.dev, last.type>>}
      [] scan.rule = "tw_cli" /\ scan.host \in DOMAIN Hardware[m].twCli ->
            {<<scan.dev, <<"3ware", p>>>> : p \in Hardware[m].twCli[scan.host]}
      [] scan.rule = "tw_cli" /\ scan.host \notin DOMAIN Hardware[m].twCli ->
            AnsweringFrom(m, ThreeWarePorts(scan), 0)
      [] scan.rule = "open" -> {<<scan.dev[1], AtOpen(m, scan).type>>}
      [] scan.rule = "pd" -> PdsFrom(m, from)
      [] scan.rule = "3dm2" -> {<<<<"tw_cli", scan.host, p>>, <<>>>> : p \in Hardware[m].twCli[scan.host]}
      [] scan.rule = "presence" -> IF ReplyOf(m, scan.dev, <<"areca", 1>>) \in NoArcmsr THEN {}
                                   ELSE CliLists(m, scan.dev)
      [] scan.rule = "cli" -> CliLists(m, scan.dev)
      [] scan.rule = "expanders" -> Boxed(m, scan.dev)
      [] OTHER -> AnsweringFrom(m, scan, from)

ListedBy(m, scan) == ListedFrom(m, scan, scan.from)

\* The scans that a method starts with; none if what it reads cannot be read.
StartOf(m, method) ==
    CASE method = "scan-open" -> OpenScans(m)
      [] method = "physical" -> <<AllPds>>
      [] method = "3dm2" -> IF Hardware[m].scanOpen # <<>> \/ ~Hardware[m].tools THEN <<>> ELSE ToolScans(m)
      [] method = "arcmsr" -> ArecaStart(m, HasArecaPort(m))
      [] OTHER -> IF Range(FilesOf(method, FilesNow(m))) \cap Hardware[m].missing # {} THEN <<>>
                  ELSE ScansOf(method, FilesNow(m))

\* The addresses a method lists.
ListedIn(m, method) ==
    IF method = "dev"
    THEN IF "dev" \in Hardware[m].missing THEN {} ELSE {<<n.dev, <<>>>> : n \in KeptNodes(m)}
    ELSE UNION {ListedBy(m, scan) : scan \in Range(StartOf(m, method))}

Plan(m) == UNION {ListedIn(m, method) : method \in Range(MethodsOf(Hardware[m].system))}

\* No two of these scans list the same address.
Separate(m, s) == \A i, j \in DOMAIN s : i # j => ListedBy(m, s[i]) \cap ListedBy(m, s[j]) = {}

\* On Windows smartctl names each device with a port once, and none that is asked later.
OpensApart(m) ==
    Hardware[m].system = "windows" =>
        /\ Separate(m, OpenScans(m))
        /\ \A method \in {"physical", "3dm2", "arcmsr"} : ListedIn(m, "scan-open") \cap ListedIn(m, method) = {}

\* The machine is asked for each disk under one address.
AsksForEach(m) ==
    /\ OpensApart(m)
    /\ \A disk \in Hardware[m].disks :
           (\E a \in disk : a[1] \notin Blacklist) =>
               \E a \in disk : {b \in disk \cap Plan(m) : b[1] \notin Blacklist} = {a}

-----------------------------------------------------------------------------

OtherMethods ==
    \/ ScanOpen \/ FetchOpen \/ PhysicalDrives \/ SkipUsed \/ CannotOpen \/ ProbePhysical
    \/ TwCliControllers \/ TwCliPorts \/ ArecaTools \/ ArecaPresence \/ ArecaCli \/ ArecaExpanders
    \/ DeviceNodes

AnyProgram == OtherMethods \/ (Program /\ UNCHANGED known)

AnyInit == Init /\ known = Nothing

AnyNext ==
    \/ Begin /\ known' = Nothing
    \/ AnyProgram
    \/ (Replug \/ \E d \in Manual : UserAdds(d)) /\ UNCHANGED known

AnySpec == AnyInit /\ [][AnyNext]_allVars

\* Commands end, and the program goes on.
FairAnySpec == AnySpec /\ WF_allVars(AnyProgram)
=============================================================================

--------------------------- MODULE StorageDetector ---------------------------
(***************************************************************************)
(* The detection of drives: StorageDetector (src/applib/storage_detector.  *)
(* cpp), detect_drives_linux() with its methods                            *)
(* (storage_detector_linux.cpp) and the scans they share                   *)
(* (storage_detector_helpers.h).  WindowsDetector adds the methods of the  *)
(* other systems.  Each command is a step of its own, since the program    *)
(* dispatches events while it waits: the user may add a device to the list *)
(* meanwhile, and hardware comes and goes.                                 *)
(*                                                                         *)
(* A drive is a device, a type argument, and whether it has been read.     *)
(***************************************************************************)
EXTENDS LinuxDevices, Bags

CONSTANTS
    Hardware,       \* the machines there may be: [name -> what it is, see below]
    Manual,         \* drives the user may add by hand
    Blacklist,      \* devices that match "system/device_blacklist_patterns"
    MaxFailures,    \* bound: commands that print nothing
    MaxScans,       \* bound: scans
    MaxAdds,        \* bound: devices added by hand
    MaxReplugs      \* bound: changes of the hardware

ASSUME BoundsAssumption == {MaxFailures, MaxScans, MaxAdds, MaxReplugs} \subseteq Nat

VARIABLES
    machine,    \* the name of the hardware now
    cache,      \* the file cache: [file -> the machine whose contents are kept]
    pc,         \* "idle", "detect", "fetch", or "dead"
    methods,    \* the methods still to come
    scans,      \* the scans of the current method still to come, the current one first
    port,       \* the port of the current scan to ask next
    found,      \* all_detected: a bag of drives
    failed,     \* error_msgs is not empty
    left,       \* what the loop of fetch_basic_data() has not looked at
    list,       \* drives_ of the main window: a bag of drives
    status,     \* what the last scan returned: "none", "ok" or "error"
    smooth,     \* history: no command failed and no hardware changed since the scan began
    count       \* history: scans, adds, replugs and failures so far

detectVars == <<cache, methods, scans, port, found, failed>>
listVars == <<left, list, status>>
vars == <<machine, pc, detectVars, listVars, smooth, count>>

NewDrive(dev, type, read) == [dev |-> dev, type |-> type, read |-> read]
One(d) == SetToBag({d})

-----------------------------------------------------------------------------
(* The machine.  system: "linux", "windows" or "other"; disks: each disk   *)
(* is the set of addresses <<device, type>> under which smartctl shows it; *)
(* reply: what smartctl says of other addresses; twCli: the ports tw_cli   *)
(* lists, of the hosts it knows, none if it is not installed; missing:     *)
(* files that cannot be read; the others are the files, see LinuxDevices,  *)
(* or what the other systems show, see WindowsDetector.                    *)

File == {"partitions", "devices", "scsi", "sg"}

\* The devices of a machine, and those that are volumes of a RAID controller.
Devices(m) == {a[1] : a \in (UNION Hardware[m].disks) \cup DOMAIN Hardware[m].reply}
Volumes(m) == {a[1] : a \in {b \in DOMAIN Hardware[m].reply : Hardware[m].reply[b] = "raid"}}

\* The files as they are.
FilesNow(m) == [f \in File \cup {"channels"} |-> Hardware[m][f]]

\* read_proc_file(): from the cache, or as it is now.
Source(f) == IF f \in DOMAIN cache THEN cache[f] ELSE machine
Contents == [f \in File \cup {"channels"} |-> Hardware[Source(f)][f]]

\* What smartctl prints of an address: nothing, or its banner and one of
\* "drive", "needsType" (please specify the device type), "raid" (try adding -d 3ware),
\* "identityFailed", "limit" (VALID ARGUMENTS ARE), "noController", "noDevice",
\* "noAddress" (no such device; device or address) or "denied".
ReplyOf(m, dev, type) ==
    IF \E disk \in Hardware[m].disks : <<dev, type>> \in disk THEN "drive"
    ELSE IF <<dev, type>> \in DOMAIN Hardware[m].reply THEN Hardware[m].reply[<<dev, type>>]
    ELSE "noDevice"
Reply(dev, type) == ReplyOf(machine, dev, type)

MayFail == count.failures < MaxFailures
Replies(dev, type) == {Reply(dev, type)} \cup (IF MayFail THEN {"nothing"} ELSE {})

\* The history of a command that failed, or not.
Note(fails) ==
    /\ smooth' = (smooth /\ ~fails)
    /\ count' = IF fails THEN [count EXCEPT !.failures = @ + 1] ELSE count

\* fetch_basic_data_and_parse(): again with "-d scsi" if the type was not to be detected.
\* Whatever smartctl's exit status, all that has its banner parses.
Fetched(dev, type) ==
    UNION {IF reply = "needsType" /\ type = <<>>
           THEN {[type |-> <<"scsi">>, reply |-> again] : again \in Replies(dev, <<"scsi">>)}
           ELSE {[type |-> type, reply |-> reply]} : reply \in Replies(dev, type)}

-----------------------------------------------------------------------------
(* detect_drives_linux()                                                   *)

\* detect_drives_linux(), detect_drives_win32() or detect_drives_other().
MethodsOf(system) ==
    CASE system = "linux" -> Methods
      [] system = "windows" -> <<"scan-open", "physical", "3dm2", "arcmsr">>
      [] system = "other" -> <<"dev">>

\* Mutation: the cache of a former scan stays.
BeginCached ==
    /\ pc = "idle" /\ count.scans < MaxScans
    /\ pc' = "detect"
    /\ methods' = MethodsOf(Hardware[machine].system) /\ scans' = <<>> /\ port' = 0
    /\ found' = EmptyBag /\ failed' = FALSE
    /\ left' = {} /\ list' = EmptyBag /\ status' = "none"
    /\ smooth' = TRUE /\ count' = [count EXCEPT !.scans = @ + 1]
    /\ UNCHANGED <<machine, cache>>

\* rescan_devices() has cleared the list; clear_read_file_cache().
Begin ==
    /\ pc = "idle" /\ count.scans < MaxScans
    /\ pc' = "detect"
    /\ cache' = <<>> /\ methods' = MethodsOf(Hardware[machine].system) /\ scans' = <<>> /\ port' = 0
    /\ found' = EmptyBag /\ failed' = FALSE
    /\ left' = {} /\ list' = EmptyBag /\ status' = "none"
    /\ smooth' = TRUE /\ count' = [count EXCEPT !.scans = @ + 1]
    /\ UNCHANGED machine

\* The head of scans, and its first port.
GoOn(rest) == scans' = rest /\ port' = IF rest = <<>> THEN 0 ELSE Head(rest).from

\* The next method reads its files; one that it cannot read ends the method with an error.
\* (A value bound by \E over its singleton is evaluated once by TLC.)
StartMethod ==
    /\ pc = "detect" /\ scans = <<>> /\ methods # <<>>
    /\ Head(methods) \in Range(Methods)
    /\ \E contents \in {Contents} : \E files \in {FilesOf(Head(methods), contents)} :
       LET bad == {i \in DOMAIN files : files[i] \notin DOMAIN cache /\ files[i] \in Hardware[machine].missing}
           read == {files[i] : i \in {k \in DOMAIN files : \A j \in bad : k < j}}
       IN  /\ cache' = [f \in DOMAIN cache \cup read |-> Source(f)]
           /\ failed' = (failed \/ bad # {})
           /\ \E all \in {IF bad = {} THEN ScansOf(Head(methods), contents) ELSE <<>>} : GoOn(all)
    /\ methods' = Tail(methods)
    /\ UNCHANGED <<machine, pc, found, listVars, smooth, count>>

InScan(rules) == pc = "detect" /\ scans # <<>> /\ Head(scans).rule \in rules

\* The loop goes on with the next port, or the next scan.
NextPort(stop) ==
    IF stop \/ port >= Head(scans).to THEN GoOn(Tail(scans))
    ELSE port' = port + 1 /\ UNCHANGED scans

\* Mutation: a volume of a 3ware controller is kept.
ProbeKeepsVolumes ==
    /\ InScan({"partition", "3ware", "areca", "cciss", "hpsa"})
    /\ Head(scans).to # Unset
    /\ LET scan == Head(scans) IN
       \E got \in Fetched(scan.dev, TypeAt(scan, port)) :
          LET stop == Stops(scan.rule, port, got.reply)
              keep == ~stop /\ got.reply # "nothing"
          IN  /\ found' = IF keep THEN found (+) One(NewDrive(scan.dev, got.type, TRUE)) ELSE found
              /\ Note(got.reply = "nothing")
              /\ NextPort(stop)
    /\ UNCHANGED <<machine, pc, cache, methods, failed, listVars>>

\* One smartctl: the drive is kept if its output parsed and does not end the scan.
\* "3ware controllers also export themselves as sd*", which the first method ignores.
Probe ==
    /\ InScan({"partition", "3ware", "areca", "cciss", "hpsa"})
    /\ Head(scans).to # Unset
    /\ LET scan == Head(scans) IN
       \E got \in Fetched(scan.dev, TypeAt(scan, port)) :
          LET stop == Stops(scan.rule, port, got.reply)
              keep == ~stop /\ got.reply # "nothing" /\ ~(scan.rule = "partition" /\ got.reply = "raid")
          IN  /\ found' = IF keep THEN found (+) One(NewDrive(scan.dev, got.type, TRUE)) ELSE found
              /\ Note(got.reply = "nothing")
              /\ NextPort(stop)
    /\ UNCHANGED <<machine, pc, cache, methods, failed, listVars>>

\* '"-d sat" didn't work, default back to smartctl's "-d scsi"'
ProbeAdaptec ==
    /\ InScan({"adaptec"})
    /\ LET dev == Head(scans).dev IN
       \E first \in Fetched(dev, <<"sat">>) :
       \E got \in IF first.reply = "identityFailed" THEN Fetched(dev, <<>>) ELSE {first} :
          /\ found' = IF got.reply # "nothing" THEN found (+) One(NewDrive(dev, got.type, TRUE)) ELSE found
          /\ Note(got.reply = "nothing")
    /\ NextPort(FALSE)
    /\ UNCHANGED <<machine, pc, cache, methods, failed, listVars>>

\* Mutation: tw_cli is asked once more in place of the ports.
AskTwCliAgain ==
    /\ InScan({"tw_cli"})
    /\ LET scan == Head(scans) IN
       \/ /\ scan.host \in DOMAIN Hardware[machine].twCli
          /\ found' = found (+) SetToBag({NewDrive(scan.dev, <<"3ware", p>>, FALSE) :
                                             p \in Hardware[machine].twCli[scan.host]})
          /\ GoOn(Tail(scans))
          /\ Note(FALSE)
       \/ /\ MayFail \/ scan.host \notin DOMAIN Hardware[machine].twCli
          /\ GoOn(<<scan>> \o Tail(scans))
          /\ Note(scan.host \in DOMAIN Hardware[machine].twCli)
          /\ UNCHANGED found
    /\ UNCHANGED <<machine, pc, cache, methods, failed, listVars>>

\* tw_cli_get_drives(): the drives are not read.  Without output the ports are scanned.
AskTwCli ==
    /\ InScan({"tw_cli"})
    /\ LET scan == Head(scans) IN
       \/ /\ scan.host \in DOMAIN Hardware[machine].twCli
          /\ found' = found (+) SetToBag({NewDrive(scan.dev, <<"3ware", p>>, FALSE) :
                                             p \in Hardware[machine].twCli[scan.host]})
          /\ GoOn(Tail(scans))
          /\ Note(FALSE)
       \/ /\ MayFail \/ scan.host \notin DOMAIN Hardware[machine].twCli
          /\ GoOn(<<ThreeWarePorts(scan)>> \o Tail(scans))
          /\ Note(scan.host \in DOMAIN Hardware[machine].twCli)
          /\ UNCHANGED found
    /\ UNCHANGED <<machine, pc, cache, methods, failed, listVars>>

\* rconfig::get_data() throws: the setting has no default, and nobody catches it.
SettingThrows ==
    /\ InScan({"areca"}) /\ Head(scans).to = Unset
    /\ pc' = "dead"
    /\ UNCHANGED <<machine, detectVars, listVars, smooth, count>>

-----------------------------------------------------------------------------
(* detect(), fetch_basic_data()                                            *)

\* Not blacklisted.
Wanted(bag) == [d \in {x \in DOMAIN bag : x.dev \notin Blacklist} |-> bag[d]]

Detected == pc = "detect" /\ scans = <<>> /\ methods = <<>>

\* Mutation: what others added meanwhile is lost.
FinishReplaces ==
    /\ Detected /\ (found # EmptyBag \/ ~failed)
    /\ pc' = "idle" /\ status' = "ok"
    /\ list' = Wanted(found)
    /\ UNCHANGED <<machine, detectVars, left, smooth, count>>

\* Errors do not matter if there are drives.
Finish ==
    /\ Detected /\ (found # EmptyBag \/ ~failed)
    /\ pc' = "idle" /\ status' = "ok"
    /\ list' = list (+) Wanted(found)
    /\ UNCHANGED <<machine, detectVars, left, smooth, count>>

\* "if (!detect_status)": what is in the list is read if the detection has failed.
FinishFailed ==
    /\ Detected /\ found = EmptyBag /\ failed
    /\ pc' = "fetch" /\ left' = DOMAIN list
    /\ UNCHANGED <<machine, detectVars, list, status, smooth, count>>

\* One round of the loop over the drives, "if not fetched during detection".
FetchDrive(d) ==
    /\ pc = "fetch" /\ d \in left
    /\ left' = left \ {d}
    /\ IF d.read THEN UNCHANGED <<list, smooth, count>>
       ELSE \E got \in Fetched(d.dev, d.type) :
               /\ list' = (list (-) One(d)) (+) One(NewDrive(d.dev, got.type, got.reply # "nothing"))
               /\ Note(got.reply = "nothing")
    /\ UNCHANGED <<machine, pc, detectVars, status>>

\* "ignore its errors, there may be plenty of them."
FetchEnds ==
    /\ pc = "fetch" /\ left = {}
    /\ pc' = "idle" /\ status' = "error"
    /\ UNCHANGED <<machine, detectVars, left, list, smooth, count>>

-----------------------------------------------------------------------------
(* What others do meanwhile.                                               *)

\* add_device().  If the loop of fetch_basic_data() is on the vector, and it grows, what
\* the loop does is undefined: it may stay within the old elements, or not.
UserAdds(d) ==
    /\ pc # "dead" /\ count.adds < MaxAdds
    /\ list' = list (+) One(d)
    /\ pc' \in IF pc = "fetch" THEN {"fetch", "dead"} ELSE {pc}
    /\ count' = [count EXCEPT !.adds = @ + 1]
    /\ UNCHANGED <<machine, detectVars, left, status, smooth>>

Replug ==
    /\ pc # "dead" /\ count.replugs < MaxReplugs
    /\ machine' \in {m \in DOMAIN Hardware \ {machine} : Hardware[m].system = Hardware[machine].system}
    /\ smooth' = FALSE
    /\ count' = [count EXCEPT !.replugs = @ + 1]
    /\ UNCHANGED <<pc, detectVars, listVars>>

-----------------------------------------------------------------------------

Init ==
    /\ machine \in DOMAIN Hardware
    /\ pc = "idle"
    /\ cache = <<>> /\ methods = <<>> /\ scans = <<>> /\ port = 0
    /\ found = EmptyBag /\ failed = FALSE
    /\ left = {} /\ list = EmptyBag /\ status = "none"
    /\ smooth = TRUE
    /\ count = [scans |-> 0, adds |-> 0, replugs |-> 0, failures |-> 0]

Program ==
    \/ StartMethod \/ Probe \/ ProbeAdaptec \/ AskTwCli \/ SettingThrows
    \/ Finish \/ FinishFailed \/ FetchEnds \/ \E d \in left : FetchDrive(d)

Next == Begin \/ Program \/ Replug \/ \E d \in Manual : UserAdds(d)

Spec == Init /\ [][Next]_vars

\* Commands end, and the program goes on.
FairSpec == Spec /\ WF_vars(Program)

-----------------------------------------------------------------------------
(* Properties.                                                             *)

Address(d) == <<d.dev, d.type>>

\* The list shows a disk under one address, and once.
ShownOnce(disk) ==
    \E d \in DOMAIN list : list[d] = 1 /\ {x \in DOMAIN list : Address(x) \in disk} = {d}

Complete == pc = "idle" /\ status = "ok" /\ smooth

\* A scan in which no command failed and no hardware changed shows every disk of the
\* machine exactly once, however it is attached, and whatever the other methods failed at.
EveryDiskOnce ==
    Complete => \A disk \in Hardware[machine].disks :
                    (\E a \in disk : a[1] \notin Blacklist) => ShownOnce(disk)

\* A scan shows nothing of a machine as it was before: each device of the list is there.
NoGhosts ==
    Complete => \A d \in DOMAIN list \ Manual :
                    d.dev \in Devices(machine) /\ Reply(d.dev, d.type) # "raid"

Promise == INSTANCE DriveScan WITH
    phase <- IF pc \in {"detect", "fetch"} THEN "scanning" ELSE pc,
    listed <- list

\* The methods, files and ports keep the promise of detect_and_fetch_basic_data().
KeepsPromise == Promise!Spec

\* "If not present, use 24 (maximum)": no scan ends the program.
ScanSurvives == pc # "dead"

\* "Run detect() and fetch_basic_data()": the drives of the list have been read.
ListedAreRead == Complete => \A d \in DOMAIN list \ Manual : d.read

\* "This will generate an error if smartctl doesn't return 0, which is what happens
\* with non-populated ports": only drives are listed.
OnlyDrivesAreListed ==
    Complete => \A d \in DOMAIN list \ Manual : d.read => Reply(d.dev, d.type) = "drive"

\* "Returns detection error message if error occurs."
ErrorsAreReturned == pc = "idle" /\ failed => status = "error"

\* The loop of fetch_basic_data() over the vector finds it as it was.
ListIsStillInLoop == [][pc = "fetch" => BagCardinality(list') = BagCardinality(list)]_vars

\* A scan ends, however many ports it asks.
ScanEnds == pc # "idle" ~> pc \in {"idle", "dead"}
=============================================================================

# Specification of gsmartcontrol

gsmartcontrol is a GTK front end to `smartctl`: it detects the drives of a
machine, shows what they report of themselves, switches SMART on and off, and
runs the drives' self-tests. This directory models it in TLA+, checks the models
with TLC and proves theorems about them with TLAPS. Paths below are relative to
`src/src/` of the repository.

Everything in the program runs on one thread. Its concurrency is re-entrancy:
`CommandExecutor::execute()` waits for a child process by iterating the GLib main
context, and the tick handler of its dialog dispatches every pending GTK event
(`applib/command_executor_gui.cpp:185`). The dialog becomes modal only when it is
shown, two seconds after the command starts. So any handler that runs `smartctl`
is cut in two, and clicks, timeouts and other handlers run in the gap, on top of
it on the same stack. Most of what is hard here, and nearly all that the
repository's tests do not reach, comes from that.

## Inventory

| Component | Code | State | Operations | Model |
|---|---|---|---|---|
| Asynchronous command executor | `applib/async_command_executor.*`, `hz/process_signal.h` | the child's pid, wait status, last signal sent, two channels and buffers, two stop timeouts, errors | `execute`, `try_stop`, `set_stop_timeouts`, `unset_stop_timeouts`, `stopped_cleanup`; callbacks: child watch, channel watches, two timeouts | `AsyncCommandExecutor` |
| Synchronous executors | `applib/command_executor.*`, `smartctl_executor.h`, `command_executor_3ware.h`, `command_executor_areca.h` | one asynchronous executor, error message | `execute` (a loop), tick signal, finish signal, `import_error`, exit status translation | `CommandExecutor`, abstractly `SyncCommand` |
| Running dialog | `applib/command_executor_gui.*`, `smartctl_executor_gui.h` | dialog shown, aborting, timer | tick: start, running, stopping, stopped; the dialog's timer and its Cancel button | `CommandExecutorGui` |
| Self-test runner | `applib/selftest.*` | status, type, polling times; the lock `test_is_active_` of the drive | `start`, `update`, `force_stop`, `is_supported` | `SelfTest`, abstractly `TestRun`; its times `SelfTestTimes` |
| Information window | `gui/gsc_info_window.*` | widgets' sensitivity, current test, timeout callbacks | open, refresh, execute, stop, close, `test_idle_callback` | `InfoWindow` |
| Main window, icon view | `gui/gsc_main_window.*`, `gsc_main_window_iconview.*` | `drives_`, `scanning_`, icons, selection | scan, add, remove, load a file, SMART toggle, re-read, details, quit | `MainWindow` |
| Add Device window | `gui/gsc_add_device_window.*` | – | OK button | `MainWindow` |
| Drive detection | `applib/storage_detector*.{cpp,h}` | the drives found, the executors and errors of the scan | `detect`, `fetch_basic_data`, the methods of each system | `StorageDetector`, `LinuxDevices`, `WindowsDetector`, abstractly `DriveScan`; its place in the program in `MainWindow` |
| Storage device | `applib/storage_device*.{cpp,h}` | outputs, parse status, detected type, type argument, lock, properties | fetch and parse (basic, full), set SMART, parse a file | `StorageDevice`; its lock also in `SelfTest`, its presence in `MainWindow` |
| Configuration tree | `rconfig/rconfig.h` | the JSON tree and the defaults | set, unset, read | `ConfigTree` |
| Configuration file | `rconfig/loadsave.h`, `rconfig/autosave.h`, `gui/gsc_init.cpp`, `hz/fs.h` | the file, the autosave timer | load, save, autosave, save on quit | `ConfigStore` |
| Device settings | `applib/storage_settings.h`, `gsc_settings.h` | startup devices, options per drive, defaults | get, set | the options in `PreferencesWindow`, startup devices in `MainWindow` |
| smartctl parsers | `applib/smartctl_*parser.*` | – (pure) | choose format, parse sections | `SmartctlReport`, as far as `StorageDevice` tells reports apart |
| Properties, descriptions | `applib/storage_property*`, `warning_colors.*` | the property repository | warnings per property | planned |
| Window instances | `applib/window_instance_manager.h` | the set of live windows | create, destroy | lives of information windows in `InfoWindow` |
| Preferences window | `gui/gsc_preferences_window.*` | rows of device options, the selected one, three entries | open, select, add, remove, edit, OK, cancel, reset | `PreferencesWindow`; its effects in `Change` of `ConfigStore`, `PrefsUpdated` of `MainWindow` |
| Start and end | `gui/gsc_init.cpp`, `gsc_main.cpp` | – | load, construct, main loop, quit | `ConfigStore`, `MainWindow` |
| Utilities | `hz/*` | – (pure) | compare, split, format | planned |
| Logging, log window, error dialogs | `libdebug/*`, `gui/gsc_executor_*` | – | – | not modelled |

How they interact: windows hold shared pointers to `StorageDevice` objects and
create executors; an executor calls back (tick) into the window's main context;
the lock of a drive is a flag of the `StorageDevice` that every window of the
drive looks at; the main window and the settings share the configuration tree;
the timer of the autosave and the 300 ms timer of a test run whenever a main loop
iterates, be it nested.

What makes each correct, in a sentence:

- *Asynchronous executor*: it never loses track of its child, never signals another
  one, never loses more output than it must, and reports the end the child had.
- *Synchronous executor*: it returns with no child left, reports a fatal signal
  always and a clean exit never, and once asked to stop comes back.
- *Running dialog*: a command is stopped only because the user asked for it, and then
  comes back; once the program quits nothing is started any more.
- *Detection*: each disk of the machine is listed once and nothing else is, whatever
  the controllers answer; a scan ends, and what the user added meanwhile stays.
- *Tests*: one at a time on a drive, the lock held exactly as long, by somebody who
  will release it, and respected by everything that could abort the test.
- *Times of a test*: its end is noticed within the interval meant for it, and the
  remaining time is never shown too short.
- *Windows*: none closes while its test is in progress.
- *Storage device*: what it caches, shows and offers to switch fits the data it has
  read last; it asks smartctl again at most once, and never parses data of a drive
  whose type it does not know.
- *Main window*: one scan at a time, which ends; every icon shows a drive of the
  list, once; a device that was entered with a type and is removed stays removed.
- *Preferences*: a row changes only by what is typed into it, and smartctl gets exactly
  the options the list showed; looking at the window changes nothing.
- *Configuration*: a setting is changed exactly, saved in the end, and back at the
  next start, unless the file was torn in a save.

`PROJECT.json` lists the places in the code where one of these can go wrong
("hazards") and the properties that watch them.

## The modules

A handler that waits for a command, or for a dialog, is a frame on a sequence
`stack`; the handlers on it can go on only from the top. What a handler does before
the command is one action (`ClickX`), what it does after it another (`XReturns`,
`XClosed`).

**AsyncCommandExecutor** – `applib/async_command_executor.*`. One action per method
(`Execute`, `ExecuteSpawnFails`, `Stop`, `SetStopTimeouts`, `UnsetStopTimeouts`,
`StoppedCleanup`) and per callback (`ChildWatch`, `ChannelIo`, `StopTimeout`). The
child and the kernel are the environment: the child writes, exits, dies of a signal,
ignores SIGTERM for as long as it likes; GLib's `waitpid()` (`ChildReaped`) and the
dispatch of the child watch are two steps, since the pid is invalid in between.
Output is counted in blocks; pids are numbers of runs.

**CommandExecutor** – `applib/command_executor.cpp` and the subclasses. `pc` is the
control point of `execute()`; the asynchronous executor's callbacks are dispatched only
where the code iterates the main context. `Flavor` selects the class. *SyncCommand* is
what the header promises the caller, and `KeepsPromise` is the refinement.

**CommandExecutorGui** – `applib/command_executor_gui.cpp`, the executor all windows use:
every step is one of CommandExecutor, together with what the tick handler does to the
dialog (`shown`, `cancelOn`, `abortMode`) and to `shouldAbort`. Its handler asks
`Gtk::Main::iteration()` whether to go on, which is true of a quit and also where there
is no main loop, as in the scan at the program's start (`inLoop`). `asked` is history:
whether the user cancelled or quit since `execute()` was called.

**SelfTest** – `applib/selftest.cpp`, the lock in `StorageDevice`, and the drive as
smartctl sees it. It has no actions of its own: each method is cut at its command into
operators (`StartAllowed`/`Started`, `Updated`, `StopAllowed`/`Stopped`) that the
window composes. The replies are those the code tells apart; a command that fails may
or may not have reached the drive.

**SelfTestTimes** – the arithmetic that SelfTest leaves out: `update()` and
`get_remaining_seconds()` of `applib/selftest.cpp` with the timers of
`test_idle_callback()`, in seconds, against a drive that tests (`tested`), may be busy
otherwise (`paused`) and says how many of nine pieces are left, or, if it announces no
duration as NVMe drives do, how many percent. It may end its test at any moment
(`DriveEnds`: done, failed, aborted, interrupted) and may go on at 0%. smartctl has read
that when it began or when it ended.

**InfoWindow** – `gui/gsc_info_window.cpp`, several windows of one drive, on top of
SelfTest. A command on the stack may end at any time (`CommandRuns`), while only the
topmost handler can use its reply. `timers` counts the installed 300 ms callbacks that
are not being dispatched. `Pace` says how the user acts: "patient" waits until the
program is idle and no window has still to see the end of its test (the 300 ms of its
callback), "quick" until it is idle, "hasty" clicks also into running commands, which the
delayed dialog permits. `Closed` are the windows the user may close. Once code of a
destroyed window was run (`crashed`) nothing more is modelled. *TestRun* is what the class
promises (one test at a time, never reused), `RunsTestsInTurn` the refinement.

**MainWindow** – `gui/gsc_main_window.cpp` with the icon view, the Add Device window
and the control of a scan. Objects of `StorageDevice` are numbered and stay while a
list, an icon, a window or a handler holds them, as their shared pointers do. A scan is
`check` (smartctl -V), `askRescan` (a test is running), `pump` (let the icons redraw),
`detect`, `fetch` of one drive after another, and an error dialog. `detect` is what
DriveScan promises: the list comes back with drives or with an error; some of them may be
left without an icon ("gui/show_smart_capable_only"). Opening an information window may
ask first whether to enable SMART (`askEnable`, `enable`), with a command of its own. What
a command prints is left open: any fetch may succeed or fail, give an untyped device the
type "scsi", and leave a drive with anything or nothing to show. Information windows
are reduced to `windows` and `testing`.

**DriveScan** – what `storage_detector.h` promises the main window: an empty list while
the scan runs, but for what others add; then drives, or an error.
**LinuxDevices** – which devices the Linux methods ask with which type arguments, as pure
operators on the contents of `/proc/partitions`, `/proc/devices`, `/proc/scsi/*` and
the Areca channel files. A method is a list of scans of ports. **StorageDetector** – the
scan itself: one action per command, since events are dispatched at each: methods and
their files (cached for one scan), the loops over ports with what ends them, tw_cli in
place of a brute-force scan, the second try of Adaptec ports and of "-d scsi", the drives
that are found, then the reading of the drives of the list. Drives are added and hardware
is replugged meanwhile. `list` is a bag, since a drive can be listed twice. Growing the
vector under its own loop is undefined, and ends the program (`pc = "dead"`), as does an
exception nobody catches. **WindowsDetector** – the methods of the other systems on the
same state: `smartctl --scan-open`, `\\.\PhysicalDriveN`, tw_cli, CLI or a port scan of
Areca controllers, and the device nodes of BSD. Names of drives and the expressions that
read tools are data. The Areca channel files are read at the start of their method. Its
`Plan` says without steps what a scan lists if nothing goes wrong, on any system.

**PreferencesWindow** – `gui/gsc_preferences_window.cpp` with the option map of
`applib/storage_settings.h`. Each of the three entries writes to the selected row whatever
changes it, be it the user or the program that shows another row; `Select` and the
buttons make all of these writes. `Listed` are the lists users may have written into the
file, elements that are no options among them.

**SmartctlReport** – what smartctl prints of a drive, as a record of what matters to the
program (kind of drive, SMART available and enabled, health, serial number, is there a
self-test log), and what each of the five parsers makes of it. Pure operators.
**StorageDevice** – `applib/storage_device.cpp` on top of it: one object and the drive
behind its device name, which may be replaced by another. `dev` holds the members the
calls change; `calls` the fetches and SMART commands in progress, nested into each
other, each cut at its command as above. The handlers that make the calls
(`on_action_reread_device_data()`, `on_action_enable_smart_toggled()`,
`show_device_info_window()`, `refresh_info()`) are part of the actions. `view` is what
the icon of the drive shows, which is read anew whenever the object signals a change.
`disturbed` and `lastOk` are history: whether anything came between a fetch and its
result, and whether the last fetch succeeded.

**ConfigTree** – `rconfig/rconfig.h`: pure operators on a tree whose nodes may be of any
kind. **ConfigStore** – the life of the configuration: a save is check, open (which
truncates) and write; it may fail or be interrupted at each.

Modules `MC*` give constants their values. Modules `*Proofs` hold theorems.

## What the runs check

| Run | Question | Bounds and why they are enough |
|---|---|---|
| `running_dialog` | Does the executor the windows use keep the promise of `execute()`, lose no more output than it must, report the end the child had, stop commands only if asked to, and return then; is nothing started after the program has quit? However child, kernel and GLib interleave. | Two runs (a stale timer of the first can hit the second), a pipe of 2 blocks with buffers of 3 and 1 (larger and smaller than the pipe, as 100K and 10K are against 64K), 1 block of stdout and 2 of stderr (more than its buffer), one failed call per run; exit codes 0, 1 (cannot parse), 4 (a result); the user cancels and quits anywhere, before the main loop too. |
| `window_patient` | With a user who waits until no command runs and the windows have caught up with their tests: it implements TestRun, so that one test runs at a time and holds the lock exactly while it runs; no fetch beside it; no window closes while its test is in progress. Commands may fail. | Two windows of a drive (each other's effects), both may be closed, two tests (one after another), three handlers deep. |
| `window_hasty` | With clicks and callbacks nested into commands, which may fail: whoever shows a Stop button has a callback, and the end of a test is noticed, unless its callback has given it up after a poll and a stop that both failed. | As above with one test, since with two begun inside one command the lock has no holder (see below), and one window that may be closed, beside one that stays and polls. |
| `main_patient` | With a user who waits for commands: icons show listed drives once, and a device entered with a type stays removed. Commands may fail. | One disk, one manual device, entered with a type or without (whose type a fetch may change) or both, a file; three objects: what is listed, its successor in a scan, and one held by a window only. A click is left out if the objects might not suffice for what it adds (`Room`). |
| `main_hasty` | However clicks nest: one scan at a time, which ends. | Three handlers deep: a scan in a re-read in a scan. |
| `detector` | Is every disk listed once and no ghost, if nothing failed or changed; is DriveScan kept and does the scan end, whatever fails and changes? | Fourteen machines: with each controller and method of the code, files that cannot be read, tools that are installed or not; two scans (the cache of the first), two failing commands (a command and its retry), one added device, one replugging; limits on ports of 2 to 4 instead of 24 to 128 (a full and an empty port, the limit). |
| `preferences` | Do rows change only by what is typed into them, does OK save what the list showed, and does looking change nothing? | One text per entry and the empty one, parameters the shell parser refuses, two rows (one selected, one not), lists with elements that are no options. |
| `config` | Settings are changed exactly, saved in the end, kept by complete saves and loaded again, from any two files, saves failing and the program killed anywhere. | Two settings in one section (siblings), two values, every tree of unexpected nodes over them. |
| `drive` | Does what an object caches, shows and offers fit what it has read, whatever fails, nests, or is plugged in instead, and does it ask smartctl a second time at most? | A hard disk that fails and a stick that wants "-d scsi", a type given by the user or not, both formats, two calls deep, one replacement. |
| `test_times` | Is the end of a self-test, be it early, noticed within the interval the code intends, and is the remaining time shown never too short and not much too long, however polls fall into the drive's pieces of 10%? | Short and long tests of a drive that announces no duration (120 s of percents) and of a minute (pieces shorter than the shortest poll), a long one of 1329 s (whose usual poll, 63 s, is longer than its last one, and goes into it 21 times, so that polls fall everywhere in its pieces); the test ends at any second; smartctl takes up to 2 seconds and may have read at its begin or its end, callbacks come up to a second late (`MaxLate = 0` is in whole seconds beyond that), the drive pauses once, or is at 0% for as long. |
| `text_health`, `scan_aborts` | Disagreements, see below. | The smallest that show it. |

Deadlock is not checked where the program may stop: when bounds on runs, tests, windows
or depth are used up, or the user has quit. `ConfigStore` and `PreferencesWindow` are
checked for it.

Every property of a passing run is broken by a mutation of the code's model that
`PROJECT.json` lists; the mutated operators stand before the originals, commented
"Mutation".

### Fairness

- `running_dialog`: the thread goes on; GLib dispatches a ready channel or child watch
  and, at one of the pumps of the loop, a due timeout (strong fairness: the pumps are
  short but come again and again); the kernel delivers SIGKILL; GLib waits for a zombie.
  Nothing is assumed of the child, so that a child ignoring SIGTERM is covered, nor of
  the user: `CancelReturns` is about one who has cancelled or quit.
- `detector`: a command ends and the program goes on. Nothing is assumed of the user, nor
  of hardware, which may go before its port is asked.
- `window_hasty`: a command ends; a handler whose command is over goes on once those
  nested into it have returned, the user answers dialogs, and due callbacks are
  dispatched (strong fairness, since handlers and callbacks above them come and go).
  Of the commands on the stack it is the oldest of which that is assumed
  (`OldestCommandRuns`). Nothing is assumed of the drive and of clicks. That a command ends
  is not the code's doing: smartctl is another program, and the Abort button of the dialog kills it.
- `main_hasty`: likewise for the handlers of the stack.
- `config`: the timer is dispatched, a save comes back, and saves do not fail for ever.

## What is proved

The theorems hold for every value of the constants that satisfies the named
assumptions of the modules: any buffer and pipe sizes, any number of runs, any
machines, any texts and lists of options, any paths that do not lie within each other.

- **CommandExecutorProofs**, of the asynchronous executor: `TypeCorrect`, `ChildAlwaysTracked`,
  `TimersNeverStale`, `LossAlwaysBounded`, `EndAlwaysReported`. None of the properties
  but the first is inductive. `IndInv` adds: an idle executor has no pid and no open
  channels (`IdleInv`, or a cleanup could find another run's state); while the command
  runs, what the child wrote is in the string or in the pipe (`AccountInv`, from which
  the loss at the final read is bounded); the recorded wait status is the child's, and
  the recorded signal one that was sent (`FateInv`, from which the report is right).
  Of the synchronous one, `AsyncExecutorUsed`: every step of `execute()` is a call
  that AsyncCommandExecutor allows, so all of its invariants hold inside the loop.
  `SignalAlwaysReported`, `MessageAlwaysFits`, `AlwaysReturnsClean`, and `PromiseKept`, the
  refinement of SyncCommand. `SyncInv` adds what each control point says of the
  asynchronous executor (`ControlInv`) and that a failing end is the last error when it is imported
  (`LastErrorInv`).
  Of the dialog on top of it, `GuiIsExecutor`: with its dialog the executor is still a
  CommandExecutor, so that all of the above holds of it (`GuiKeepsPromise`,
  `GuiReturnsClean`, `GuiMessageFits`). `AbortsAreOwn`: no command is stopped unless the
  user asked since it was called. That is not inductive: what is left of an earlier
  abort, in the dialog or in `shouldAbort`, must be gone before the next command runs
  (`AskedInv`). `DialogFits` and `QuitIsFinal`.
- **SelfTestTimesProofs.** `EndAlwaysNoticed` and `EtaAlwaysCovers`, for any announced
  durations, any delays of main loop and smartctl, and a drive that may end the test at any
  moment; and `TimesTypeOK`. A poll that did not see the end was begun before it (`EndInv`),
  and polls are late by no more than main loop and smartctl (`PollInv`), which leaves one
  interval. That of a long test the drive has run to its end is the last one, which is
  `max(60 s, total / 90)`: a poll that did not see the last piece was begun before that
  piece (`PieceInv`), and a long test that is not yet in it has a ninth of its duration
  left, which is more than the usual interval exceeds the last one by. A long test that
  fails or is aborted before its last piece has only the usual interval (three hours: 520
  s), and so has one that was seen at 0%, since `update()` asks for 10% exactly
  (`selftest.cpp:513`). The pieces left at the last change, less the time since, are what
  the drive still needs (`EtaInv`).
  `EtaAlwaysClose` is the other side: what is shown exceeds what the drive needs by no more
  than one usual interval, the delays, and the age of the bar. How old the number in the
  bar may be is not the 5 seconds of its timer but `BarDelay`, in which the timer is late
  and a poll comes between (`BarInv`); `CloseInv` says what the shown number was computed
  from. The theorem asks that the main loop is late by less than 14 seconds
  (`MaxLate + 1 < 15`): a callback that polls leaves the bar to the next one, and if that is
  as late as the shortest interval, 15 seconds, it polls again. TLC finds the violation
  with `MaxLate = 14` and a test of 300 seconds.
- **StorageDetectorProofs.** `DetectionKeepsPromise`: the detection implements DriveScan
  on every machine, whatever smartctl answers. The list and the drives found are bags
  throughout (`BagsAlways`), which the steps that add and read a drive need.
  `NoGhostsListed`: nothing is listed that is not there, with any system. `GhostInv` says
  what this hangs on: while no command failed and no hardware changed, the file cache and
  the scans to come are those of this machine (`SeesMachine`), whatever a former scan
  left. What the tools keep without asking is taken as true (`HardwareAssumption`, which TLC
  evaluates for the machines of `detector`): the nodes a BSD keeps unfiltered, the ports
  that cciss says nothing of, the number a 3ware controller is guessed to have when tw_cli
  lists its host, must be devices of the machine and no volumes.
  `NoAddressListedTwice`, with Linux and the BSDs, for any contents of the files: each scan of
  a method is of another place (`MethodScans`), and the methods ask for addresses of their
  own (`MethodFinds`), so that what is to come never repeats what was found (`Turns`). On
  Windows it does not hold for any contents: nothing keeps `--scan-open` from naming a device twice.
  `EveryAskedDiskOnce`, with every system: `Plan` is the set of addresses that the files and
  tools promise, by themselves; what has been found and what is to come make it up at every step of an
  undisturbed scan (`OnPlan`), and a complete list is the plan and what the user added
  (`ListsPlan`). So each disk is listed once if the plan has it under one address
  (`AsksForEach`) and the user adds none of them. Whether the plan does is a matter of the
  machine, which TLC evaluates: it does for those of `detector`, and does not for the
  machines of the table below, where the methods miss a disk or ask for it twice.
  On Windows what a method asks depends on what was found before, so the invariant adds
  what the program remembers (`Remembers`): the serial numbers of the drives with a port are
  those of the ports asked so far, the misses those of the PhysicalDrives tried so far, and
  each method leaves a shape of scans of its own (`Starts`, `OpensLeft`, `PdsLeft`,
  `ToolsLeft`, `ArecasLeft`). What is still to come names nothing found already (`Fresh`), since the
  methods ask for devices of their own and the numbers of a loop differ; only of the devices
  with a port, whose names smartctl chooses, is that an assumption (`OpensApart` in
  `AsksForEach`). The enclosures of an Areca controller are the one place where the program
  looks at the drives found: a port of that controller is among them just if the plan has
  one (`Boxed`). What
  `FlattenSeq` and `SetToBag` compute for any sequence or set is proved by induction over
  sets of numbers (`SetInduction`), without a predicate.
- **PreferencesWindowProofs.** `EntriesShowSelected`: between two handlers the entries show
  the selected row. It is the invariant behind `TypingChangesOwnRow`: the writes that
  showing a row makes put back what is there. `OkSavesWhatIsShown` and
  `LookingIsHarmless`, both from `RoundTrip`: a list that was written from rows gives
  those rows again. `PreferencesTypeOK`.
- **ConfigStoreProofs.** `SetNodeReads` says what setting a node does to all readings,
  whatever the tree holds. `TypeCorrect`, `ChangesAreExact`, and, for a build whose check
  of a file leaves it alone (`~Windows`), `CompleteSavesAreKept` and
  `SavedSettingsComeBack`.
- **StorageDeviceProofs.** `TypeCorrect`, `HealthNeverStale`, `NoDataMeansNoSmart`,
  `TypeKnownBeforeFullFetch` and `RetriesAtMostOnce`, for any drives,
  any nesting and any replacements. Every step lets the object evolve (`Evolves`: the
  cached health fits, an argument stays, a type that is known stays known). `IInv` adds
  what the object and the calls have to do with each other: without data there is no
  word about SMART, and with data, after a window or below a full fetch the type is
  known (`Fits`); a call that is a retry has set a type, and what a command prints in
  JSON tells of a kind if it tells of a model (`CallFits`). Only then does a status other
  than "unsupported" imply a known type, which the full fetch needs.
  `ShownSmartAlwaysTrue` and `SavedAlwaysShown` hold as long as no call is made inside
  another (`~disturbed`). Their `DataInv` follows the data through a fetch: there is at
  most one call; the fetch has emptied the object and fills it with what the drive prints
  then; a call that switches SMART leaves old data, which its caller reads again; and
  between calls what is shown is backed by what is saved (`Backed`) and was so of the drive
  (`Truthful`).
- **MainWindowProofs.** `ScansNeverOverlap`, for any devices and any depth of nesting.
  `OneScanAtATime` is not inductive: two handlers may both be past the look at `scanning_`
  and wait. `ScanInv` adds that nothing above a handler that scans is about to begin a
  scan (`BeginOp`): a click looks at `scanning_` before it pushes one, and those below
  are reached only when the scan above them is over.
  `TypesHold`: a handler that adds or opens has a device or a drive, and a new object is
  none that the list or a window holds (`TypeInv`).
  `IconsStayListed` and `DrivesAreShownOnce`, for a user who waits for commands (`~Hasty`),
  any devices and any number of scans. `PatientInv`: there is at most one handler, the view
  is empty while it scans and the list is empty once it was cleared, and a handler that
  works on a drive works on the selected one.
  `RemovedStaysForgotten`, for any user, any nesting, and devices entered with and without
  types: a device that was entered with a type keeps it (`RemovalInv`), so that removing it
  finds the entry it was saved with. One without a type need not keep that, since reading
  the device may set one (see the disagreements below).
- **InfoWindowProofs.** For any user: `TypeCorrect` and `StopButtonAlwaysHasCallback`
  (inductive once the types are known). For a patient one, any number of windows and tests,
  any depth and failing commands: `FetchesWait`, `TestsKeepTheirWindows`, and
  `TestsRunInTurn`, the refinement of TestRun. `PatientInv` tells who may be on the stack:
  only a dialog or a `force_stop()` has a handler above it, and that one is a poll or the
  clean-up after one (`OrderInv`). There is at most one timeout callback in all windows
  (`TimerInv`), none while a handler that starts a test or fetches is on the stack, and
  meanwhile the lock is free (`FrameInv`): who saw it free before a command may still rely
  on it after. `KeepInv` adds that the test of a window has been started, so that one that begins belongs
  to no other window.

The asynchronous executor is proved for any order of calls by its owner; no run checks it
alone, since `running_dialog` uses it as the program does.

Only model-checked: liveness (`CancelReturns`, `EndIsNoticed`, both `ScanEnds`,
`ChangesAreSaved`), which TLAPS does not do.

## Disagreements

Found while modelling, where code and its own words differ. Two have a run that shows
the counterexample; `PROJECT.json` quotes the lines.

| Where | What | Property |
|---|---|---|
| `applib/smartctl_text_ata_parser.cpp:802` | The text parser files the health under smartctl's words for it, since it passes the names to `set_name()` in the wrong order. With the text format (smartctl before 7.3, or a saved text file) a drive that reports that it fails looks healthy. | `FailingDriveIsFlagged`, run `text_health` |
| `applib/storage_detector_linux.cpp:879` | Without its channel file the ports of an Areca controller are read from a setting "…noenc…" that no default has (`gsc_settings.h:61` spells it "…neonc…"), and `rconfig::get_data()` throws: the scan ends the program. | `ScanSurvives`, run `scan_aborts` |

The modules state further properties that the code does not have. Each fails under TLC
within seconds (with the machines of `detector`: a minute) when named in a
configuration, the way the last column says.

| Where | What | Property and configuration |
|---|---|---|
| `rconfig/autosave.h:72` | "don't stop the timeout": the value returned stops it, so that one failure ends all autosaves. | `AutosaveGoesOn`, `ConfigStore.cfg` |
| `hz/fs.h:543` | On Windows the check of a file ("Check if the existing or soon to be created file is writable") deletes one that was there and leaves one that was not. | `CheckKeepsFile`, `ConfigStore.cfg` with `Windows = TRUE` |
| `applib/storage_device.cpp:226` | With the text format and a type "auto" given by the user, the full data are fetched of a drive whose type is not known: the basic text parser takes SMART as enabled unless it reads otherwise. | `FullFetchKnowsType` and `NoDataNoSmart` without their condition `defaultFormat = "json"`, `StorageDevice.cfg` |
| `applib/storage_device.cpp:85` | "this will clear all previous properties!" (`storage_device.h:98`), but the serial number stays, and is then shown for another drive that has none. | `SerialIsCurrent`, `StorageDevice.cfg` |
| `gui/gsc_info_window.cpp:931` | A refresh nested into a re-read leaves the full output of the one beside the basic data of the other: what is saved is not what is shown. | `SavedIsShown` without `~disturbed`, `StorageDevice.cfg` |
| `applib/async_command_executor.cpp:359` | Only the last signal sent counts as "our signal": a child that dies of SIGTERM after SIGKILL was sent is an error. | `OurSignalIsWarning`, `CommandExecutorGui.cfg` |
| `applib/selftest.cpp:508` | "we need to poll more frequently by the end", but never more often than once a minute: a long test that is announced to take less than 21 minutes is polled less often by the end than before. And it is 10% exactly that asks for it: a longer test that is seen at 0% is polled like before the end again. | `PollsMoreOftenByTheEnd`, `SelfTestTimes.cfg` |
| `applib/command_executor_3ware.h:79` | The translator of the RAID tools has no text for any exit status, so that a failure leaves no message. | `FailingExitLeavesMessage`, `CommandExecutorGui.cfg` with `Flavor = "cli"` |
| `applib/selftest.cpp:214` | The lock is looked at before smartctl runs and taken after it: a second click on Execute starts a second test. | `RunsTestsInTurn`, `InfoWindowPatient.cfg` with `Pace = "hasty"` |
| `gui/gsc_info_window.cpp:2590` | A Stop button works until the 300 ms callback has seen the end of its test. In between another window may start a test: Stop then aborts that one and frees its lock, and its window may be closed with its test in progress. | `RunsTestsInTurn` and `TestKeepsItsWindow`, `InfoWindowPatient.cfg` with `Pace = "quick"` |
| `gui/gsc_info_window.cpp:2576` | "nothing else to do - the cleanup is performed by the idle callback": after the end of a test the window may be closed before its 300 ms callback, which then runs with a deleted window. | `NothingOutlivesItsWindow`, `InfoWindowPatient.cfg` with `Pace = "quick"` |
| `gui/gsc_main_window.cpp:526` | "ignore double-scan": the scan is ignored, but the startup devices are added again. | `DoubleScanIsIgnored`, `MainWindowPatient.cfg` with `Hasty = TRUE` and `MaxDrives = 5` |
| `gui/gsc_main_window.cpp:630` | The re-read after a SMART toggle takes the drive that is selected then, and does not look whether there is one: a re-scan or a removal that was clicked during the command leaves a null pointer. | `SelectionIsKept`, `MainWindowPatient.cfg` with `Hasty = TRUE` |
| `gui/gsc_info_window.cpp:2360` | When update() and then force_stop() fail, the Stop button is switched off and nobody polls, though the lock stays: the window can neither test nor refresh nor be closed any more. | `StopButtonWhileActive`, `InfoWindowPatient.cfg`; `EndIsNoticed` without `GivenUp`, `InfoWindowHasty.cfg` |
| `gui/gsc_main_window.cpp:1347` | Quitting and rescanning ask only about tests of listed drives, not of windows opened before the last scan. | `QuitAsksFirst`, `MainWindowPatient.cfg` |
| `applib/selftest.cpp:214` | Two objects of one device have a lock each. | `OneTestPerDevice`, `MainWindowPatient.cfg` with two windows |
| `gui/gsc_init.cpp:638` | Quitting during the scan at start quits no main loop. | `QuitEndsProgram`, `MainWindowHasty.cfg` |
| `gui/gsc_main_window_iconview.cpp:345` | The count of icons is not decremented. | `IconsAreCounted`, `MainWindowPatient.cfg` |
| `gui/gsc_main_window.cpp:500` | "so that it can be removed as well" (`gui/gsc_main_window.cpp:993`): a startup device entered without a type whose object has got type scsi cannot be forgotten. | `RemovedIsForgotten`, `MainWindowPatient.cfg` |
| `gui/gsc_preferences_window.glade:598` | "Leave empty for all types.", but the options are looked up by the exact device and type (`applib/storage_settings.h:94`): an option without a type is used for drives without one only. | `EmptyTypeMatchesAll`, `PreferencesWindow.cfg` |
| `gui/gsc_preferences_window.cpp:468` | OK asks before it discards rows "with empty device names or parameters", but looks for them in a map that rows without a device name never get into (line 171): those are discarded unasked. | `DiscardsAfterAsking`, `PreferencesWindow.cfg` |
| `applib/storage_detector.cpp:149` | The condition is inverted ("fetch_basic_data() … for all drives", `storage_detector.h:56`): when drives were found they are not read again, so that those of tw_cli, of the Areca CLI and of BSD are listed without having been read, and the permission errors of reading (`gui/gsc_main_window.cpp:871`) never come up. | `ListedAreRead`, `StorageDetector.cfg` |
| `applib/storage_device.cpp:141` | A fetch succeeds if smartctl's banner parses, whatever its exit status: a port scan keeps ports that failed to identify. | `OnlyDrivesAreListed`, `StorageDetector.cfg` |
| `applib/storage_detector.h:44` | An error comes back only from a scan that found no drive; what went wrong beside drives is lost. | `ErrorsAreReturned`, `StorageDetector.cfg` |
| `applib/storage_detector.cpp:103` | A device added while the loop over `drives_` waits for smartctl grows the vector under its iterators. | `ListIsStillInLoop`, `StorageDetector.cfg` |
| `applib/storage_detector_linux.cpp:564` | The pattern of 3ware vendors sets its group for "AMCC" only, so that with two kinds of controllers both are taken for "twa" ("we use the vendor name to differentiate them", line 588). | `EveryDiskOnce`, `StorageDetector.cfg` with `Hardware <- MCTroubled` (`mixed`) |
| `applib/storage_detector_linux.cpp:859` | The loop stops before the last enclosure (`<`) that the setting is to name. | `EveryDiskOnce`, `StorageDetector.cfg` with `Hardware <- MCTroubled` (`lastEnclosure`) |
| `applib/storage_detector_linux.cpp:1010` | Every node of an HP host is asked for its disks, those of its volumes too. | `EveryDiskOnce`, `StorageDetector.cfg` with `Hardware <- MCTroubled` (`hpVolume`) |
| `applib/storage_detector_linux.cpp:393` | The pattern against partitions knows one letter: `/dev/sdaa1` is listed. | `EveryDiskOnce`, `StorageDetector.cfg` with `Hardware <- MCTroubled` (`manyDisks`) |
| `applib/storage_detector_win32.cpp:755` | "Try 3 extra drives": the misses are counted over the whole scan, so that three gaps anywhere hide what follows. | `EveryDiskOnce`, `StorageDetector.cfg` with `Hardware <- MCTroubled` (`holes`) |
| `applib/storage_detector_win32.cpp:794` | Disks with a port are told from their PhysicalDrives by serial numbers, which "-q noserial" takes away. | `EveryDiskOnce`, `StorageDetector.cfg` with `Hardware <- MCTroubled` (`noSerials`) |
| `applib/storage_detector_win32.cpp:653` | Ports that fail to identify count as drives found, and enclosures are then not looked at. | `EveryDiskOnce`, `StorageDetector.cfg` with `Hardware <- MCTroubled` (`enclosures`) |
| `applib/storage_detector_win32.cpp:809` | A controller with a "csmi" port makes the scan skip tw_cli, where the comment speaks of "sd*,port". | `EveryDiskOnce`, `StorageDetector.cfg` with `Hardware <- MCTroubled` (`csmiAndTwCli`) |
| `rconfig/loadsave.h:40` | The user's file replaces the system-wide settings as a whole. | `SystemWideDefaults`, `ConfigStore.cfg` |

Of the properties that runs check, some hold for a user who waits only.
`NoFetchWhileTesting`, `IconsAreListed` and `ShownOnce` fail for one who clicks into
running commands ("hasty"), and so do `ShownSmartIsTrue` and `SavedIsShown` of the `drive`
run without their `~disturbed`: the guards of the code are looked at before a command and
not again after it. `RunsTestsInTurn` and `TestKeepsItsWindow` fail already for one who
waits for commands and not for the windows to catch up ("quick").

Beside these, without a property: an Areca controller that is not there does not end the
search for more of them, since `smartctl_scan_drives_sequentially()` never returns the
error that `storage_detector_win32.cpp:512` waits for; the namespaces of an NVMe drive
are counted by the prefix of their names (`storage_detector_linux.cpp:434`), so that
`nvme1` counts those of `nvme10`; "No such device" also matches "No such device or
address" (`storage_detector_helpers.h:187`); an `execute()` that is declined leaves the
output of the last command (`smartctl_executor.cpp:125`), which happens only while the
program quits; and a quit during the scan at the start is not seen by the executor
(`command_executor_gui.cpp:154`).

## Not modelled

- The matching of smartctl's text and JSON, tables of descriptions, formatting, layout,
  icons, logging: data without control, or presentation. Of the program's own code they
  are the larger part (the parsers and tables of properties alone have 7500 lines), and
  two thirds of all lines of the repository are the libraries under `dependencies/`.
- The times of a self-test whose commands fail or nest: SelfTestTimes has one test whose
  polls succeed, InfoWindow all that may go wrong with them and no times.
- The vector of drives once it grew under a loop: undefined, so that nothing is said of it
  but that it can happen (`pc = "dead"`).
- A configuration file that is there and cannot be read is not told from one that is
  missing; a file that was not written completely does not parse; one instance of the
  program runs.
- `autosave_stop()` and the closing paths that the program never calls.
- What the components table of `PROJECT.json` calls "not_modelled" or "partly".

## Plan

What is left, in the order of what matters most to a user:

1. *Pure parts.* The warning levels of `storage_property_descr*.cpp`, the order of drives
   and natural comparison (a strict weak order?), sizes and their units.
2. *Windows.* The instances of `window_instance_manager.h`; the drive database update; the
   information window's own data beside StorageDevice's (one object in two windows).
3. *Proofs.* Those of the parts above; every safety property of the passing runs has a theorem.

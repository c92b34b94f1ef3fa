# TLA+ models of ovm-win

`ovm` is a Windows program that prepares a machine for WSL2 (`ovm init`), runs a
virtual machine as a WSL distro (`ovm run`) and moves an installation
(`ovm migrate`). A client (a desktop application) starts it, listens to its events
on one named pipe and calls its HTTP API on another. This directory models the parts of
the program in which order, concurrency and interruption matter, checks the models with TLC,
and proves some of the results with TLAPS.

The repository has no tests; its documentation is the README's TODO list, the comments and the
usage texts of the command line. Sources are named below by their path in the repository.

## Inventory

| part | code | state | what happens | what is hard |
|---|---|---|---|---|
| event sender | `pkg/ipc/event/event.go` | unbounded channel, global `waitDone`, sender goroutine | `Setup`, `notify` from any goroutine; each event is one HTTP attempt; `Exit` and `NeedReboot` are terminal | several goroutines notify; waiters, a hand-off and two closes race |
| init flow | `cmd/ovm/main.go`, `pkg/cli/init.go`, `pkg/wsl/check.go` | place of main, permissions in `InitOpt`, errgroup context | a chain of checks; at one that fails: event, permission, wait | client, bound process and server can act at any moment of a wait |
| init HTTP server | `pkg/ipc/restful/init.go`, `restful.go` | `canShutdownWSL`, permissions | `/update-wsl`, `/enable-feature`, `/fix-wsl-config`, `/shutdown-wsl`, `/reboot`, each in its own goroutine | unsynchronised flags, capacity-1 channels |
| installer | `pkg/wsl/install.go` | machine state, permissions | `Install` (two dism commands, maybe in an elevated child), `Update` (download, msiexec) | partial failure, order of permission and event |
| wake-up channels | `pkg/channel/channel.go` | three channels of capacity 1 | handlers notify, main receives | a full channel blocks the handler |
| run flow | `cmd/ovm/main.go`, `pkg/cli/run.go`, `pkg/util/exit.go`, `pkg/util/process.go` | errgroup of three, exit functions | update, port, disk, then server, bind watcher and distro; `g.Wait`; last events; exit functions | everything ends through one context |
| run HTTP server | `pkg/ipc/restful/run.go` | `needWaitClose`, `waitClose`, `StoppedWithAPI` | `/stop`, `/request-stop`, `/exec`, `/info`, `Close` | the stop handler kills what keeps its own server alive |
| distro control | `pkg/wsl/distro.go`, `pkg/podman/ready.go` | the WSL distro | `Launch`, `launchOVMD`, `RequestStop`, `Stop`, `SafeSyncDisk`, import, unregister, mount | wsl.exe boots a distro it is asked to talk to |
| update | `pkg/update/` | `versions.json`, `ext4.vhdx`, `data.vhdx`, registration | `needUpdate`, `updateData`, `updateRootfs`, `save` | death between and inside steps; user data on one of the files |
| migrate | `pkg/cli/migrate.go` | the same files in two directories | copy, copy, copy, move the distro, remove | interruption, retry |
| exec stream | `run.go` exec, `chWriter`, `writer` | three channels per request | a command's output as server-sent events | select between output, error, end and a client that goes |
| logger | `pkg/logger/logger.go` | files, global list `cs` | rotation, close | partial and overlapping rotations, unsynchronised list |
| .wslconfig | `pkg/wsl/config.go` | a text file | find incompatible keys, comment them out | reader and writer disagree on lines; fixes overlap or break off |
| download | `pkg/util/request/`, `pkg/util/hash.go` | `.tmp` file | download once, rename | concurrent downloads, left-overs, no check of the result |
| small parts | port finder, host endpoint, WSL and Windows wrappers, path and option helpers | none or a cache | | outside races only |

They interact through events (every part calls `notify`), the permissions in `InitOpt` (set by
checks, read by handlers), the three wake-up channels (handlers to main), the errgroup contexts
(any failure to everybody) and the files on the disk (one process to the next).

What makes each part correct is stated in its module's last section; the places
where it could go wrong are listed in `PROJECT.json` under `hazards`, with the property that watches
each, or the reason why none does.

## Modules

| module | what it is |
|---|---|
| `EventStream` | what the event channel promises: events attempted once, in order, until a terminal one |
| `Event` | the event sender goroutine by goroutine; implements `EventStream` |
| `MCEvent` | `Event` with a bound on the number of events |
| `EventProofs` | theorems about `Event` |
| `InitFlow` | `ovm init`: main, errgroup, HTTP handlers, channels, installer; uses `Event` through `INSTANCE` |
| `MCInitFlow` | the machines init may find |
| `InitFlowProofs` | theorems about `InitFlow` |
| `RunFlow` | `ovm run` after the update: main, errgroup, distro, stop handlers against `Close`; uses `Event` |
| `RunFlowProofs` | theorems about `RunFlow` |
| `Update` | the update of an installation across runs and deaths |
| `UpdateProofs` | theorems about `Update` |
| `Migrate` | the move of an installation, with deaths, retries and the runs in between |
| `MigrateProofs` | theorems about `Migrate` |
| `OutputStream` | what the events of one `/exec` request promise |
| `ExecStream` | `/exec` goroutine by goroutine and channel by channel; implements `OutputStream` |
| `ExecStreamProofs` | theorems about `ExecStream` |
| `WslConfig` | `.wslconfig`: what is found in it, what a fix does to it, and fixes that overlap, fail or die |
| `WslConfigProofs` | theorems about `WslConfig` |
| `MCWslConfig` | the files of up to three lines |
| `Download` | `request.Download` of several goroutines into one file |
| `LogRotate` | `createLog` of several goroutines over one set of files |
| `WSLUpdate` | `POST /update-wsl` in full: composes `Download` and `LogRotate` |
| `WSLUpdateProofs` | theorems about `WSLUpdate` and, through it, about `Download` and `LogRotate` |

A definition carries the name of the function it models where it can (`CheckVersion`,
`Install`, `needUpdate`, `PodmanReady`); `PROJECT.json` `map` gives the lines. In the modules of the
code, a definition commented "mutant of X" is X with a plausible mistake. No specification uses it:
it exists so that one can exchange the two and see the property fail that should.

**Event.** `notify` splits where another goroutine can see the difference: the send into the channel
(`Enqueue`), the receive from `waitDone` (`Handoff`, or `ReceiveClosed` once it is closed), `close(waitDone)`
(`CloseDone`), closing the event channel (`CloseQueue`). A send on a closed channel and a second close
panic, as in Go. `held` remembers the position of a goroutine's last terminal event, so that the
wait can be judged. `Setup`'s goroutine is `Deliver` and its half of `Handoff`.

**InitFlow.** `main` is the program counter of the main goroutine from `Setup` to `os.Exit`; a
check's wait is a value of it ("awaitUpdate", ...). Each handler has a counter `at[h]`; everything
between two effects that another goroutine or the client can observe is one step. The three
channels are `token`; the permissions are `can`; the machine is a record of what each probe finds. The
`select` of a wait is a choice between the token and `ctx # "live"` (`Abandon`); the receive in the branch
for "open" has no such alternative, as in the code. A request refused with 403 or 400 changes nothing
and needs no action. `served`, which only properties read, records the kinds of requests whose handlers have put a token into a channel: a request
that was refused or failed is not among them. The elevated child process appears as the exit codes of its dism commands: it
sends no events and its permissions die with it.

**RunFlow.** `group` is the set of goroutines `g.Wait` waits for, `ctxDone` its context. Stop handlers
run `needWait` at the grain of one statement, because `Close` races with every one of them: the send
`r.waitClose <- struct{}{}` first takes the channel the field holds (`PickChan`), then sends (`SendToken`). Channel 0
is the buffered one of `SetupRun`, later ones are unbuffered, so that a send on them meets the receive of `Close`
in one step (`ReceiveToken`). `distro` follows what the wsl commands do to the distro: any
`wsl -d` boots a stopped one.

**Update.** `json` is `versions.json`, with `NoJson` for one that is missing or torn; `installed` and `whole`
describe the two files; every action is one call of `updateData`, `updateRootfs` or `save`. `Stop` is an error return, an exit
or a death between steps; the `...Breaks` actions are a death or failure inside the creation of a file or the write of
`versions.json`. `Begin` is the next run. `Lose` is somebody else removing a file. Four history variables record
what the properties make exceptions for.

**Migrate.** `pc` is the place of `Start`; `files[d][f]` says of each file of the two directories whether it is the latest, an older copy, a
new empty disk, partial or missing. Each call of `Start` that touches a file or the distro is a step; `Die` is a death between two
of them or inside a copy. A run of the client (`Run`) makes what `needUpdate` and `updateData` would make of the directory it finds
and imports the distro there; the model takes a client that keeps to the old directory until a migration reports success and does not
run and migrate on purpose at the same time. But `migrate` may stop a run, whose exit function then boots the distro
again (`Boot`, `ExitEnds`) at any point of the migration. `cut` remembers a death after the removal of the old data.

**ExecStream.** `worker` is the goroutine that runs the command, `handler` the select loop. Each statement on a channel is a step;
each branch of the select an action that is enabled when its channel is ready, so that two ready branches are a choice. The unbounded
channel is its `buffer`, what is known of its `input`, and its own goroutine's `output`; a `Write` hands an element to that goroutine, which always
receives. `CtxDone` is the request's context: it ends when the client goes *or the handler returns*, and kills the command.
`OutputStream` says what a client may rely on: what is shown is a prefix of what was written, an error belongs to a command that failed, "done" is last
and reaches every client that stays. The handler does not look whether a receive found the output closed (`run.go:177-181`): once the channel's goroutine has closed it,
that branch of the select is always ready and sends an empty "out" event each time it is picked, until the end is picked. `TakeOut` is therefore `TakePiece` or `TakeBlank`, and
`OutputStream` says what a client may still conclude (`ShowBlank`): such an event comes only when the command has ended and all of its output has been shown. It does not promise that everything written, or the error, is shown before "done": the code's select may
take `doneCh` first.

**WslConfig.** A line is a record of what the code tells apart: section lines, settings with a key and a class of values, commented settings.
`GetValue` and `commentKey` are functions on sequences of lines: the one knows sections and takes the first value, the other is a regular
expression that knows neither. A fix is six steps: read, truncate and write, for each of two keys; `os.WriteFile` truncates first and writes at offset 0, so another
fix may read an empty file, and what a handler writes replaces only the beginning of what another one has written since (`Overwritten`): of nothing, the write keeps the other's
text whole; of a text of the same lines, it keeps what the other's marks ("# ") make longer, which may be a line without its mark (`Behind`). A write that fails breaks off between two
lines. Files end with a line break and have at most three settings of the two keys (`FewSettings`): two texts made from one file then differ by at most six bytes of marks, less than a line that
sets anything. History variables name the exceptions: `overlap`, `overlapped`, `spoilt` (one of the fixes that overlap has failed), `broken`.

**WSLUpdate, Download, LogRotate.** A handler's `at` is its place in `Update`; inside the two calls it moves through `place` and `stage`, the program counters
of `Download` and `LogRotate`, whose goroutines are the handlers. A file is what each of its pieces holds; `Wanted` is the comparison of
the hash. `Create` truncates a file that another goroutine may be writing, each goroutine writes at its own offset, and Windows does not rename a
file another goroutine has open (`Writing`). A log is its age, a number; `logs` is a function from the numbers in the file names.
`Die` ends all goroutines, the files stay for the next process. `InitFlow` has the same handler with the download and msiexec as one step: there the
events, permissions and channels matter, here the files.

## Runs

| run | checks | shows |
|---|---|---|
| `event` | `TypeOK`, `NothingAfterTerminal`, `AwaitEnds`, `ImplementsStream` | any of three goroutines may end the stream; nothing follows the end, nobody is left waiting, and the whole implements `EventStream` |
| `event_two` (violated) | `ReturnMeansProcessed` | with main and a handler as enders (`ovm init`), it does not |
| `init` | `TypeOK`, `UpdateWakeup`, `ShutdownObtainable`, `SuccessMeansReady`, `RebootGrantedWhenTold`, `RebootPrepared` | safety of init under two concurrent requests and every failure; a Success says that each check passed or was repaired (for `.wslconfig`: or that the client had the check skipped, or the file opened and WSL shut down, `ConfigSettled`), or that the context failed |
| `init_live` | `RepairWakes`, `BindExitEnds` | a repair wakes main; the bound process's exit ends init in all waits but one |
| `init_bind` (violated) | `BoundExit` | the one wait that ignores the bound process |
| `run` | `EndComesLast`, `ReturnMeansProcessed`, `NoSendOnClosed`, `ExitStopsDistro`, `BoundExit` | how a run ends, for every failure and one request of any kind; with main as the only ender the wait for `Exit` does what its comment says |
| `run_stop` | `TypeOK`, `StopIsReported`, `StopIsAnswered`, `CloseEnds` | two stops from two clients, in turn or at once, against `Close`, which ends in every case |
| `update` | `TypeOK`, `ReadyIsWanted`, `KeepUserData` | updates interrupted anywhere, over any number of runs |
| `migrate` | `TypeOK`, `DataSurvives`, `MovedIsComplete`, `ErrorKeepsOld` | migrations that fail, die and are repeated, with runs in between |
| `exec` | `TypeOK`, `ImplementsStream`, `RequestEnds`, `WorkerEnds` | the events of `/exec` keep the promise of `OutputStream`; neither request nor worker stays behind, also when the client goes or the command cannot be started |
| `wsl_config` | `TypeOK`, `FixedIsCompatible`, `KeepsLines`, `NeverWorse` | a fix repairs and loses nothing, for every short file, with fixes that overlap and write over each other, fail and are killed |
| `wsl_update` | `TypeOK`, `InstalledIsWanted`, `NewestFirst`, `LostIsOldest` | msiexec gets the installer asked for; the logs stay ordered and only the oldest goes |

Bounds. `MaxEvents` = 3 to 5 events: two terminal events and one around them are enough for every order of
wait, hand-off and close, and the theorems cover any number. `Handlers` = 2 and `MaxRequests` = 3: a race needs two
handlers, a stale flag or token one request before them. `MCMachines` has a machine for each check that can fail,
for each way a failing probe is taken for a pass, one that fails two checks in a row, and one whose only fault is `.wslconfig`, so that its check is reached with no request before it. In `run`, one
request keeps all the failures and operations together; `run_stop` has two stop requests (the second after a first that failed meets the unbuffered channel) and, of the failures, the one that
makes a stop handler leave early. `Versions` = {1, 2, 3}: a wanted version, an older and an unfinished newer one; the theorems
cover any set. `Migrate` needs no bound: it has one move between two directories, and files are told apart only by what they are
worth; `Failures` has all of them. `MaxWrites` = 3 in `exec`: one piece taken, one in the channel, one not yet written. `wsl_config` has all files of
up to three lines out of nine kinds (a section and two settings, or a setting under either of two sections or none) and `MaxFixes` = 3: two that overlap and one before or after them.
In `wsl_update` `Chunks` = 2 (a copy can break off after the first piece), `LogCount` = 3 instead of 5 (a lowest, an inner and a highest file) and `MaxRequests` = 4: two
that overlap after what two others left. Where the process ends and the model with it, `CHECK_DEADLOCK` is off.

Fairness. Weak fairness of a goroutine's own steps: Go schedules every goroutine that can run, and a channel
operation that stays possible happens. `InitFlow` gives it to main, the sender, `WaitBindPID` (it polls each second) and the
last statement of a handler, not to the external programs (notepad, msiexec, dism) that handlers
start before, nor to the client. `RunFlow` gives it to the handlers too, since all they wait for are wsl commands, assumed to
end; and to the 5 s timer. `ExecStream` gives it to each branch of the select (Go picks at random among the ready ones, so a branch that stays ready is taken),
to the worker's channel operations and to the kill of the command by its context; not to the command itself, which may run for ever. Failures, requests and the exit of the bound process are never fair.

## What was found

* `event_two`: two terminal events at once (main's `Exit`, a handler's `NeedReboot`). The token of the sender wakes either
  waiter, that one closes both channels, and the event of the other caller may never be attempted
  (`event.go:142`, against the comment at `event.go:138`).
* `init_bind`: after "open", main waits for the shutdown request without `ctx.Done()` (`check.go:160`), against "OVM will exit
  when the bound pid exited" (`main.go:179`). `BindExitEnds` shows that this wait is the only exception.

Two more disagreements need no model to be seen: `case 1641:` in `isMsiErr` has no `return false` (`install.go:188`), against its comment
(`install.go:178`), and the refusal of an old Windows asks for build 19043 (`cli/init.go:69`), the code for 19044 (`version.go:16`).
`InitFlow` has both as the code has them.

Other behaviours are modelled and only documented, because nothing in the repository says otherwise: a migration that dies after it removed the
old data leaves the client with an old directory in which the next run makes a new disk, and the next migration copies that over the
user's data (the reason for `cut`); overlapping stop requests (the first
to end resets `needWaitClose` for the other); a downgrade after an unfinished upgrade (the newer or partial file
is accepted); a shutdown token left over from an earlier edit of `.wslconfig`; output or an error that `/exec` drops
because its select took the end first, and the empty "out" events it sends before it takes it; two automatic fixes at once, one of which reads the file the other has just truncated and leaves `.wslconfig` empty, if it truncates it after the other one has written (the reason for `overlapped` in `KeepsLines`); an update
request that truncates the `.tmp` file another one has just filled and then breaks off, so that a torn installer is renamed and started unchecked, and a server whose file is
not the one `latest.json` names (`excused`); two update requests that both pass `CanUpdateWSL` and start msiexec at the same time; overlapping rotations
that overwrite a newer log (`crowded`); a failed log after which `Update` sends no event.

## Proofs

`EventProofs`, for any set of goroutines, names, terminal names and enders (assumptions: `TerminalAssumption`, `EndersAssumption`):

* `TypeCorrect`: `TypeOK`.
* `EndsAtTerminal`: `NothingAfterTerminal`. Inductive with "the sender has left its loop exactly
  when the last attempted event is terminal" and "no other attempted event is".
* `SoleEnderWaits`, `SoleEnderClosesOnce`: `ReturnMeansProcessed` (checked by `run`) and `PanicOnlyAfterClose` under `OneEnder` (one goroutine sends all terminal events),
  which is what `ovm run` does and what the run `event_two` shows to be necessary. The invariant ties the ender's
  place in `notify` to the sender's place and to the closes: while it waits, its event is the only terminal one and still ahead
  of or at the sender; when it is past the wait, the event is among the attempted.
* `EventImplementsStream`: initial states map to initial states and every step of `Event` to a step of `EventStream` or a stutter.

`UpdateProofs`, for any set of versions that are positive numbers (`VersionsAssumption`: 0 stands for "none", and the order
is used only to say what a downgrade is):

* `UpdateTypes`, `ReadyIsWantedAlways`, `UserDataKept`, from the invariant `UpdateInv`. `ReadyIsWanted` alone is not inductive: a
  run may skip a part because `versions.json` names it. Needed are: `versions.json` is true about the files as long as
  clients only upgrade (`JsonIsTrue`, kept because a step spoils a part only if `versions.json` does not name the wanted version of it, and later
  runs want no older one: `JsonBehind`); `todo` is exactly what `versions.json` lacks (`TodoIsRight`); the parts already replaced are whole
  (`DoneIsWhole`); the version of the user's data is in `versions.json` unless a save was interrupted (`JsonKnowsData`).

`InitFlowProofs`, for any handlers, machines, exit codes, failures and number of requests (`HandlersAssumption`, `MachinesAssumption`,
`DismCodesAssumption`, `FailuresAssumption`, `MaxRequestsAssumption`). The argument throughout is that main passes its checks once and in order.

* `InitTypes`: `TypeOK`. A step of init is a step of the event sender or leaves it alone, so its part of the types comes from `EventProofs`, instantiated.
* `RebootsPrepared`, `NeedRebootGrants` (`RebootPrepared`, `RebootGrantedWhenTold`), from `RebootInv`: the permission to reboot implies the enabled features, is never
  withdrawn, and is there when a handler comes to the event, to the reboot or to `RunOnce`; what was accepted contains `NeedReboot` only after that.
* `UpdateAlwaysWakes` (`UpdateWakeup`) needs `EarlyInv`: until main has granted the features there is no enabling request, so before the end of the wait for the
  update nobody has sent a terminal event, and the handler that brings the wake-up cannot have panicked on a closed channel.
* `ShutdownAlwaysObtainable` (`ShutdownObtainable`), from `ShutInv`: once the flag "open" is in the channel or on its way, the permission can only be cleared by a request
  that has put its token into the channel, and only main takes the token.
* `SuccessAlwaysReady` (`SuccessMeansReady`), from `ServedInv`, `ReadyInv` and `SuccessInv`: where main is tells which checks have passed, unless it failed or the context did; what was
  found good or repaired stays so, because features change only for an enabling request, which main's later places exclude. For `.wslconfig`, `ServedInv` ties each token to the request that has
  sent it and to what its handler did before: "auto" to a file that passes, "skip" to a request to skip, "open" and the shutdown to one request each (`SettledStays`, `ServedStep`).

`RunFlowProofs`, for any handlers, number of requests and failures:

* `StopAlwaysReported`, `StopAlwaysAnswered` (`StopIsReported`, `StopIsAnswered`). While the one stop that `Close` has to wait for has not sent (`LoneStop`), `needWaitClose` stays set
  (no other handler waits that could reset it), and no token of an earlier stop is in the channel `Close` receives from (`TokenIsOld`): so only the timer lets `Close` go on.
* `NeverSendsOnClosed`, `ExitIsSent` (`NoSendOnClosed`, `ReturnMeansProcessed`): main is the only one to end the events, and after `g.Wait` the only one to send any; the rest is
  `SoleEnderWaits` and `SoleEnderClosesOnce` of `EventProofs` for this instance.
* `EndAlwaysLast` (`EndComesLast`): main's place tells which of Error and Exit were accepted, and nobody sends after them.
* `ExitAlwaysStopsDistro` (`ExitStopsDistro`): inductive as it stands: the process ends only in the exit function, whose commands stop the
  distro or record that one failed, and nothing runs after it.
* `RunTypes`: `TypeOK`, which numbers the channels `waitClose` by the requests. A stop renews the channel only when it ends, so the renewals and the requests under way are
  together at most the requests accepted (`Counted`). For the events the types come from `EventProofs`.

`MigrateProofs`, for any set of operations that may fail (`FailuresAssumption`):

* `MigrateTypes`, `DataAlwaysSurvives`, `SuccessIsComplete`, `ErrorKeepsOldAlways` (the four properties of the run `migrate`), from `MigrateInv`: nobody writes while
  the migration works, since it ended the run that used the distro and a new run waits (`UsingRuns`, `WorkIsQuiet`); so what was copied is still the latest, and until the first removal the
  client's directory is complete (`NothingLost`), unless an earlier migration died after its removals (`cut`).

`WSLUpdateProofs`, for any handlers, number of pieces and requests and any `LogCount` of at least two (`ChunksAssumption`, `LogCountAssumption`, `MaxRequestsAssumption`):

* `UpdateTypesCorrect`: `TypeOK`.
* `InstalledIsAlwaysWanted` (`InstalledIsWanted`): the writer that truncated the `.tmp` last covers what a shorter or broken writer left, unless the exception `excused` has been recorded.
* `LogsStayOrdered` (`NewestFirst`), with `NextIsNewest`: a rename moves a log to the next place, a creation puts the newest in the first; neither needs the rotations to be apart.
* `RotationLosesOldest` (`LostIsOldest`): while a rotation is alone, the place above the log it moves next is free.

`ExecStreamProofs`, for any number of pieces that the command may write (`MaxWritesAssumption`):

* `ExecTypes`: `TypeOK`, from `ExecInv`: what was shown, followed by what lies in the unbounded channel, is what the command wrote; the worker's place says whether the
  command has ended; its error is at one place at a time; the handler has left its loop only because it heard of the end or the client has gone; and the output is closed only when the
  command has ended and the channel is empty (`ClosedInOrder`), so that all output has been shown before the first empty event (`ClosedIsShown`).
* `ExecImplementsStream`: under `ExecInv` initial states map to initial states and every step of `ExecStream` to a step of `OutputStream` or a stutter.

`WslConfigProofs`, for any handlers, any number of fixes and any files with at most three settings of the two keys, of any length (`FilesAssumption`, `MaxFixesAssumption`). Nothing about a
whole file needs an induction: `Commented` works line by line, and `GetValue` takes the first line found.

* `ConfigTypes`: `TypeOK`; what lies behind a write are lines again, one of them perhaps without its mark (`BehindFacts`, `OverwrittenFacts`).
* `LinesAlwaysKept` (`KeepsLines`): as long as no fixes have overlapped, one handler at most is at work (`Alone`) and writes into an empty file (`WritesAtStart`), so the file, or the
  text about to be written, is the user's with only the two keys commented out (`LinesKept`).
* `FileNeverWorse` (`NeverWorse`): overlapping fixes may leave less. The file and every text are empty or have as many lines as each other (`SameLength`), so a write replaces a whole text,
  or, of nothing, leaves it as it is. Both are a prefix of the user's lines in which *all* matches of some of the two keys are commented out (`AllDerived`): the first setting of a key is then the
  user's first one or none is left (`FirstStays`). A write that breaks off in another one's text leaves no such file, which is why the property has that exception.
* `FixedStaysCompatible` (`FixedIsCompatible`): unless one of the fixes that overlap has failed (`spoilt`), no text that is written has `kernel` left (`KernelClean`). A text read for
  `kernel` may bring `localhostforwarding` back after another fix has ended well, but whoever writes it takes it out again before all are quiet (`RepairUnderWay`, `LastClean`), and a
  handler that works alone after that starts from a file without it (`AfterClean`). The proofs do not cite the bound of `FewSettings`: it is what makes `Behind` true to the code.

All invariants of all passing runs are thus stated by a theorem (`ReturnMeansProcessed` of `event_two` as `SoleEnderWaits`). Only model-checked: liveness (`AwaitEnds`, `RepairWakes`, `BindExitEnds`,
`BoundExit`, `CloseEnds`, `RequestEnds`, `WorkerEnds` and the fairness of both `ImplementsStream`), which is out of the proof system's reach here.

## Not modelled

An `os.Stat` that fails on a file that exists (`update.go:63`, `update.go:74`, `logger.go:117`): the code takes the file for missing, so that an update replaces it and a rotation does not rename
it. A missing file and one that somebody removed are modelled. Of the logger, `useExistLog` (the elevated child looks for the newest log) and the list `cs` with `CloseAll`, which concurrent handlers change without a lock.
The port finder and the host endpoint have no state worth a model; the wrappers of wsl.exe and of the Windows API, and the parsing of their output, are
represented by what they do to the state. HTTP delivery to the client is not modelled: the program does not react to it. Data races on plain
flags (`needWaitClose`, `StoppedWithAPI`, the permissions) are modelled as atomic reads and writes in any order.

## Plan

Done: `Event`, `InitFlow`, `RunFlow`, `Update`, `Migrate`, `ExecStream`, `WslConfig`, `WSLUpdate` with `Download` and `LogRotate`, and the proofs listed above.

1. An abstract specification of the stop protocol of `RunFlow` (asked, stopped, reported) with a refinement, and one of an installation
   (data here or there, never lost) that both `Update` and `Migrate` implement.
2. `sourcecode.vhdx` as a third file of `Update`, which trusts existence only; the logs of the elevated child.

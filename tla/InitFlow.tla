------------------------------ MODULE InitFlow ------------------------------
(***************************************************************************)
(* "ovm init": the main goroutine checks the machine and, at each check    *)
(* that fails, tells the client, grants a permission and waits; the        *)
(* client's HTTP requests run concurrently, each in a goroutine of its     *)
(* own, repair the machine and wake main through capacity-1 channels.      *)
(*                                                                         *)
(*   cmd/ovm/main.go main, pkg/cli/init.go Setup/Start, pkg/wsl/check.go,  *)
(*   pkg/wsl/install.go, pkg/ipc/restful/init.go, pkg/channel/channel.go,  *)
(*   with the event sender of module Event.                                *)
(*                                                                         *)
(* A request refused with 403 changes nothing: it is a stuttering step.    *)
(***************************************************************************)
EXTENDS Naturals, Sequences

CONSTANTS Handlers,    \* request goroutines that can be active at once
          MaxRequests, \* bound: requests accepted in a behaviour
          Machines,    \* the machines init may find
          DismCodes,   \* exit codes of dism, 0 for success
          Failures     \* the external operations that may fail

\* What a check may find (wsl, feature, virt, config), and the Windows build.
Machine == [build : Nat, wsl : {"missing", "unreadable", "old", "current"},
            feature : {"refused", "absent", "statusFails", "present", "pending"},
            virt : {"yes", "no", "unprobed"}, config : {"good", "bad", "skipped"}]

Failure == {"setup", "listen", "serve", "install", "updateLog", "admin",
            "fix", "touch", "open", "shutdown", "runOnce"}

ASSUME MaxRequestsAssumption == MaxRequests \in Nat
ASSUME MachinesAssumption == Machines \subseteq Machine
ASSUME DismCodesAssumption == DismCodes \subseteq Nat
ASSUME FailuresAssumption == Failures \subseteq Failure
ASSUME HandlersAssumption == "main" \notin Handlers

InitNames == {"SystemNotSupport", "NotSupportVirtualization", "NeedEnableFeature",
  "EnableFeaturing", "EnableFeatureFailed", "EnableFeatureSuccess", "NeedReboot",
  "WSLConfigMaybeIncompatible", "NeedUpdateWSL", "UpdatingWSL", "UpdateWSLFailed",
  "UpdateWSLSuccess", "Exit", "Success", "Error"}

Ops == {"update", "enable", "fixAuto", "fixOpen", "fixSkip", "shutdown", "reboot"}

VARIABLES
  main,      \* where the main goroutine is
  err,       \* cmd() returned an error
  ctx,       \* the errgroup's context: live, failed by a goroutine, cancelled by Start
  bindAlive, \* the process of --bind-pid exists
  machine,   \* the machine
  can,       \* CanReboot, CanEnableFeature, ... and routerInit.canShutdownWSL
  token,     \* the three channels of pkg/channel: 0 or 1 token, the config's flag
  req,       \* the request each goroutine handles
  at,        \* where it is in the handler
  requests,  \* requests accepted so far
  runOnce,   \* the RunOnce key is set
  served,    \* history: the kinds of requests that have woken main
  sender, queue, processed, caller, held, doneClosed, closed \* see Event

Ev == INSTANCE Event WITH Notifiers <- Handlers \cup {"main"}, Names <- InitNames,
        Terminal <- {"Exit", "NeedReboot"}, Enders <- Handlers \cup {"main"}

evVars == <<sender, queue, processed, caller, held, doneClosed, closed>>
reqVars == <<req, at, requests, runOnce, served>>
envVars == <<bindAlive, machine>>
vars == <<main, err, ctx, can, token, envVars, reqVars, evVars>>

Init == /\ main = "setup" /\ err = FALSE /\ ctx = "live" /\ bindAlive = TRUE
        /\ machine \in Machines
        /\ can = [reboot |-> FALSE, feature |-> FALSE, update |-> FALSE,
                  config |-> FALSE, shutdown |-> FALSE]
        /\ token = [updated |-> 0, config |-> "none", shutdown |-> 0]
        /\ req = [h \in Handlers |-> "none"] /\ at = [h \in Handlers |-> "idle"]
        /\ requests = 0 /\ runOnce = FALSE /\ served = {}
        /\ Ev!Init

\* the process exists: os.Exit, a panic of main and a reboot end it
Alive == main \notin {"exited", "rebooted"} /\ caller["main"] # "panicked"

-----------------------------------------------------------------------------
(* The main goroutine *)

MainAt(from, to) == main = from /\ caller["main"] = "out" /\ main' = to

MainSay(from, name, to) ==
  /\ MainAt(from, to)
  /\ Ev!Notify("main", name)
  /\ UNCHANGED <<err, ctx, can, token, envVars, reqVars>>

MainGrant(from, permission, to) ==
  /\ MainAt(from, to)
  /\ can' = [can EXCEPT ![permission] = TRUE]
  /\ UNCHANGED <<err, ctx, token, envVars, reqVars, evVars>>

MainMove(from, to) ==
  /\ MainAt(from, to)
  /\ UNCHANGED <<err, ctx, can, token, envVars, reqVars, evVars>>

\* cmd() fails: main goes on to the Error event
MainFail(from) ==
  /\ MainAt(from, "result")
  /\ err' = TRUE
  /\ UNCHANGED <<ctx, can, token, envVars, reqVars, evVars>>

\* InitContext.Setup, which starts the event sender at its end
SetupEvents ==
  \/ "setup" \in Failures /\ MainFail("setup")
  \/ /\ MainAt("setup", "support") /\ Ev!Setup
     /\ UNCHANGED <<err, ctx, can, token, envVars, reqVars>>

SupportWSL2(build) == build >= 19044

CheckSupport ==
  IF SupportWSL2(machine.build)
  THEN MainMove("support", "listen")
  ELSE MainSay("support", "SystemNotSupport", "unsupported")

\* SetupInit; main leaves "listen" with the server and the bind watcher running
StartServer ==
  \/ "listen" \in Failures /\ MainFail("listen")
  \/ MainMove("listen", "version")

ShouldUpdateWSL == machine.wsl # "current"
\* a failing wsl --status does not count as a missing feature
IsFeatureEnabled == machine.feature \in {"present", "statusFails"}
\* a probe that cannot be made counts as support
CheckBIOS == machine.virt # "no"
\* the skip file wins over the content of .wslconfig
ConfigPasses == machine.config \in {"good", "skipped"}

\* Start returns: the deferred cancel ends the context
Return(from) ==
  /\ MainAt(from, "result")
  /\ ctx' = IF ctx = "live" THEN "cancelled" ELSE ctx
  /\ UNCHANGED <<err, can, token, envVars, reqVars, evVars>>

\* mutant of Abandon: the wait watches a context that only Start's end cancels
AbandonLate(from) == ctx = "cancelled" /\ Return(from)

Abandon(from) == ctx # "live" /\ Return(from)

CheckVersion ==
  \/ ~ShouldUpdateWSL /\ MainMove("version", "feature")
  \/ ShouldUpdateWSL /\ MainSay("version", "NeedUpdateWSL", "grantUpdate")
  \/ MainGrant("grantUpdate", "update", "awaitUpdate")
  \/ Abandon("awaitUpdate")
  \/ /\ MainAt("awaitUpdate", "feature")
     /\ token.updated = 1
     /\ token' = [token EXCEPT !.updated = 0]
     /\ UNCHANGED <<err, ctx, can, envVars, reqVars, evVars>>

CheckFeature ==
  \/ IsFeatureEnabled /\ MainMove("feature", "bios")
  \/ ~IsFeatureEnabled /\ MainSay("feature", "NeedEnableFeature", "grantFeature")
  \/ MainGrant("grantFeature", "feature", "awaitDone")
  \/ Abandon("awaitDone")

CheckVirtualization ==
  \/ CheckBIOS /\ MainMove("bios", "config")
  \/ ~CheckBIOS /\ MainSay("bios", "NotSupportVirtualization", "awaitDone")

\* mutant of CheckConfig: main goes on without waiting for the client
CheckConfigGoesOn ==
  \/ ConfigPasses /\ Return("config")
  \/ ~ConfigPasses /\ MainSay("config", "WSLConfigMaybeIncompatible", "grantConfig")
  \/ MainGrant("grantConfig", "config", "return")
  \/ Return("return")

CheckConfig ==
  \/ ConfigPasses /\ Return("config")
  \/ ~ConfigPasses /\ MainSay("config", "WSLConfigMaybeIncompatible", "grantConfig")
  \/ MainGrant("grantConfig", "config", "awaitConfig")
  \/ Abandon("awaitConfig")
  \/ /\ MainAt("awaitConfig", IF token.config = "open" THEN "awaitShutdown" ELSE "return")
     /\ token.config # "none"
     /\ token' = [token EXCEPT !.config = "none"]
     /\ UNCHANGED <<err, ctx, can, envVars, reqVars, evVars>>
  \/ /\ MainAt("awaitShutdown", "return") \* this receive has no ctx.Done() beside it
     /\ token.shutdown = 1
     /\ token' = [token EXCEPT !.shutdown = 0]
     /\ UNCHANGED <<err, ctx, can, envVars, reqVars, evVars>>
  \/ Return("return")

\* main(): Success or Error, then Exit, whose wait ends before util.Exit
Report ==
  \/ MainFail("unsupported")
  \/ MainSay("result", IF err THEN "Error" ELSE "Success", "exit")
  \/ MainSay("exit", "Exit", "end")
  \/ MainMove("end", "exited")

MainStep == Alive /\ ( SetupEvents \/ CheckSupport \/ StartServer \/ CheckVersion
                       \/ CheckFeature \/ CheckVirtualization \/ CheckConfig \/ Report )

-----------------------------------------------------------------------------
(* The goroutines of the errgroup and the world around the process *)

Started == main \notin {"setup", "support", "unsupported", "listen"} /\ sender # "none"

BindExits == /\ bindAlive /\ bindAlive' = FALSE
             /\ UNCHANGED <<main, err, ctx, can, token, machine, reqVars, evVars>>

\* the goroutine that returns an error cancels the group's context
FailCtx == /\ Alive /\ Started /\ ctx = "live"
           /\ ctx' = "failed"
           /\ UNCHANGED <<main, err, can, token, envVars, reqVars, evVars>>

WaitBindPID == ~bindAlive /\ FailCtx
ServeFails == "serve" \in Failures /\ FailCtx

-----------------------------------------------------------------------------
(* The request handlers *)

Permission == [update |-> "update", enable |-> "feature", fixAuto |-> "config",
               fixOpen |-> "config", fixSkip |-> "config",
               shutdown |-> "shutdown", reboot |-> "reboot"]

\* a request passes the check at the head of its handler
Accept(h, op) ==
  /\ Started /\ at[h] = "idle" /\ requests < MaxRequests
  /\ can[Permission[op]]
  /\ requests' = requests + 1
  /\ req' = [req EXCEPT ![h] = op] /\ at' = [at EXCEPT ![h] = "begin"]
  /\ UNCHANGED <<main, err, ctx, can, token, envVars, runOnce, served, evVars>>

HandlerAt(h, op, from) == req[h] = op /\ at[h] = from /\ caller[h] = "out"

Goto(h, to) == /\ at' = [at EXCEPT ![h] = to]
               /\ req' = [req EXCEPT ![h] = IF to = "idle" THEN "none" ELSE @]
               /\ UNCHANGED requests

Say(h, op, from, name, to) ==
  /\ HandlerAt(h, op, from) /\ Goto(h, to)
  /\ Ev!Notify(h, name)
  /\ UNCHANGED <<main, err, ctx, can, token, envVars, runOnce, served>>

\* a step of a handler that changes nothing but where it is
Step(h, op, from, to) ==
  /\ HandlerAt(h, op, from) /\ Goto(h, to)
  /\ UNCHANGED <<main, err, ctx, can, token, envVars, runOnce, served, evVars>>

\* mutant of InstallWSL: the permission is withdrawn even if msiexec fails
InstallWSLWithdraws(h) ==
  /\ HandlerAt(h, "update", "work")
  /\ \E done \in {TRUE, "install" \notin Failures} :
       /\ Goto(h, IF done THEN "told" ELSE "failed")
       /\ machine' = [machine EXCEPT !.wsl = IF done THEN "current" ELSE @]
  /\ can' = [can EXCEPT !.update = FALSE]
  /\ UNCHANGED <<main, err, ctx, token, bindAlive, runOnce, served, evVars>>

\* wsl.Update: download, msiexec; CanUpdateWSL is cleared before the event
InstallWSL(h) ==
  /\ HandlerAt(h, "update", "work") /\ Goto(h, "told")
  /\ machine' = [machine EXCEPT !.wsl = "current"]
  /\ can' = [can EXCEPT !.update = FALSE]
  /\ UNCHANGED <<main, err, ctx, token, bindAlive, runOnce, served, evVars>>

\* mutant of SignalUpdated: the channel's capacity is forgotten
SignalUpdatedAnyway(h) ==
  /\ HandlerAt(h, "update", "signal") /\ Goto(h, "idle")
  /\ token' = [token EXCEPT !.updated = @ + 1] /\ served' = served \cup {"update"}
  /\ UNCHANGED <<main, err, ctx, can, envVars, runOnce, evVars>>

\* mutant of SignalUpdated: nothing is sent
SignalUpdatedNever(h) == Step(h, "update", "signal", "idle")

\* NotifyWSLUpdated blocks while the channel holds a token
SignalUpdated(h) ==
  /\ HandlerAt(h, "update", "signal") /\ Goto(h, "idle")
  /\ token.updated = 0
  /\ token' = [token EXCEPT !.updated = 1] /\ served' = served \cup {"update"}
  /\ UNCHANGED <<main, err, ctx, can, envVars, runOnce, evVars>>

Update(h) ==
  \/ Say(h, "update", "begin", "UpdatingWSL", "work")
  \/ InstallWSL(h)
  \/ "install" \in Failures /\ Step(h, "update", "work", "failed")
  \/ "updateLog" \in Failures /\ Step(h, "update", "work", "idle") \* no event here
  \/ Say(h, "update", "failed", "UpdateWSLFailed", "idle")
  \/ Say(h, "update", "told", "UpdateWSLSuccess", "signal")
  \/ SignalUpdated(h)

\* only 3010 is taken for success: a Go switch does not fall through
isMsiErr(code) == code # 0 /\ code # 3010

\* one of the two dism commands, in this process or in the elevated child
RunDism(h, from, to) ==
  /\ HandlerAt(h, "enable", from)
  /\ \E code \in DismCodes : Goto(h, IF isMsiErr(code) THEN "failed" ELSE to)
  /\ UNCHANGED <<main, err, ctx, can, token, envVars, runOnce, served, evVars>>

\* mutant of GrantReboot: one of the two places that set CanReboot is missing
GrantRebootForgotten(h) ==
  /\ HandlerAt(h, "enable", "enabled") /\ Goto(h, "told")
  /\ machine' = [machine EXCEPT !.feature = "pending"]
  /\ can' = [can EXCEPT !.feature = FALSE]
  /\ UNCHANGED <<main, err, ctx, token, bindAlive, runOnce, served, evVars>>

GrantReboot(h) ==
  /\ HandlerAt(h, "enable", "enabled") /\ Goto(h, "told")
  /\ machine' = [machine EXCEPT !.feature = "pending"]
  /\ can' = [can EXCEPT !.feature = FALSE, !.reboot = TRUE]
  /\ UNCHANGED <<main, err, ctx, token, bindAlive, runOnce, served, evVars>>

Install(h) ==
  \/ Say(h, "enable", "begin", "EnableFeaturing", "dism1")
  \/ "admin" \in Failures /\ Step(h, "enable", "dism1", "failed") \* refused, or no log
  \/ RunDism(h, "dism1", "dism2")
  \/ RunDism(h, "dism2", "enabled")
  \/ GrantReboot(h)
  \/ Say(h, "enable", "failed", "EnableFeatureFailed", "idle")
  \/ Say(h, "enable", "told", "EnableFeatureSuccess", "last")
  \/ Say(h, "enable", "last", "NeedReboot", "idle")

\* Fix and SkipConfigCheck leave a .wslconfig that passes, Open leaves it to the user
Repair(h, op, kind) ==
  /\ HandlerAt(h, op, "begin") /\ Goto(h, "signal")
  /\ machine' = [machine EXCEPT !.config = kind]
  /\ UNCHANGED <<main, err, ctx, can, token, bindAlive, runOnce, served, evVars>>

SignalConfig(h, op, flag) ==
  /\ HandlerAt(h, op, "signal") /\ Goto(h, "idle")
  /\ token.config = "none"
  /\ token' = [token EXCEPT !.config = flag] /\ served' = served \cup {op}
  /\ UNCHANGED <<main, err, ctx, can, envVars, runOnce, evVars>>

GrantShutdown(h) ==
  /\ HandlerAt(h, "fixOpen", "begin") /\ Goto(h, "open")
  /\ can' = [can EXCEPT !.shutdown = TRUE]
  /\ UNCHANGED <<main, err, ctx, token, envVars, runOnce, served, evVars>>

FixWSLConfig(h) ==
  \/ "fix" \in Failures /\ Step(h, "fixAuto", "begin", "idle")
  \/ Repair(h, "fixAuto", "good") \* then Shutdown, whose error is only logged
  \/ SignalConfig(h, "fixAuto", "auto")
  \/ GrantShutdown(h)
  \/ "open" \in Failures /\ Step(h, "fixOpen", "open", "idle")
  \/ Step(h, "fixOpen", "open", "signal")
  \/ SignalConfig(h, "fixOpen", "open")
  \/ Repair(h, "fixSkip", "skipped")
  \/ "touch" \in Failures /\ Step(h, "fixSkip", "begin", "signal")
  \/ SignalConfig(h, "fixSkip", "skip")

SignalShutdown(h) ==
  /\ HandlerAt(h, "shutdown", "signal") /\ Goto(h, "clear")
  /\ token.shutdown = 0
  /\ token' = [token EXCEPT !.shutdown = 1] /\ served' = served \cup {"shutdown"}
  /\ UNCHANGED <<main, err, ctx, can, envVars, runOnce, evVars>>

ClearShutdown(h) ==
  /\ HandlerAt(h, "shutdown", "clear") /\ Goto(h, "idle")
  /\ can' = [can EXCEPT !.shutdown = FALSE]
  /\ UNCHANGED <<main, err, ctx, token, envVars, runOnce, served, evVars>>

\* mutant of ShutdownWSL: a deferred clear withdraws the permission on failure too
ShutdownWSLDefers(h) ==
  \/ "shutdown" \in Failures /\ Step(h, "shutdown", "begin", "clear")
  \/ Step(h, "shutdown", "begin", "signal")
  \/ SignalShutdown(h)
  \/ ClearShutdown(h)

ShutdownWSL(h) ==
  \/ "shutdown" \in Failures /\ Step(h, "shutdown", "begin", "idle")
  \/ Step(h, "shutdown", "begin", "signal")
  \/ SignalShutdown(h)
  \/ ClearShutdown(h)

\* mutant of Reboot: a RunOnce that fails is only logged
RebootAnyway(h) ==
  \/ "runOnce" \in Failures /\ Step(h, "reboot", "begin", "set")
  \/ /\ HandlerAt(h, "reboot", "set") /\ Goto(h, "idle")
     /\ main' = "rebooted"
     /\ UNCHANGED <<err, ctx, can, token, envVars, runOnce, served, evVars>>

\* sys.RunOnce, then sys.Reboot unless the client asked for "later"
Reboot(h) ==
  \/ "runOnce" \in Failures /\ Step(h, "reboot", "begin", "idle")
  \/ /\ HandlerAt(h, "reboot", "begin") /\ Goto(h, "set")
     /\ runOnce' = TRUE
     /\ UNCHANGED <<main, err, ctx, can, token, envVars, served, evVars>>
  \/ Step(h, "reboot", "set", "idle") \* later, or Reboot failed
  \/ /\ HandlerAt(h, "reboot", "set") /\ Goto(h, "idle")
     /\ main' = "rebooted"
     /\ UNCHANGED <<err, ctx, can, token, envVars, runOnce, served, evVars>>

HandlerStep(h) == Alive /\ ( Update(h) \/ Install(h) \/ FixWSLConfig(h)
                             \/ ShutdownWSL(h) \/ Reboot(h) )

\* the sender and the waits inside notify
EventStep ==
  /\ Alive
  /\ Ev!Deliver \/ \E p \in Handlers \cup {"main"} : Ev!Proceed(p)
  /\ UNCHANGED <<main, err, ctx, can, token, envVars, reqVars>>

Next == \/ MainStep \/ EventStep
        \/ BindExits \/ WaitBindPID \/ ServeFails
        \/ \E h \in Handlers : HandlerStep(h)
        \/ \E h \in Handlers, op \in Ops : Alive /\ Accept(h, op)

\* The handlers' last steps run when the channel has room; the external programs
\* they start before (msiexec, dism, notepad, wsl) may take for ever.
Signal(h) == Alive /\ ( \/ SignalUpdated(h) \/ SignalShutdown(h)
                        \/ SignalConfig(h, "fixAuto", "auto")
                        \/ SignalConfig(h, "fixOpen", "open")
                        \/ SignalConfig(h, "fixSkip", "skip") )

\* Go runs every goroutine that can run, WaitBindPID polls; nobody has to ask
\* for anything, and nothing has to fail or exit
Fairness == /\ WF_vars(MainStep) /\ WF_vars(EventStep) /\ WF_vars(WaitBindPID)
            /\ \A h \in Handlers : WF_vars(Signal(h))

Spec == Init /\ [][Next]_vars /\ Fairness

-----------------------------------------------------------------------------
MainPcs == {"setup", "support", "unsupported", "listen", "version", "grantUpdate",
  "awaitUpdate", "feature", "grantFeature", "awaitDone", "bios", "config",
  "grantConfig", "awaitConfig", "awaitShutdown", "return", "result", "exit", "end",
  "exited", "rebooted"}

TypeOK ==
  /\ main \in MainPcs /\ err \in BOOLEAN /\ ctx \in {"live", "failed", "cancelled"}
  /\ bindAlive \in BOOLEAN /\ runOnce \in BOOLEAN /\ served \subseteq Ops /\ machine \in Machine
  /\ can \in [{"reboot", "feature", "update", "config", "shutdown"} -> BOOLEAN]
  /\ token \in [updated : {0, 1}, config : {"none", "auto", "open", "skip"}, shutdown : {0, 1}]
  /\ req \in [Handlers -> Ops \cup {"none"}]
  /\ at \in [Handlers -> {"idle", "begin", "work", "failed", "told", "signal", "dism1",
                          "dism2", "enabled", "last", "open", "clear", "set"}]
  /\ requests \in 0..MaxRequests
  /\ Ev!TypeOK

\* Main never waits for an update that nobody can bring any more: once the
\* permission is withdrawn (install.go:165) the wake-up is there or on its way,
\* whatever other requests and events go on (restful/init.go:126).
UpdateWakeup ==
  main = "awaitUpdate" /\ ~can.update =>
    \/ token.updated = 1
    \/ \E h \in Handlers : /\ req[h] = "update" /\ at[h] \in {"told", "signal"}
                           /\ caller[h] # "panicked"

\* Main never waits for a WSL shutdown that no request may trigger: two racing
\* requests cannot withdraw canShutdownWSL without a token in the channel.
ShutdownObtainable == main = "awaitShutdown" => can.shutdown \/ token.shutdown = 1

\* The configuration passes, or the user asked to skip the check (a skip file that
\* cannot be written is only logged), or has opened it and then shut WSL down.
ConfigSettled ==
  ConfigPasses \/ "fixSkip" \in served \/ {"fixOpen", "shutdown"} \subseteq served

\* Success is reported only when every check passed or was repaired, or, for the
\* configuration, settled by the user; or else when the bound process exited or the
\* server failed: Start drops that error.
SuccessMeansReady ==
  (\E i \in 1..Len(Ev!accepted) : Ev!accepted[i] = "Success") =>
    \/ ctx = "failed"
    \/ /\ SupportWSL2(machine.build) /\ ~ShouldUpdateWSL /\ IsFeatureEnabled /\ CheckBIOS
       /\ ConfigSettled

\* A client that was sent NeedReboot may reboot at once, and the features are
\* enabled: the permission is set before the event (install.go:41-44, 67-70).
RebootGrantedWhenTold ==
  (\E i \in 1..Len(processed) : processed[i] = "NeedReboot")
    => can.reboot /\ machine.feature = "pending"

\* The machine reboots only with the features enabled and RunOnce set, so that
\* init continues after the reboot.
RebootPrepared == main = "rebooted" => machine.feature = "pending" /\ runOnce

\* A handler that has repaired what main waits for wakes it.
WaitOf == [update |-> "awaitUpdate", fixAuto |-> "awaitConfig", fixOpen |-> "awaitConfig",
           fixSkip |-> "awaitConfig", shutdown |-> "awaitShutdown"]
Repaired(wait) ==
  \E h \in Handlers : at[h] = "signal" /\ req[h] \in DOMAIN WaitOf /\ WaitOf[req[h]] = wait
RepairWakes ==
  \A wait \in {"awaitUpdate", "awaitConfig", "awaitShutdown"} : Repaired(wait) ~> main # wait

\* "OVM will exit when the bound pid exited" (main.go:179) holds of init except
\* while main waits for the user to shut WSL down.
BindExitEnds == ~bindAlive ~> ~Alive \/ main = "awaitShutdown"

\* The promise of main.go:179 as it stands: the code breaks it (check.go:160).
BoundExit == ~bindAlive ~> ~Alive
=============================================================================

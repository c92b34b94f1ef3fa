--------------------------- MODULE InitFlowProofs --------------------------
(***************************************************************************)
(* Theorems about InitFlow for every set of handlers, machines, exit codes *)
(* and failures, and any number of requests.                               *)
(*                                                                         *)
(* The argument: main goes through its checks once and in order, so that a *)
(* permission that a later check grants is not yet granted, and what an    *)
(* earlier check found or waited for is still there.                       *)
(***************************************************************************)
EXTENDS InitFlow, SequenceTheorems, TLAPS

EP == INSTANCE EventProofs WITH Notifiers <- Handlers \cup {"main"}, Names <- InitNames,
        Terminal <- {"Exit", "NeedReboot"}, Enders <- Handlers \cup {"main"}

Accepted == Ev!accepted
Said(name) == \E i \in 1..Len(Accepted) : Accepted[i] = name

\* The places of main up to the wait for the update, and up to the next grant.
UntilUpdate == {"setup", "support", "unsupported", "listen", "version", "grantUpdate", "awaitUpdate"}
UntilFeature == UntilUpdate \cup {"feature", "grantFeature"}
Over == {"result", "exit", "end", "exited"}
PastConfig == {"awaitShutdown", "return"} \cup Over
PastBios == {"config", "grantConfig", "awaitConfig"} \cup PastConfig
PastFeature == {"bios"} \cup PastBios
PastVersion == {"feature", "grantFeature", "awaitDone"} \cup PastFeature
PastSupport == {"listen", "version", "grantUpdate", "awaitUpdate"} \cup PastVersion

\* The permission to reboot comes after the features and before the event.
RebootInv ==
  /\ can.reboot => machine.feature = "pending"
  /\ Said("NeedReboot") => can.reboot
  /\ \A h \in Handlers : /\ req[h] = "reboot" => can.reboot
                         /\ at[h] = "set" => req[h] = "reboot" /\ runOnce
                         /\ req[h] = "enable" /\ at[h] \in {"told", "last"} => can.reboot
  /\ RebootPrepared

\* Nobody enables features, nor ends the events, before main has granted it.
NoFeature == ~can.feature /\ \A h \in Handlers : req[h] # "enable"
EarlyInv ==
  /\ main \in UntilFeature => NoFeature
  /\ main \in UntilUpdate => ~closed /\ \A p \in Handlers \cup {"main"} : caller[p] = "out"

\* A shutdown that main may wait for is permitted or has happened.
ShutInv ==
  main \notin {"return", "rebooted"} \cup Over =>
    /\ \A h \in Handlers : at[h] = "clear" => token.shutdown = 1
    /\ \/ token.config = "open" \/ main = "awaitShutdown"
       \/ \E h \in Handlers : req[h] = "fixOpen" /\ at[h] \in {"open", "signal"}
       => can.shutdown \/ token.shutdown = 1

\* What is in the channels says what the user has done about the configuration.
ServedInv ==
  /\ \/ token.config = "auto" \/ \E h \in Handlers : req[h] = "fixAuto" /\ at[h] = "signal"
     => ConfigPasses
  /\ token.config = "open" \/ main = "awaitShutdown" => "fixOpen" \in served
  /\ token.config = "skip" => "fixSkip" \in served
  /\ token.shutdown = 1 => "shutdown" \in served

\* Where main is tells which checks have passed, unless the context failed.
Settled == {"return"} \cup Over
ReadyInv ==
  /\ ctx = "cancelled" => main \in Over \cup {"rebooted"}
  /\ token.updated = 1 => machine.wsl = "current"
  /\ \A h \in Handlers : req[h] = "update" /\ at[h] \in {"told", "signal"} => machine.wsl = "current"
  /\ ~err /\ ctx # "failed" =>
       /\ main \in PastSupport => SupportWSL2(machine.build)
       /\ main \in PastVersion => machine.wsl = "current"
       /\ main \in PastFeature => NoFeature /\ IsFeatureEnabled
       /\ main \in PastBios => CheckBIOS
       /\ main \in Settled => ConfigSettled

\* Success is said at the end only, when all of this held.
SuccessInv ==
  Said("Success") =>
    /\ main \in {"exit", "end", "exited", "rebooted"}
    /\ ctx = "failed" \/ ( /\ SupportWSL2(machine.build) /\ machine.wsl = "current" /\ CheckBIOS
                           /\ NoFeature /\ IsFeatureEnabled /\ ConfigSettled )

-----------------------------------------------------------------------------
(* The events and the types *)

\* The names and goroutines of init fit the assumptions of Event.
LEMMA NamesFit ==
  /\ {"Exit", "NeedReboot"} \subseteq InitNames
  /\ Handlers \cup {"main"} \subseteq Handlers \cup {"main"}
BY DEF InitNames

\* A notification is a step of the event sender.
LEMMA NotifyIsStep ==
  ASSUME NEW p \in Handlers \cup {"main"}, NEW name \in InitNames, Ev!Notify(p, name)
  PROVE  EP!Notify(p, name) /\ EP!Next
BY DEF Ev!Notify, Ev!Ignored, Ev!Enqueue, Ev!SendOnClosed, Ev!Goto, Ev!vars, Ev!accepted,
   EP!Next, EP!Notify, EP!Ignored, EP!Enqueue, EP!SendOnClosed, EP!Goto, EP!vars, EP!accepted

\* What main does to the events.
LEMMA MainEvents ==
  ASSUME MainStep
  PROVE  \/ UNCHANGED evVars
         \/ main = "setup" /\ main' = "support" /\ Ev!Setup
         \/ \E name \in InitNames \ {"NeedReboot"} :
              /\ Ev!Notify("main", name)
              /\ name = "Success" => main = "result" /\ main' = "exit" /\ ~err
              /\ name = "Exit" => main = "exit"
<1>1. CASE SetupEvents
  BY <1>1 DEF SetupEvents, MainFail, MainAt
<1>2. CASE CheckSupport \/ StartServer \/ CheckVersion
  BY <1>2 DEF CheckSupport, StartServer, CheckVersion, MainSay, MainGrant, MainMove, MainFail, MainAt,
     Abandon, Return, InitNames
<1>3. CASE CheckFeature \/ CheckVirtualization
  BY <1>3 DEF CheckFeature, CheckVirtualization, MainSay, MainGrant, MainMove, MainAt,
     Abandon, Return, InitNames
<1>4. CASE CheckConfig
  BY <1>4 DEF CheckConfig, MainSay, MainGrant, MainMove, MainAt, Abandon, Return, InitNames
<1>5. CASE Report
  BY <1>5 DEF Report, MainSay, MainMove, MainFail, MainAt, InitNames
<1> QED
  BY <1>1, <1>2, <1>3, <1>4, <1>5 DEF MainStep

\* What a handler does to the events.
LEMMA HandlerEvents ==
  ASSUME NEW h \in Handlers, HandlerStep(h)
  PROVE  \/ UNCHANGED evVars
         \/ \E name \in InitNames \ {"Success", "Exit"} :
              /\ Ev!Notify(h, name) /\ UNCHANGED <<main, err, ctx, can, token, envVars, runOnce, served>>
              /\ name = "NeedReboot" => req[h] = "enable" /\ at[h] = "last"
<1>1. CASE Update(h)
  BY <1>1 DEF Update, Say, Step, HandlerAt, InstallWSL, SignalUpdated, InitNames
<1>2. CASE Install(h)
  BY <1>2 DEF Install, Say, Step, HandlerAt, RunDism, GrantReboot, InitNames
<1>3. CASE FixWSLConfig(h) \/ ShutdownWSL(h) \/ Reboot(h)
  BY <1>3 DEF FixWSLConfig, ShutdownWSL, Reboot, Step, Repair, SignalConfig, GrantShutdown,
     SignalShutdown, ClearShutdown
<1> QED
  BY <1>1, <1>2, <1>3 DEF HandlerStep

\* A step of init is a step of the event sender, or none.
LEMMA StepsOfEvent == [Next]_vars => [EP!Next]_EP!vars
<1> SUFFICES ASSUME [Next]_vars PROVE EP!Next \/ UNCHANGED evVars
  BY DEF evVars, EP!vars
<1>1. CASE MainStep
  BY <1>1, MainEvents, NotifyIsStep DEF Ev!Setup, EP!Setup, EP!Next
<1>2. CASE EventStep
  BY <1>2 DEF EventStep, Ev!Deliver, Ev!Proceed, Ev!Handoff, Ev!ReceiveClosed, Ev!CloseDone,
     Ev!CloseQueue, Ev!Goto, EP!Next, EP!Deliver, EP!Proceed, EP!Handoff, EP!ReceiveClosed,
     EP!CloseDone, EP!CloseQueue, EP!Goto
<1>3. CASE BindExits \/ WaitBindPID \/ ServeFails
  BY <1>3 DEF BindExits, WaitBindPID, ServeFails, FailCtx
<1>4. ASSUME NEW h \in Handlers, HandlerStep(h) PROVE EP!Next \/ UNCHANGED evVars
  BY <1>4, HandlerEvents, NotifyIsStep
<1>5. ASSUME NEW h \in Handlers, NEW op \in Ops, Accept(h, op) PROVE UNCHANGED evVars
  BY <1>5 DEF Accept
<1>6. CASE UNCHANGED vars
  BY <1>6 DEF vars
<1> QED
  BY <1>1, <1>2, <1>3, <1>4, <1>5, <1>6 DEF Next

\* The types of the rest.
FlowTypes ==
  /\ main \in MainPcs /\ err \in BOOLEAN /\ ctx \in {"live", "failed", "cancelled"}
  /\ bindAlive \in BOOLEAN /\ runOnce \in BOOLEAN /\ machine \in Machine
  /\ can \in [{"reboot", "feature", "update", "config", "shutdown"} -> BOOLEAN]
  /\ token \in [updated : {0, 1}, config : {"none", "auto", "open", "skip"}, shutdown : {0, 1}]
  /\ req \in [Handlers -> Ops \cup {"none"}]
  /\ at \in [Handlers -> {"idle", "begin", "work", "failed", "told", "signal", "dism1",
                          "dism2", "enabled", "last", "open", "clear", "set"}]
  /\ requests \in 0..MaxRequests /\ served \subseteq Ops

Permissions == {"reboot", "feature", "update", "config", "shutdown"}
Places == {"idle", "begin", "work", "failed", "told", "signal", "dism1", "dism2", "enabled",
           "last", "open", "clear", "set"}

\* The simple steps of main keep the types.
LEMMA MainPieces ==
  ASSUME FlowTypes, NEW from, NEW to \in MainPcs, NEW name, NEW permission \in Permissions
  PROVE  /\ MainSay(from, name, to) => FlowTypes'
         /\ MainGrant(from, permission, to) => FlowTypes'
         /\ MainMove(from, to) => FlowTypes'
         /\ MainFail(from) => FlowTypes'
         /\ Return(from) => FlowTypes'
<1> USE DEF FlowTypes, envVars, reqVars, MainAt
<1>1. MainSay(from, name, to) \/ MainMove(from, to) => FlowTypes'
  BY DEF MainSay, MainMove
<1>2. ASSUME MainGrant(from, permission, to) PROVE FlowTypes'
  <2>1. can' \in [Permissions -> BOOLEAN]
    BY <1>2 DEF MainGrant, Permissions
  <2> QED
    BY <1>2, <2>1 DEF MainGrant, Permissions
<1>3. MainFail(from) => FlowTypes'
  BY DEF MainFail, MainPcs
<1>4. Return(from) => FlowTypes'
  BY DEF Return, MainPcs
<1> QED
  BY <1>1, <1>2, <1>3, <1>4

\* main keeps the types.
LEMMA MainTypes == ASSUME FlowTypes, MainStep PROVE FlowTypes'
<1>0. {"update", "feature", "config"} \subseteq Permissions
  BY DEF Permissions
<1>1. CASE SetupEvents
  <2>1. CASE MainFail("setup")
    BY <2>1, <1>0, MainPieces DEF MainPcs
  <2>2. CASE ~MainFail("setup")
    BY <1>1, <2>2 DEF SetupEvents, MainAt, FlowTypes, envVars, reqVars, MainPcs
  <2> QED
    BY <2>1, <2>2
<1>2. CASE CheckSupport
  BY <1>0, <1>2, MainPieces DEF CheckSupport, MainPcs
<1>3. CASE StartServer
  BY <1>0, <1>3, MainPieces DEF StartServer, MainPcs
<1>4. ASSUME NEW from, NEW to \in MainPcs, MainAt(from, to),
             UNCHANGED <<err, ctx, can, envVars, reqVars, evVars>>,
             \/ token' = [token EXCEPT !.updated = 0]
             \/ token' = [token EXCEPT !.config = "none"]
             \/ token' = [token EXCEPT !.shutdown = 0]
      PROVE  FlowTypes'
  <2>1. token' \in [updated : {0, 1}, config : {"none", "auto", "open", "skip"}, shutdown : {0, 1}]
    BY <1>4 DEF FlowTypes
  <2> QED
    BY <1>4, <2>1 DEF FlowTypes, MainAt, envVars, reqVars
<1>5. CASE CheckVersion
  <2>1. \/ MainMove("version", "feature") \/ MainSay("version", "NeedUpdateWSL", "grantUpdate")
        \/ MainGrant("grantUpdate", "update", "awaitUpdate") \/ Return("awaitUpdate")
        \/ /\ MainAt("awaitUpdate", "feature") /\ token' = [token EXCEPT !.updated = 0]
           /\ UNCHANGED <<err, ctx, can, envVars, reqVars, evVars>>
    BY <1>5 DEF CheckVersion, Abandon
  <2>2. {"feature", "grantUpdate", "awaitUpdate"} \subseteq MainPcs
    BY DEF MainPcs
  <2>3. CASE /\ MainAt("awaitUpdate", "feature") /\ token' = [token EXCEPT !.updated = 0]
             /\ UNCHANGED <<err, ctx, can, envVars, reqVars, evVars>>
    BY <1>4, <2>2, <2>3
  <2> QED
    BY <1>0, <2>1, <2>2, <2>3, MainPieces
<1>6. CASE CheckFeature
  <2>1. \/ MainMove("feature", "bios") \/ MainSay("feature", "NeedEnableFeature", "grantFeature")
        \/ MainGrant("grantFeature", "feature", "awaitDone") \/ Return("awaitDone")
    BY <1>6 DEF CheckFeature, Abandon
  <2>2. {"bios", "grantFeature", "awaitDone"} \subseteq MainPcs
    BY DEF MainPcs
  <2> QED
    BY <1>0, <2>1, <2>2, MainPieces
<1>7. CASE CheckVirtualization
  BY <1>0, <1>7, MainPieces DEF CheckVirtualization, MainPcs
<1>8. CASE CheckConfig
  <2>1. \/ Return("config") \/ MainSay("config", "WSLConfigMaybeIncompatible", "grantConfig")
        \/ MainGrant("grantConfig", "config", "awaitConfig") \/ Return("awaitConfig")
        \/ \E from, to \in {"awaitConfig", "awaitShutdown", "return"} :
             /\ MainAt(from, to)
             /\ \/ token' = [token EXCEPT !.config = "none"]
                \/ token' = [token EXCEPT !.shutdown = 0]
             /\ UNCHANGED <<err, ctx, can, envVars, reqVars, evVars>>
        \/ Return("return")
    BY <1>8 DEF CheckConfig, Abandon
  <2>2. {"awaitConfig", "grantConfig", "awaitShutdown", "return"} \subseteq MainPcs
    BY DEF MainPcs
  <2>3. ASSUME NEW from \in MainPcs, NEW to \in MainPcs, MainAt(from, to),
               \/ token' = [token EXCEPT !.config = "none"]
               \/ token' = [token EXCEPT !.shutdown = 0],
               UNCHANGED <<err, ctx, can, envVars, reqVars, evVars>>
        PROVE  FlowTypes'
    BY <1>4, <2>3
  <2> QED
    BY <1>0, <2>1, <2>2, <2>3, MainPieces
<1>9. CASE Report
  <2>1. \/ MainFail("unsupported") \/ (\E name : MainSay("result", name, "exit"))
        \/ MainSay("exit", "Exit", "end") \/ MainMove("end", "exited")
    BY <1>9 DEF Report
  <2>2. {"exit", "end", "exited"} \subseteq MainPcs
    BY DEF MainPcs
  <2> QED
    BY <1>0, <2>1, <2>2, MainPieces
<1> QED
  BY <1>1, <1>2, <1>3, <1>5, <1>6, <1>7, <1>8, <1>9 DEF MainStep

\* What a step of a handler may change, and that it keeps the types of it.
LEMMA HandlerPieces ==
  ASSUME FlowTypes, NEW h \in Handlers, HandlerStep(h)
  PROVE  /\ \E to \in Places : Goto(h, to)
         /\ UNCHANGED <<err, ctx, bindAlive>>
         /\ runOnce' \in {runOnce, TRUE}
         /\ main' \in {main, "rebooted"}
         /\ \/ machine' = machine
            \/ machine' = [machine EXCEPT !.wsl = "current"]
            \/ machine' = [machine EXCEPT !.feature = "pending"]
            \/ \E kind \in {"good", "skipped"} : machine' = [machine EXCEPT !.config = kind]
         /\ can' \in {can, [can EXCEPT !.update = FALSE], [can EXCEPT !.shutdown = TRUE],
                      [can EXCEPT !.feature = FALSE, !.reboot = TRUE], [can EXCEPT !.shutdown = FALSE]}
         /\ \/ token' \in {token, [token EXCEPT !.updated = 1], [token EXCEPT !.shutdown = 1]}
            \/ \E flag \in {"auto", "open", "skip"} : token' = [token EXCEPT !.config = flag]
         /\ served \subseteq served' /\ served' \subseteq Ops
<1> USE DEF envVars, Say, Step, Places, Ops, FlowTypes
<1>1. CASE Update(h)
  BY <1>1 DEF Update, InstallWSL, SignalUpdated
<1>2. CASE Install(h)
  BY <1>2 DEF Install, RunDism, GrantReboot
<1>3. CASE FixWSLConfig(h)
  <2>1. CASE \E op \in {"fixAuto", "fixOpen", "fixSkip"}, kind \in {"good", "skipped"} : Repair(h, op, kind)
    BY <2>1 DEF Repair
  <2>2. CASE \E op \in {"fixAuto", "fixOpen", "fixSkip"}, flag \in {"auto", "open", "skip"} : SignalConfig(h, op, flag)
    BY <2>2 DEF SignalConfig
  <2>3. CASE GrantShutdown(h)
    BY <2>3 DEF GrantShutdown
  <2>4. CASE \E op \in {"fixAuto", "fixOpen", "fixSkip"}, from \in Places, to \in Places : Step(h, op, from, to)
    BY <2>4
  <2> QED
    BY <1>3, <2>1, <2>2, <2>3, <2>4 DEF FixWSLConfig
<1>4. CASE ShutdownWSL(h)
  BY <1>4 DEF ShutdownWSL, SignalShutdown, ClearShutdown
<1>5. CASE Reboot(h)
  BY <1>5 DEF Reboot
<1> QED
  BY <1>1, <1>2, <1>3, <1>4, <1>5 DEF HandlerStep

\* A handler keeps the types.
LEMMA HandlerTypes == ASSUME FlowTypes, NEW h \in Handlers, HandlerStep(h) PROVE FlowTypes'
<1>1. /\ at' \in [Handlers -> Places] /\ req' \in [Handlers -> Ops \cup {"none"}]
      /\ requests' = requests
  <2>1. PICK to \in Places : Goto(h, to)
    BY HandlerPieces
  <2>2. at' \in [Handlers -> Places] /\ requests' = requests
    BY <2>1 DEF Goto, FlowTypes, Places
  <2>3. req' \in [Handlers -> Ops \cup {"none"}]
    BY <2>1 DEF Goto, FlowTypes
  <2> QED
    BY <2>2, <2>3
<1>2. machine' \in Machine
  <2>1. machine \in Machine
    BY DEF FlowTypes
  <2>2. CASE machine' = machine
    BY <2>1, <2>2
  <2>3. CASE machine' = [machine EXCEPT !.wsl = "current"]
    BY <2>1, <2>3 DEF Machine
  <2>4. CASE machine' = [machine EXCEPT !.feature = "pending"]
    BY <2>1, <2>4 DEF Machine
  <2>5. CASE \E kind \in {"good", "skipped"} : machine' = [machine EXCEPT !.config = kind]
    BY <2>1, <2>5 DEF Machine
  <2> QED
    BY <2>2, <2>3, <2>4, <2>5, HandlerPieces
<1>3. can' \in [Permissions -> BOOLEAN]
  <2>1. can \in [Permissions -> BOOLEAN]
    BY DEF FlowTypes, Permissions
  <2>2. ASSUME NEW permission \in Permissions, NEW given \in BOOLEAN
        PROVE  [can EXCEPT ![permission] = given] \in [Permissions -> BOOLEAN]
    BY <2>1
  <2>3. [can EXCEPT !.feature = FALSE, !.reboot = TRUE] \in [Permissions -> BOOLEAN]
    BY <2>1
  <2>4. {"update", "shutdown"} \subseteq Permissions
    BY DEF Permissions
  <2> QED
    BY <2>1, <2>2, <2>3, <2>4, HandlerPieces
<1>4. token' \in [updated : {0, 1}, config : {"none", "auto", "open", "skip"}, shutdown : {0, 1}]
  BY HandlerPieces DEF FlowTypes
<1>5. main' \in MainPcs /\ err' = err /\ ctx' = ctx
  <2>1. main' \in {main, "rebooted"} /\ err' = err /\ ctx' = ctx
    BY HandlerPieces
  <2> QED
    BY <2>1 DEF FlowTypes, MainPcs
<1>6. bindAlive' = bindAlive /\ runOnce' \in BOOLEAN /\ served' \subseteq Ops
  <2>1. bindAlive' = bindAlive /\ runOnce' \in {runOnce, TRUE} /\ served' \subseteq Ops
    BY HandlerPieces
  <2> QED
    BY <2>1 DEF FlowTypes
<1> QED
  BY <1>1, <1>2, <1>3, <1>4, <1>5, <1>6 DEF FlowTypes, Permissions, Places

\* The start has the types.
LEMMA TypeStart == Init => TypeOK
<1> SUFFICES ASSUME Init PROVE TypeOK
  OBVIOUS
<1>1. EP!TypeOK
  BY NamesFit, EP!TypeStart DEF Init, Ev!Init, EP!Init
<1>2. Ev!TypeOK
  BY <1>1 DEF EP!TypeOK, Ev!TypeOK
<1>3. FlowTypes
  <2>0. can \in [Permissions -> BOOLEAN]
    <3>1. can \in [reboot : BOOLEAN, feature : BOOLEAN, update : BOOLEAN,
                   config : BOOLEAN, shutdown : BOOLEAN]
      BY DEF Init
    <3> QED
      BY <3>1 DEF Permissions
  <2>1. req \in [Handlers -> Ops \cup {"none"}] /\ at \in [Handlers -> Places]
    BY DEF Init, Places
  <2>2. token \in [updated : {0, 1}, config : {"none", "auto", "open", "skip"}, shutdown : {0, 1}]
    BY DEF Init
  <2>3. requests \in 0..MaxRequests /\ machine \in Machine /\ served \subseteq Ops
    BY MachinesAssumption, MaxRequestsAssumption DEF Init
  <2> QED
    BY <2>0, <2>1, <2>2, <2>3 DEF Init, FlowTypes, MainPcs, Permissions, Places
<1> QED
  BY <1>2, <1>3 DEF FlowTypes, TypeOK

\* Every step keeps the types.
LEMMA TypeStep == TypeOK /\ [Next]_vars => TypeOK'
<1> SUFFICES ASSUME TypeOK, [Next]_vars PROVE TypeOK'
  OBVIOUS
<1>1. Ev!TypeOK'
  <2>1. EP!TypeOK
    BY DEF TypeOK, Ev!TypeOK, EP!TypeOK
  <2>2. EP!TypeOK'
    BY <2>1, NamesFit, StepsOfEvent, EP!TypeStep
  <2> QED
    BY <2>2 DEF Ev!TypeOK, EP!TypeOK
<1>2. FlowTypes
  BY DEF TypeOK, FlowTypes
<1>3. FlowTypes'
  <2>1. ASSUME UNCHANGED <<main, err, ctx, can, token, envVars, reqVars>> PROVE FlowTypes'
    BY <1>2, <2>1 DEF FlowTypes, envVars, reqVars
  <2>2. CASE EventStep
    BY <2>1, <2>2 DEF EventStep
  <2>3. CASE BindExits \/ WaitBindPID \/ ServeFails
    BY <1>2, <2>3 DEF BindExits, WaitBindPID, ServeFails, FailCtx, FlowTypes, envVars, reqVars
  <2>4. ASSUME NEW h \in Handlers, NEW op \in Ops, Accept(h, op) PROVE FlowTypes'
    <3>1. /\ at' \in [Handlers -> Places] /\ req' \in [Handlers -> Ops \cup {"none"}]
          /\ requests' \in 0..MaxRequests
      BY <1>2, <2>4, MaxRequestsAssumption DEF Accept, FlowTypes, Places
    <3> QED
      BY <1>2, <2>4, <3>1 DEF Accept, FlowTypes, envVars, Places
  <2>5. CASE UNCHANGED vars
    BY <2>1, <2>5 DEF vars
  <2> QED
    BY <1>2, <2>2, <2>3, <2>4, <2>5, MainTypes, HandlerTypes DEF Next
<1> QED
  BY <1>1, <1>3 DEF FlowTypes, TypeOK

\* The variables of init keep their types (InitContext, routerInit).
THEOREM InitTypes == Spec => []TypeOK
BY TypeStart, TypeStep, PTL DEF Spec

-----------------------------------------------------------------------------
(* What was said *)

\* A notification adds its own name at most.
LEMMA SaidByNotify ==
  ASSUME TypeOK, NEW p \in Handlers \cup {"main"}, NEW name \in InitNames, Ev!Notify(p, name),
         NEW n, Said(n)'
  PROVE  Said(n) \/ n = name
<1>1. EP!TypeOK
  BY DEF TypeOK, Ev!TypeOK, EP!TypeOK
<1>2. CASE EP!Enqueue(p, name)
  <2>1. /\ Len(EP!accepted') = Len(EP!accepted) + 1
        /\ \A i \in 1..Len(EP!accepted) : EP!accepted'[i] = EP!accepted[i]
        /\ EP!accepted'[Len(EP!accepted) + 1] = name
    BY <1>1, <1>2, NamesFit, EP!EnqueueAppends
  <2>2. Len(EP!accepted) \in Nat
    BY <1>1, NamesFit, EP!AcceptedFacts
  <2>3. Accepted = EP!accepted /\ Accepted' = EP!accepted'
    BY DEF Accepted, Ev!accepted, EP!accepted
  <2> QED
    BY <2>1, <2>2, <2>3 DEF Said
<1>3. CASE UNCHANGED <<queue, processed>>
  BY <1>3 DEF Said, Accepted, Ev!accepted
<1>4. EP!Enqueue(p, name) \/ UNCHANGED <<queue, processed>>
  BY NotifyIsStep DEF EP!Notify, EP!Ignored, EP!SendOnClosed, EP!vars
<1> QED
  BY <1>2, <1>3, <1>4

\* Only the end of main says Success, and only the last step of Install NeedReboot.
LEMMA SaidGrows ==
  ASSUME TypeOK, [Next]_vars
  PROVE  /\ Said("Success")' => Said("Success") \/ (main = "result" /\ main' = "exit" /\ ~err)
         /\ Said("NeedReboot")' =>
              Said("NeedReboot") \/ \E h \in Handlers : req[h] = "enable" /\ at[h] = "last"
<1>1. ASSUME UNCHANGED Accepted PROVE \A n : Said(n)' => Said(n)
  BY <1>1 DEF Said
<1>2. ASSUME UNCHANGED <<queue, processed>> PROVE \A n : Said(n)' => Said(n)
  BY <1>1, <1>2 DEF Accepted, Ev!accepted
<1>3. CASE MainStep
  <2>1. CASE UNCHANGED evVars \/ Ev!Setup
    BY <1>2, <2>1 DEF evVars, Ev!Setup
  <2>2. ASSUME NEW name \in InitNames \ {"NeedReboot"}, Ev!Notify("main", name),
               name = "Success" => main = "result" /\ main' = "exit" /\ ~err
        PROVE  /\ Said("Success")' => Said("Success") \/ (main = "result" /\ main' = "exit" /\ ~err)
               /\ Said("NeedReboot")' => Said("NeedReboot")
    BY <2>2, SaidByNotify
  <2> QED
    BY <1>3, <2>1, <2>2, MainEvents
<1>4. ASSUME NEW h \in Handlers, HandlerStep(h)
      PROVE  /\ Said("Success")' => Said("Success")
             /\ Said("NeedReboot")' => Said("NeedReboot") \/ (req[h] = "enable" /\ at[h] = "last")
  <2>1. CASE UNCHANGED evVars
    BY <1>2, <2>1 DEF evVars
  <2>2. ASSUME NEW name \in InitNames \ {"Success", "Exit"}, Ev!Notify(h, name),
               name = "NeedReboot" => req[h] = "enable" /\ at[h] = "last"
        PROVE  /\ Said("Success")' => Said("Success")
               /\ Said("NeedReboot")' => Said("NeedReboot") \/ (req[h] = "enable" /\ at[h] = "last")
    BY <2>2, SaidByNotify
  <2> QED
    BY <1>4, <2>1, <2>2, HandlerEvents
<1>5. CASE EventStep
  <2>1. CASE Ev!Deliver
    <3>1. EP!TypeOK /\ EP!Deliver
      BY <2>1 DEF TypeOK, Ev!TypeOK, EP!TypeOK, Ev!Deliver, EP!Deliver
    <3>2. EP!accepted' = EP!accepted
      BY <3>1, NamesFit, EP!DeliverKeeps
    <3> QED
      BY <1>1, <3>2 DEF Accepted, Ev!accepted, EP!accepted
  <2>2. ASSUME NEW p \in Handlers \cup {"main"}, Ev!Proceed(p) PROVE UNCHANGED <<queue, processed>>
    BY <2>2 DEF Ev!Proceed, Ev!Handoff, Ev!ReceiveClosed, Ev!CloseDone, Ev!CloseQueue
  <2> QED
    BY <1>2, <1>5, <2>1, <2>2 DEF EventStep
<1>6. CASE BindExits \/ WaitBindPID \/ ServeFails
  BY <1>2, <1>6 DEF BindExits, WaitBindPID, ServeFails, FailCtx, evVars
<1>7. ASSUME NEW h \in Handlers, NEW op \in Ops, Accept(h, op) PROVE UNCHANGED <<queue, processed>>
  BY <1>7 DEF Accept, evVars
<1>8. CASE UNCHANGED vars
  BY <1>2, <1>8 DEF vars, evVars
<1> QED
  BY <1>2, <1>3, <1>4, <1>5, <1>6, <1>7, <1>8 DEF Next

-----------------------------------------------------------------------------
(* What a step may change *)

\* A handler and the machine.
LEMMA HandlerMachine ==
  ASSUME FlowTypes, NEW h \in Handlers, HandlerStep(h)
  PROVE  /\ machine'.build = machine.build /\ machine'.virt = machine.virt
         /\ machine'.wsl \in {machine.wsl, "current"}
         /\ machine'.config \in {machine.config, "good", "skipped"}
         /\ \/ machine'.feature = machine.feature /\ can'.reboot = can.reboot
            \/ req[h] = "enable" /\ machine'.feature = "pending" /\ can'.reboot
         /\ can'.feature => can.feature
<1> USE DEF FlowTypes, Machine, Permissions, envVars, HandlerAt
<1>1. ASSUME UNCHANGED <<machine, can>>
      PROVE  /\ machine'.feature = machine.feature /\ can'.reboot = can.reboot
             /\ machine'.build = machine.build /\ machine'.virt = machine.virt
             /\ machine'.wsl = machine.wsl /\ machine'.config = machine.config
             /\ can'.feature = can.feature
  BY <1>1
<1>2. CASE Update(h)
  BY <1>1, <1>2 DEF Update, Say, Step, InstallWSL, SignalUpdated
<1>3. CASE Install(h)
  BY <1>1, <1>3 DEF Install, Say, Step, RunDism, GrantReboot
<1>4. CASE FixWSLConfig(h)
  BY <1>1, <1>4 DEF FixWSLConfig, Step, Repair, SignalConfig, GrantShutdown
<1>5. CASE ShutdownWSL(h)
  BY <1>1, <1>5 DEF ShutdownWSL, Step, SignalShutdown, ClearShutdown
<1>6. CASE Reboot(h)
  BY <1>1, <1>6 DEF Reboot, Step
<1> QED
  BY <1>2, <1>3, <1>4, <1>5, <1>6 DEF HandlerStep

\* A handler and the places of the others.
LEMMA HandlerFrame ==
  ASSUME FlowTypes, NEW h \in Handlers, HandlerStep(h)
  PROVE  /\ \A k \in Handlers : k # h => at'[k] = at[k] /\ req'[k] = req[k]
         /\ at[h] # "idle"
         /\ req'[h] = IF at'[h] = "idle" THEN "none" ELSE req[h]
         /\ requests' = requests
<1>1. PICK to \in Places : Goto(h, to)
  BY HandlerPieces
<1>2. at[h] # "idle"
  BY DEF HandlerStep, Update, Install, FixWSLConfig, ShutdownWSL, Reboot, Say, Step, HandlerAt,
     InstallWSL, SignalUpdated, RunDism, GrantReboot, Repair, SignalConfig, GrantShutdown,
     SignalShutdown, ClearShutdown
<1> QED
  BY <1>1, <1>2 DEF Goto, FlowTypes

\* A handler, the channels and the permissions that go with them.
LEMMA HandlerTokens ==
  ASSUME FlowTypes, NEW h \in Handlers, HandlerStep(h)
  PROVE  /\ can'.update = can.update \/ (req'[h] = "update" /\ at'[h] = "told")
         /\ can.shutdown => can'.shutdown \/ at[h] = "clear"
         /\ \/ token'.updated = token.updated
            \/ token'.updated = 1 /\ req[h] = "update" /\ at[h] = "signal"
         /\ token'.config = "open" => token.config = "open" \/ (req[h] = "fixOpen" /\ at[h] = "signal")
         /\ token'.shutdown \in {token.shutdown, 1}
         /\ at'[h] = "clear" => token'.shutdown = 1
         /\ req'[h] = "fixOpen" /\ at'[h] \in {"open", "signal"} =>
              can'.shutdown \/ (at[h] = "open" /\ req[h] = "fixOpen" /\ can'.shutdown = can.shutdown)
         /\ req[h] = "update" /\ at[h] \in {"told", "signal"} =>
              (req'[h] = "update" /\ at'[h] = "signal") \/ token'.updated = 1
<1> USE DEF FlowTypes, Permissions, envVars, HandlerAt, Goto
<1>2. CASE Update(h)
  BY <1>2 DEF Update, Say, Step, InstallWSL, SignalUpdated
<1>3. CASE Install(h)
  BY <1>3 DEF Install, Say, Step, RunDism, GrantReboot
<1>4. CASE FixWSLConfig(h)
  BY <1>4 DEF FixWSLConfig, Step, Repair, SignalConfig, GrantShutdown
<1>5. CASE ShutdownWSL(h)
  BY <1>5 DEF ShutdownWSL, Step, SignalShutdown, ClearShutdown
<1>6. CASE Reboot(h)
  BY <1>6 DEF Reboot, Step
<1> QED
  BY <1>2, <1>3, <1>4, <1>5, <1>6 DEF HandlerStep

\* A handler and what it tells main.
LEMMA HandlerServes ==
  ASSUME FlowTypes, NEW h \in Handlers, HandlerStep(h)
  PROVE  /\ token'.config = "auto" =>
              token.config = "auto" \/ (req[h] = "fixAuto" /\ at[h] = "signal")
         /\ token'.config = "open" => token.config = "open" \/ "fixOpen" \in served'
         /\ token'.config = "skip" => token.config = "skip" \/ "fixSkip" \in served'
         /\ token'.shutdown = 1 => token.shutdown = 1 \/ "shutdown" \in served'
         /\ req'[h] = "fixAuto" /\ at'[h] = "signal" => machine'.config = "good"
<1> USE DEF FlowTypes, Machine, envVars, HandlerAt, Goto
<1>2. CASE Update(h)
  BY <1>2 DEF Update, Say, Step, InstallWSL, SignalUpdated
<1>3. CASE Install(h)
  BY <1>3 DEF Install, Say, Step, RunDism, GrantReboot
<1>4. CASE FixWSLConfig(h)
  BY <1>4 DEF FixWSLConfig, Step, Repair, SignalConfig, GrantShutdown
<1>5. CASE ShutdownWSL(h)
  BY <1>5 DEF ShutdownWSL, Step, SignalShutdown, ClearShutdown
<1>6. CASE Reboot(h)
  BY <1>6 DEF Reboot, Step
<1> QED
  BY <1>2, <1>3, <1>4, <1>5, <1>6 DEF HandlerStep

\* A handler and the places that promise something.
LEMMA HandlerPlaces ==
  ASSUME FlowTypes, NEW h \in Handlers, HandlerStep(h)
  PROVE  /\ at'[h] = "set" => req[h] = "reboot" /\ runOnce'
         /\ runOnce => runOnce'
         /\ main' = main \/ (main' = "rebooted" /\ at[h] = "set")
         /\ req'[h] = "enable" /\ at'[h] \in {"told", "last"} =>
              can'.reboot \/ (req[h] = "enable" /\ at[h] = "told")
         /\ req'[h] = "update" /\ at'[h] \in {"told", "signal"} =>
              machine'.wsl = "current" \/ (req[h] = "update" /\ at[h] = "told")
<1> USE DEF FlowTypes, Machine, Permissions, envVars, HandlerAt, Goto
<1>2. CASE Update(h)
  BY <1>2 DEF Update, Say, Step, InstallWSL, SignalUpdated
<1>3. CASE Install(h)
  <2>1. CASE GrantReboot(h)
    BY <2>1 DEF GrantReboot
  <2>2. CASE RunDism(h, "dism1", "dism2") \/ RunDism(h, "dism2", "enabled")
    BY <2>2 DEF RunDism
  <2>3. CASE Step(h, "enable", "dism1", "failed") \/ Say(h, "enable", "failed", "EnableFeatureFailed", "idle")
    BY <2>3 DEF Say, Step
  <2>4. CASE Say(h, "enable", "told", "EnableFeatureSuccess", "last")
    BY <2>4 DEF Say
  <2>5. CASE Say(h, "enable", "begin", "EnableFeaturing", "dism1") \/ Say(h, "enable", "last", "NeedReboot", "idle")
    BY <2>5 DEF Say
  <2> QED
    BY <1>3, <2>1, <2>2, <2>3, <2>4, <2>5 DEF Install
<1>4. CASE FixWSLConfig(h)
  BY <1>4 DEF FixWSLConfig, Step, Repair, SignalConfig, GrantShutdown
<1>5. CASE ShutdownWSL(h)
  BY <1>5 DEF ShutdownWSL, Step, SignalShutdown, ClearShutdown
<1>6. CASE Reboot(h)
  BY <1>6 DEF Reboot, Step
<1> QED
  BY <1>2, <1>3, <1>4, <1>5, <1>6 DEF HandlerStep

\* Main: what it never touches, and the order of its places.
LEMMA MainOrder ==
  ASSUME FlowTypes, MainStep
  PROVE  /\ UNCHANGED <<envVars, reqVars>>
         /\ main # "rebooted" /\ main' # "rebooted"
         /\ main' \in UntilFeature => main \in UntilFeature
         /\ main' \in UntilUpdate => main \in UntilUpdate
         /\ main \in {"return"} \cup Over => main' \in Over
         /\ main \in {"exit", "end", "exited"} => main' \in {"end", "exited"}
         /\ main' = "awaitShutdown" => main # "awaitShutdown" /\ token.config = "open"
         /\ main' = "awaitUpdate" => can'.update
<1> USE DEF MainAt, MainSay, MainGrant, MainMove, MainFail, Return, Alive, Over, UntilUpdate,
            UntilFeature
<1>1. CASE SetupEvents \/ CheckSupport \/ StartServer
  BY <1>1 DEF SetupEvents, CheckSupport, StartServer, MainStep
<1>2. CASE CheckVersion
  BY <1>2 DEF CheckVersion, Abandon, MainStep, FlowTypes
<1>3. CASE CheckFeature \/ CheckVirtualization
  BY <1>3 DEF CheckFeature, CheckVirtualization, Abandon, MainStep
<1>4. CASE CheckConfig
  BY <1>4 DEF CheckConfig, Abandon, MainStep
<1>5. CASE Report
  BY <1>5 DEF Report, MainStep
<1> QED
  BY <1>1, <1>2, <1>3, <1>4, <1>5 DEF MainStep

\* Main: the permissions, the channels and the context.
LEMMA MainEffects ==
  ASSUME FlowTypes, MainStep
  PROVE  /\ can'.reboot = can.reboot /\ can'.shutdown = can.shutdown
         /\ can'.feature => can.feature \/ main' = "awaitDone"
         /\ token'.updated = 1 => token.updated = 1
         /\ token'.shutdown = token.shutdown \/ main' = "return"
         /\ token'.config \in {token.config, "none"}
         /\ err => err'
         /\ ctx' = ctx \/ (ctx = "live" /\ ctx' = "cancelled" /\ main' = "result")
<1> USE DEF MainAt, MainSay, MainGrant, MainMove, MainFail, Return, FlowTypes
<1>1. CASE SetupEvents \/ CheckSupport \/ StartServer
  BY <1>1 DEF SetupEvents, CheckSupport, StartServer
<1>2. CASE CheckVersion
  BY <1>2 DEF CheckVersion, Abandon
<1>3. CASE CheckFeature \/ CheckVirtualization
  BY <1>3 DEF CheckFeature, CheckVirtualization, Abandon
<1>4. CASE CheckConfig
  BY <1>4 DEF CheckConfig, Abandon
<1>5. CASE Report
  BY <1>5 DEF Report
<1> QED
  BY <1>1, <1>2, <1>3, <1>4, <1>5 DEF MainStep

\* Main passes a check only when it passes or was repaired, or the context ended.
LEMMA MainPasses ==
  ASSUME FlowTypes, MainStep, ~err', ctx = "live" \/ main \in Over
  PROVE  /\ main' \in PastSupport => main \in PastSupport \/ SupportWSL2(machine.build)
         /\ main' \in PastVersion =>
              main \in PastVersion \/ machine.wsl = "current" \/ token.updated = 1
         /\ main' \in PastFeature => main \in PastFeature \/ (main = "feature" /\ IsFeatureEnabled)
         /\ main' \in PastBios => main \in PastBios \/ CheckBIOS
         /\ main' \in Settled =>
              \/ main \in Settled
              \/ ConfigPasses
              \/ main = "awaitConfig" /\ token.config \in {"auto", "skip"}
              \/ main = "awaitShutdown" /\ token.shutdown = 1
<1> USE DEF Over, PastSupport, PastVersion, PastFeature, PastBios, PastConfig, Settled
<1>0. token.config \in {"none", "auto", "open", "skip"}
  BY DEF FlowTypes
<1>1. CASE SetupEvents \/ CheckSupport \/ StartServer
  BY <1>1 DEF SetupEvents, CheckSupport, StartServer,
        MainAt, MainSay, MainGrant, MainMove, MainFail, Return
<1>2. CASE CheckVersion
  BY <1>2 DEF CheckVersion, Abandon, ShouldUpdateWSL,
        MainAt, MainSay, MainGrant, MainMove, MainFail, Return
<1>3. CASE CheckFeature
  BY <1>3 DEF CheckFeature, Abandon,
        MainAt, MainSay, MainGrant, MainMove, MainFail, Return
<1>4. CASE CheckVirtualization
  BY <1>4 DEF CheckVirtualization,
        MainAt, MainSay, MainGrant, MainMove, MainFail, Return
<1>5. CASE CheckConfig
  <2>1. \/ main = "config" /\ main' \in {"result", "grantConfig"} /\ (main' = "result" => ConfigPasses)
        \/ main = "grantConfig" /\ main' = "awaitConfig"
        \/ main = "awaitConfig" /\ ctx # "live"
        \/ main = "awaitConfig" /\ main' = "awaitShutdown"
        \/ main = "awaitConfig" /\ main' = "return" /\ token.config \in {"auto", "skip"}
        \/ main = "awaitShutdown" /\ main' = "return" /\ token.shutdown = 1
        \/ main = "return" /\ main' = "result"
    BY <1>0, <1>5 DEF CheckConfig, Abandon,
        MainAt, MainSay, MainGrant, MainMove, MainFail, Return
  <2> QED
    BY <2>1
<1>6. CASE Report
  <2>1. \/ main = "unsupported" /\ err'
        \/ main = "result" /\ main' = "exit"
        \/ main = "exit" /\ main' = "end"
        \/ main = "end" /\ main' = "exited"
    BY <1>6 DEF Report,
        MainAt, MainSay, MainGrant, MainMove, MainFail, Return
  <2> QED
    BY <2>1
<1> QED
  BY <1>1, <1>2, <1>3, <1>4, <1>5, <1>6 DEF MainStep

\* Every step: what was found good or repaired stays so.
LEMMA ChecksKeep ==
  ASSUME FlowTypes, [Next]_vars
  PROVE  /\ SupportWSL2(machine.build) => SupportWSL2(machine'.build)
         /\ machine.wsl = "current" => machine'.wsl = "current"
         /\ CheckBIOS => CheckBIOS'
         /\ (ConfigPasses => ConfigPasses') /\ served \subseteq served'
         /\ NoFeature /\ IsFeatureEnabled =>
              (NoFeature /\ IsFeatureEnabled)' \/ main' = "awaitDone"
<1> DEFINE Kept ==
      /\ SupportWSL2(machine.build) => SupportWSL2(machine'.build)
      /\ machine.wsl = "current" => machine'.wsl = "current"
      /\ CheckBIOS => CheckBIOS'
      /\ (ConfigPasses => ConfigPasses') /\ served \subseteq served'
      /\ NoFeature /\ IsFeatureEnabled => (NoFeature /\ IsFeatureEnabled)' \/ main' = "awaitDone"
<1> SUFFICES Kept
  OBVIOUS
<1> USE DEF CheckBIOS, ConfigPasses, NoFeature, IsFeatureEnabled
<1>1. CASE MainStep
  BY <1>1, MainOrder, MainEffects DEF envVars, reqVars
<1>2. ASSUME NEW h \in Handlers, HandlerStep(h) PROVE Kept
  <2>1. IsFeatureEnabled /\ NoFeature => machine'.feature = machine.feature
    BY <1>2, HandlerMachine
  <2>2. NoFeature => NoFeature'
    BY <1>2, HandlerMachine, HandlerFrame
  <2> QED
    BY <1>2, <2>1, <2>2, HandlerMachine, HandlerPieces
<1>3. CASE UNCHANGED <<machine, can, served, req>>
  BY <1>3
<1>4. EventStep \/ WaitBindPID \/ ServeFails \/ BindExits \/ UNCHANGED vars
        => UNCHANGED <<machine, can, served, req>>
  BY DEF EventStep, WaitBindPID, ServeFails, BindExits, FailCtx, vars, envVars, reqVars
<1>5. ASSUME NEW h \in Handlers, NEW op \in Ops, Accept(h, op) PROVE Kept
  <2>1. NoFeature => op # "enable"
    BY <1>5 DEF Accept, Permission, Ops
  <2>2. /\ machine' = machine /\ can' = can /\ served' = served
        /\ NoFeature => NoFeature'
    BY <1>5, <2>1 DEF Accept, envVars, FlowTypes
  <2> QED
    BY <2>2
<1> QED
  BY <1>1, <1>2, <1>3, <1>4, <1>5 DEF Next

\* A configuration that is settled stays so.
LEMMA SettledStays == ASSUME FlowTypes, [Next]_vars PROVE ConfigSettled => ConfigSettled'
BY ChecksKeep DEF ConfigSettled

\* Main uses up wake-ups and sends none.
LEMMA MainTokens == ASSUME FlowTypes, MainStep PROVE token'.shutdown = 1 => token.shutdown = 1
<1> USE DEF MainAt, MainSay, MainGrant, MainMove, MainFail, Return, FlowTypes
<1>1. CASE SetupEvents \/ CheckSupport \/ StartServer
  BY <1>1 DEF SetupEvents, CheckSupport, StartServer
<1>2. CASE CheckVersion
  BY <1>2 DEF CheckVersion, Abandon
<1>3. CASE CheckFeature \/ CheckVirtualization \/ Report
  BY <1>3 DEF CheckFeature, CheckVirtualization, Report, Abandon
<1>4. CASE CheckConfig
  BY <1>4 DEF CheckConfig, Abandon
<1> QED
  BY <1>1, <1>2, <1>3, <1>4 DEF MainStep

\* The steps that belong neither to main nor to a request.
LEMMA Steps ==
  ASSUME FlowTypes, [Next]_vars
  PROVE  \/ MainStep
         \/ \E h \in Handlers : HandlerStep(h)
         \/ \E h \in Handlers, op \in Ops : Accept(h, op)
         \/ /\ UNCHANGED <<main, err, machine, can, token, reqVars>>
            /\ ctx' = ctx \/ ctx' = "failed"
BY DEF Next, EventStep, BindExits, WaitBindPID, ServeFails, FailCtx, vars, envVars

\* A request that is accepted.
LEMMA AcceptFrame ==
  ASSUME FlowTypes, NEW h \in Handlers, NEW op \in Ops, Accept(h, op)
  PROVE  /\ UNCHANGED <<main, err, ctx, machine, can, token, runOnce, served, evVars>>
         /\ \A k \in Handlers : k # h => at'[k] = at[k] /\ req'[k] = req[k]
         /\ at[h] = "idle" /\ at'[h] = "begin" /\ req'[h] = op
         /\ op = "reboot" => can.reboot
         /\ op = "enable" => can.feature
         /\ main \notin {"setup", "support", "unsupported", "listen"}
BY DEF Accept, FlowTypes, Permission, Ops, envVars, Started

-----------------------------------------------------------------------------
(* The reboot *)

\* The promises about the reboot are kept.
LEMMA RebootStep ==
  ASSUME TypeOK, RebootInv, [Next]_vars
  PROVE  RebootInv'
<1>0. FlowTypes
  BY DEF TypeOK, FlowTypes
<1>1. Said("NeedReboot")' => Said("NeedReboot") \/ \E h \in Handlers : req[h] = "enable" /\ at[h] = "last"
  BY SaidGrows
<1>2. Said("NeedReboot")' => can.reboot
  BY <1>1 DEF RebootInv
<1>3. CASE MainStep
  BY <1>0, <1>2, <1>3, MainOrder, MainEffects DEF RebootInv, RebootPrepared, envVars, reqVars
<1>4. ASSUME NEW h \in Handlers, HandlerStep(h) PROVE RebootInv'
  <2>1. (can.reboot => can'.reboot) /\ (can'.reboot => machine'.feature = "pending")
    BY <1>0, <1>4, HandlerMachine DEF RebootInv
  <2>2. ASSUME NEW k \in Handlers
        PROVE  /\ req'[k] = "reboot" => can'.reboot
               /\ at'[k] = "set" => req'[k] = "reboot" /\ runOnce'
               /\ req'[k] = "enable" /\ at'[k] \in {"told", "last"} => can'.reboot
    <3>1. CASE k = h
      BY <1>0, <1>4, <2>1, <3>1, HandlerFrame, HandlerPlaces DEF RebootInv
    <3>2. CASE k # h
      BY <1>0, <1>4, <2>1, <3>2, HandlerFrame, HandlerPlaces DEF RebootInv
    <3> QED
      BY <3>1, <3>2
  <2>3. RebootPrepared'
    <3>1. main # "rebooted"
      BY <1>4 DEF HandlerStep, Alive
    <3> QED
      BY <1>0, <1>4, <2>1, <3>1, HandlerPlaces DEF RebootInv, RebootPrepared
  <2> QED
    BY <1>2, <2>1, <2>2, <2>3 DEF RebootInv
<1>5. ASSUME NEW h \in Handlers, NEW op \in Ops, Accept(h, op) PROVE RebootInv'
  <2>1. ASSUME NEW k \in Handlers
        PROVE  /\ req'[k] = "reboot" => can.reboot
               /\ at'[k] = "set" => req'[k] = "reboot" /\ runOnce
               /\ req'[k] = "enable" /\ at'[k] \in {"told", "last"} => can.reboot
    BY <1>0, <1>5, AcceptFrame DEF RebootInv
  <2> QED
    BY <1>0, <1>2, <1>5, <2>1, AcceptFrame DEF RebootInv, RebootPrepared
<1>6. CASE UNCHANGED <<main, machine, can, reqVars>>
  BY <1>2, <1>6 DEF RebootInv, RebootPrepared, reqVars
<1> QED
  BY <1>0, <1>3, <1>4, <1>5, <1>6, Steps

\* They hold at the start.
LEMMA RebootStart == Init => RebootInv
BY EmptySeq, ConcatEmptySeq DEF Init, RebootInv, RebootPrepared, Said, Accepted, Ev!accepted, Ev!Init

\* The machine reboots only with the features enabled and RunOnce set
\* (install.go:68-70, restful/init.go:66-97).
THEOREM RebootsPrepared == Spec => []RebootPrepared
<1>1. TypeOK /\ RebootInv /\ [Next]_vars => (TypeOK /\ RebootInv)'
  BY TypeStep, RebootStep
<1>2. RebootInv => RebootPrepared
  BY DEF RebootInv
<1> QED
  BY <1>1, <1>2, TypeStart, RebootStart, PTL DEF Spec

\* Whoever was sent NeedReboot may reboot (install.go:41-44, 67-70).
THEOREM NeedRebootGrants == Spec => []RebootGrantedWhenTold
<1>1. TypeOK /\ RebootInv /\ [Next]_vars => (TypeOK /\ RebootInv)'
  BY TypeStep, RebootStep
<1>2. TypeOK /\ RebootInv => RebootGrantedWhenTold
  <2> SUFFICES ASSUME TypeOK, RebootInv, NEW i \in 1..Len(processed), processed[i] = "NeedReboot"
               PROVE  can.reboot /\ machine.feature = "pending"
    BY DEF RebootGrantedWhenTold
  <2>1. EP!TypeOK
    BY DEF TypeOK, Ev!TypeOK, EP!TypeOK
  <2>2. /\ Len(EP!accepted) = Len(processed) + Len(queue)
        /\ Len(processed) \in Nat /\ Len(queue) \in Nat
        /\ EP!accepted[i] = processed[i]
    BY <2>1, NamesFit, EP!AcceptedFacts
  <2>3. Said("NeedReboot")
    BY <2>2 DEF Said, Accepted, Ev!accepted, EP!accepted
  <2> QED
    BY <2>3 DEF RebootInv
<1> QED
  BY <1>1, <1>2, TypeStart, RebootStart, PTL DEF Spec

-----------------------------------------------------------------------------
(* The update *)

\* Before main has granted the features, nobody enables them; before main has
\* left the wait for the update, no notification waits or panics.
LEMMA EarlyStep ==
  ASSUME TypeOK, EarlyInv, [Next]_vars
  PROVE  EarlyInv'
<1>0. FlowTypes
  BY DEF TypeOK, FlowTypes
<1>1. ASSUME main' \in UntilFeature PROVE NoFeature'
  <2>1. CASE MainStep
    <3>1. NoFeature /\ can'.feature = FALSE
      BY <1>0, <1>1, <2>1, MainOrder, MainEffects DEF EarlyInv, UntilFeature, UntilUpdate, NoFeature
    <3> QED
      BY <1>0, <2>1, <3>1, MainOrder DEF NoFeature, reqVars
  <2>2. ASSUME NEW h \in Handlers, HandlerStep(h) PROVE NoFeature'
    <3>1. NoFeature
      BY <1>0, <1>1, <2>2, HandlerPlaces DEF EarlyInv, UntilFeature, UntilUpdate
    <3> QED
      BY <1>0, <2>2, <3>1, HandlerMachine, HandlerFrame DEF NoFeature
  <2>3. ASSUME NEW h \in Handlers, NEW op \in Ops, Accept(h, op) PROVE NoFeature'
    BY <1>0, <1>1, <2>3, AcceptFrame DEF EarlyInv, NoFeature
  <2>4. CASE UNCHANGED <<main, can, reqVars>>
    BY <1>1, <2>4 DEF EarlyInv, NoFeature, reqVars
  <2> QED
    BY <1>0, <2>1, <2>2, <2>3, <2>4, Steps
<1>2. ASSUME main' \in UntilUpdate, main \in UntilUpdate
      PROVE  ~closed' /\ \A p \in Handlers \cup {"main"} : caller'[p] = "out"
  <2>0. ~closed /\ (\A p \in Handlers \cup {"main"} : caller[p] = "out") /\ NoFeature
    BY <1>2 DEF EarlyInv, UntilFeature
  <2>1. ASSUME NEW p \in Handlers \cup {"main"}, NEW name \in InitNames \ {"Exit", "NeedReboot"},
               Ev!Notify(p, name)
        PROVE  UNCHANGED <<closed, caller>>
    BY <2>0, <2>1 DEF Ev!Notify, Ev!Ignored, Ev!Enqueue, Ev!SendOnClosed, Ev!vars
  <2>2. CASE MainStep
    <3>1. main # "exit"
      BY <1>2 DEF UntilUpdate
    <3> QED
      BY <2>0, <2>1, <2>2, <3>1, MainEvents DEF evVars, Ev!Setup
  <2>3. ASSUME NEW h \in Handlers, HandlerStep(h) PROVE UNCHANGED <<closed, caller>>
    <3>1. req[h] # "enable"
      BY <2>0, <2>3 DEF NoFeature
    <3> QED
      BY <2>1, <2>3, <3>1, HandlerEvents DEF evVars
  <2>4. CASE EventStep
    BY <2>0, <2>4 DEF EventStep, Ev!Deliver, Ev!Proceed, Ev!Handoff, Ev!ReceiveClosed,
       Ev!CloseDone, Ev!CloseQueue
  <2>5. CASE BindExits \/ WaitBindPID \/ ServeFails \/ UNCHANGED vars
    BY <2>0, <2>5 DEF BindExits, WaitBindPID, ServeFails, FailCtx, vars, evVars
  <2>6. ASSUME NEW h \in Handlers, NEW op \in Ops, Accept(h, op) PROVE UNCHANGED <<closed, caller>>
    BY <1>0, <2>6, AcceptFrame DEF evVars
  <2> QED
    BY <2>0, <2>2, <2>3, <2>4, <2>5, <2>6 DEF Next
<1>3. main' \in UntilUpdate => main \in UntilUpdate
  BY <1>0, Steps, MainOrder, HandlerPlaces, AcceptFrame DEF UntilUpdate
<1> QED
  BY <1>1, <1>2, <1>3 DEF EarlyInv

\* The wake-up of the update is kept.
LEMMA WakeupStep ==
  ASSUME TypeOK, EarlyInv, UpdateWakeup, [Next]_vars
  PROVE  UpdateWakeup'
<1>0. FlowTypes
  BY DEF TypeOK, FlowTypes
<1> SUFFICES ASSUME main' = "awaitUpdate", ~can'.update
             PROVE  \/ token'.updated = 1
                    \/ \E h \in Handlers : /\ req'[h] = "update" /\ at'[h] \in {"told", "signal"}
                                           /\ caller'[h] # "panicked"
  BY DEF UpdateWakeup
<1>1. \A h \in Handlers : caller'[h] = "out"
  BY EarlyStep DEF EarlyInv, UntilUpdate
<1>2. CASE MainStep
  BY <1>0, <1>2, MainOrder
<1>3. ASSUME NEW h \in Handlers, HandlerStep(h)
      PROVE  \/ token'.updated = 1
             \/ \E k \in Handlers : req'[k] = "update" /\ at'[k] \in {"told", "signal"}
  <2>1. main = "awaitUpdate"
    BY <1>0, <1>3, HandlerPlaces
  <2>2. CASE can.update
    BY <1>0, <1>3, <2>2, HandlerTokens
  <2>3. CASE token.updated = 1
    BY <1>0, <1>3, <2>3, HandlerTokens
  <2>4. ASSUME NEW k \in Handlers, req[k] = "update", at[k] \in {"told", "signal"}
        PROVE  token'.updated = 1 \/ (req'[k] = "update" /\ at'[k] \in {"told", "signal"})
    <3>1. CASE k = h
      BY <1>0, <1>3, <2>4, <3>1, HandlerTokens
    <3>2. CASE k # h
      BY <1>0, <1>3, <2>4, <3>2, HandlerFrame
    <3> QED
      BY <3>1, <3>2
  <2> QED
    BY <2>1, <2>2, <2>3, <2>4 DEF UpdateWakeup
<1>4. ASSUME NEW h \in Handlers, NEW op \in Ops, Accept(h, op)
      PROVE  \/ token'.updated = 1
             \/ \E k \in Handlers : req'[k] = "update" /\ at'[k] \in {"told", "signal"}
  BY <1>0, <1>4, AcceptFrame DEF UpdateWakeup
<1>5. CASE UNCHANGED <<main, can, token, reqVars>>
  BY <1>1, <1>5 DEF UpdateWakeup, reqVars
<1> QED
  BY <1>0, <1>1, <1>2, <1>3, <1>4, <1>5, Steps

\* Both hold at the start.
LEMMA EarlyStart == Init => EarlyInv /\ UpdateWakeup
BY DEF Init, EarlyInv, NoFeature, UpdateWakeup, Ev!Init

\* Main never waits for an update that nobody can bring any more
\* (install.go:165, restful/init.go:126, check.go:71-84).
THEOREM UpdateAlwaysWakes == Spec => []UpdateWakeup
<1>1. TypeOK /\ EarlyInv /\ UpdateWakeup /\ [Next]_vars => (TypeOK /\ EarlyInv /\ UpdateWakeup)'
  BY TypeStep, EarlyStep, WakeupStep
<1> QED
  BY <1>1, TypeStart, EarlyStart, PTL DEF Spec

-----------------------------------------------------------------------------
(* The shutdown *)

\* What main may wait for stays permitted or has happened.
LEMMA ShutStep ==
  ASSUME TypeOK, ShutInv, [Next]_vars
  PROVE  ShutInv'
<1>0. FlowTypes
  BY DEF TypeOK, FlowTypes
<1> SUFFICES ASSUME main' \notin {"return", "rebooted"} \cup Over
             PROVE  /\ \A h \in Handlers : at'[h] = "clear" => token'.shutdown = 1
                    /\ \/ token'.config = "open" \/ main' = "awaitShutdown"
                       \/ \E h \in Handlers : req'[h] = "fixOpen" /\ at'[h] \in {"open", "signal"}
                       => can'.shutdown \/ token'.shutdown = 1
  BY DEF ShutInv
<1>1. main \notin {"return", "rebooted"} \cup Over
  BY <1>0, Steps, MainOrder, HandlerPlaces, AcceptFrame DEF HandlerStep, Alive, Over
<1> DEFINE Wanted == \/ token.config = "open" \/ main = "awaitShutdown"
                     \/ \E h \in Handlers : req[h] = "fixOpen" /\ at[h] \in {"open", "signal"}
<1>2. /\ \A h \in Handlers : at[h] = "clear" => token.shutdown = 1
      /\ Wanted => can.shutdown \/ token.shutdown = 1
  BY <1>1 DEF ShutInv
<1>3. CASE MainStep
  <2>1. token'.shutdown = token.shutdown /\ can'.shutdown = can.shutdown /\ UNCHANGED reqVars
    BY <1>0, <1>3, MainOrder, MainEffects
  <2>2. token'.config = "open" \/ main' = "awaitShutdown" => token.config = "open"
    BY <1>0, <1>3, MainOrder, MainEffects
  <2> QED
    BY <1>2, <2>1, <2>2 DEF reqVars
<1>4. ASSUME NEW h \in Handlers, HandlerStep(h)
      PROVE  /\ \A k \in Handlers : at'[k] = "clear" => token'.shutdown = 1
             /\ \/ token'.config = "open" \/ main' = "awaitShutdown"
                \/ \E k \in Handlers : req'[k] = "fixOpen" /\ at'[k] \in {"open", "signal"}
                => can'.shutdown \/ token'.shutdown = 1
  <2>1. token.shutdown = 1 => token'.shutdown = 1
    BY <1>0, <1>4, HandlerTokens
  <2>2. ASSUME NEW k \in Handlers, at'[k] = "clear" PROVE token'.shutdown = 1
    BY <1>0, <1>2, <1>4, <2>1, <2>2, HandlerFrame, HandlerTokens
  <2>3. Wanted => can'.shutdown \/ token'.shutdown = 1
    BY <1>0, <1>2, <1>4, <2>1, HandlerTokens
  <2>4. token'.config = "open" \/ main' = "awaitShutdown" => Wanted
    BY <1>0, <1>4, HandlerTokens, HandlerPlaces
  <2>5. ASSUME NEW k \in Handlers, req'[k] = "fixOpen", at'[k] \in {"open", "signal"}
        PROVE  can'.shutdown \/ token'.shutdown = 1
    <3>1. CASE k = h
      BY <1>0, <1>4, <2>3, <2>5, <3>1, HandlerTokens
    <3>2. CASE k # h
      BY <1>0, <1>4, <2>3, <2>5, <3>2, HandlerFrame
    <3> QED
      BY <3>1, <3>2
  <2> QED
    BY <2>2, <2>3, <2>4, <2>5
<1>5. ASSUME NEW h \in Handlers, NEW op \in Ops, Accept(h, op)
      PROVE  /\ UNCHANGED <<main, can, token>>
             /\ \A k \in Handlers : at'[k] = "clear" => at[k] = "clear"
             /\ \A k \in Handlers : req'[k] = "fixOpen" /\ at'[k] \in {"open", "signal"}
                                      => req[k] = "fixOpen" /\ at[k] \in {"open", "signal"}
  BY <1>0, <1>5, AcceptFrame
<1>6. CASE UNCHANGED <<main, can, token, reqVars>>
  BY <1>2, <1>6 DEF reqVars
<1> QED
  BY <1>0, <1>2, <1>3, <1>4, <1>5, <1>6, Steps

\* It holds at the start.
LEMMA ShutStart == Init => ShutInv
BY DEF Init, ShutInv

\* Main never waits for a WSL shutdown that no request may trigger
\* (restful/init.go:165, 181-194, check.go:159-160).
THEOREM ShutdownAlwaysObtainable == Spec => []ShutdownObtainable
<1>1. TypeOK /\ ShutInv /\ [Next]_vars => (TypeOK /\ ShutInv)'
  BY TypeStep, ShutStep
<1>2. ShutInv => ShutdownObtainable
  BY DEF ShutInv, ShutdownObtainable, Over
<1> QED
  BY <1>1, <1>2, TypeStart, ShutStart, PTL DEF Spec

-----------------------------------------------------------------------------
(* What Success means *)

\* What the channels say about the configuration stays true.
LEMMA ServedStep ==
  ASSUME TypeOK, ServedInv, [Next]_vars
  PROVE  ServedInv'
<1>0. FlowTypes
  BY DEF TypeOK, FlowTypes
<1>1. (ConfigPasses => ConfigPasses') /\ served \subseteq served'
  BY <1>0, ChecksKeep
<1>2. CASE MainStep
  <2>1. /\ UNCHANGED reqVars /\ token'.config \in {token.config, "none"}
        /\ main' = "awaitShutdown" => token.config = "open"
        /\ token'.shutdown = 1 => token.shutdown = 1
    BY <1>0, <1>2, MainOrder, MainEffects, MainTokens
  <2> QED
    BY <1>1, <2>1 DEF ServedInv, reqVars
<1>3. ASSUME NEW h \in Handlers, HandlerStep(h) PROVE ServedInv'
  <2>1. ASSUME NEW k \in Handlers, req'[k] = "fixAuto", at'[k] = "signal" PROVE ConfigPasses'
    <3>1. CASE k = h
      BY <1>0, <1>3, <2>1, <3>1, HandlerServes DEF ConfigPasses
    <3>2. CASE k # h
      BY <1>0, <1>1, <1>3, <2>1, <3>2, HandlerFrame DEF ServedInv
    <3> QED
      BY <3>1, <3>2
  <2>2. token'.config = "auto" => ConfigPasses'
    BY <1>0, <1>1, <1>3, HandlerServes DEF ServedInv
  <2>3. main' = "awaitShutdown" => main = "awaitShutdown"
    BY <1>0, <1>3, HandlerPlaces
  <2> QED
    BY <1>0, <1>1, <1>3, <2>1, <2>2, <2>3, HandlerServes DEF ServedInv
<1>4. ASSUME NEW h \in Handlers, NEW op \in Ops, Accept(h, op) PROVE ServedInv'
  <2>1. \A k \in Handlers : req'[k] = "fixAuto" /\ at'[k] = "signal"
                             => req[k] = "fixAuto" /\ at[k] = "signal"
    BY <1>0, <1>4, AcceptFrame
  <2> QED
    BY <1>0, <1>1, <1>4, <2>1, AcceptFrame DEF ServedInv
<1>5. CASE UNCHANGED <<main, machine, token, reqVars>>
  BY <1>1, <1>5 DEF ServedInv, reqVars
<1> QED
  BY <1>0, <1>2, <1>3, <1>4, <1>5, Steps

\* The part of ReadyInv about the requests is kept.
LEMMA RepairStep ==
  ASSUME TypeOK, ReadyInv, [Next]_vars
  PROVE  /\ ctx' = "cancelled" => main' \in Over \cup {"rebooted"}
         /\ token'.updated = 1 => machine'.wsl = "current"
         /\ \A k \in Handlers : req'[k] = "update" /\ at'[k] \in {"told", "signal"}
                                  => machine'.wsl = "current"
<1>0. FlowTypes
  BY DEF TypeOK, FlowTypes
<1>1. machine.wsl = "current" => machine'.wsl = "current"
  BY <1>0, ChecksKeep
<1>2. CASE MainStep
  BY <1>0, <1>1, <1>2, MainOrder, MainEffects DEF ReadyInv, reqVars, Over
<1>3. ASSUME NEW h \in Handlers, HandlerStep(h)
      PROVE  /\ ctx' = "cancelled" => main' \in Over \cup {"rebooted"}
             /\ token'.updated = 1 => machine'.wsl = "current"
             /\ \A k \in Handlers : req'[k] = "update" /\ at'[k] \in {"told", "signal"}
                                      => machine'.wsl = "current"
  <2>1. ctx' = "cancelled" => main' \in Over \cup {"rebooted"}
    BY <1>0, <1>3, HandlerPieces DEF ReadyInv
  <2>2. token'.updated = 1 => machine'.wsl = "current"
    BY <1>0, <1>1, <1>3, HandlerTokens DEF ReadyInv
  <2>3. ASSUME NEW k \in Handlers, req'[k] = "update", at'[k] \in {"told", "signal"}
        PROVE  machine'.wsl = "current"
    <3>1. CASE k = h
      BY <1>0, <1>1, <1>3, <2>3, <3>1, HandlerPlaces DEF ReadyInv
    <3>2. CASE k # h
      BY <1>0, <1>1, <1>3, <2>3, <3>2, HandlerFrame DEF ReadyInv
    <3> QED
      BY <3>1, <3>2
  <2> QED
    BY <2>1, <2>2, <2>3
<1>4. ASSUME NEW h \in Handlers, NEW op \in Ops, Accept(h, op)
      PROVE  /\ UNCHANGED <<main, ctx, machine, token>>
             /\ \A k \in Handlers : req'[k] = "update" /\ at'[k] \in {"told", "signal"}
                                      => req[k] = "update" /\ at[k] \in {"told", "signal"}
  BY <1>0, <1>4, AcceptFrame
<1>5. CASE UNCHANGED <<main, machine, token, reqVars>> /\ (ctx' = ctx \/ ctx' = "failed")
  BY <1>5 DEF ReadyInv, reqVars
<1>6. CASE \E h \in Handlers, op \in Ops : Accept(h, op)
  BY <1>4, <1>6 DEF ReadyInv
<1> QED
  BY <1>0, <1>2, <1>3, <1>5, <1>6, Steps

\* The part of ReadyInv about the checks of main is kept.
LEMMA PassedStep ==
  ASSUME TypeOK, EarlyInv, ServedInv, ReadyInv, [Next]_vars, ~err', ctx' # "failed"
  PROVE  /\ main' \in PastSupport => SupportWSL2(machine'.build)
         /\ main' \in PastVersion => machine'.wsl = "current"
         /\ main' \in PastFeature => (NoFeature /\ IsFeatureEnabled)'
         /\ main' \in PastBios => CheckBIOS'
         /\ main' \in Settled => ConfigSettled'
<1>0. FlowTypes
  BY DEF TypeOK, FlowTypes
<1> DEFINE Passed == /\ main' \in PastSupport => SupportWSL2(machine.build)
                     /\ main' \in PastVersion => machine.wsl = "current"
                     /\ main' \in PastFeature => NoFeature /\ IsFeatureEnabled
                     /\ main' \in PastBios => CheckBIOS
                     /\ main' \in Settled => ConfigSettled
<1>1. ASSUME MainStep PROVE Passed
  <2>1. ~err /\ ctx # "failed" /\ (ctx = "live" \/ main \in Over)
    BY <1>0, <1>1, MainOrder, MainEffects DEF ReadyInv, FlowTypes
  <2>2. main = "feature" => NoFeature
    BY DEF EarlyInv, UntilFeature
  <2>3. main' \in Settled => ConfigSettled
    <3>1. CASE main \in Settled
      BY <2>1, <3>1 DEF ReadyInv
    <3>2. CASE main = "awaitConfig" /\ token.config \in {"auto", "skip"}
      BY <3>2 DEF ServedInv, ConfigSettled
    <3>3. CASE main = "awaitShutdown" /\ token.shutdown = 1
      BY <3>3 DEF ServedInv, ConfigSettled
    <3> QED
      BY <1>0, <1>1, <2>1, <3>1, <3>2, <3>3, MainPasses DEF ConfigSettled
  <2> QED
    BY <1>0, <1>1, <2>1, <2>2, <2>3, MainPasses DEF ReadyInv
<1>2. ASSUME ~MainStep
      PROVE  main' \in {main, "rebooted"} /\ err' = err /\ ctx # "failed"
  <2>1. ASSUME NEW h \in Handlers, HandlerStep(h) PROVE main' \in {main, "rebooted"} /\ UNCHANGED <<err, ctx>>
    BY <1>0, <2>1, HandlerPieces
  <2>2. ASSUME NEW h \in Handlers, NEW op \in Ops, Accept(h, op) PROVE UNCHANGED <<main, err, ctx>>
    BY <1>0, <2>2, AcceptFrame
  <2>3. EventStep => UNCHANGED <<main, err, ctx>>
    BY DEF EventStep
  <2>4. BindExits \/ WaitBindPID \/ ServeFails => UNCHANGED <<main, err>> /\ (ctx' = ctx \/ ctx' = "failed")
    BY DEF BindExits, WaitBindPID, ServeFails, FailCtx
  <2> QED
    BY <1>2, <2>1, <2>2, <2>3, <2>4 DEF Next, vars
<1>3. ASSUME ~MainStep PROVE Passed
  BY <1>2, <1>3 DEF ReadyInv, PastSupport, PastVersion, PastFeature, PastBios, PastConfig, Settled, Over
<1>4. Passed
  BY <1>1, <1>3
<1> QED
  BY <1>0, <1>4, ChecksKeep, SettledStays DEF PastFeature, PastBios, PastConfig, Over

\* What is known when Success is said is kept.
LEMMA SuccessStep ==
  ASSUME TypeOK, ReadyInv, SuccessInv, [Next]_vars
  PROVE  SuccessInv'
<1>0. FlowTypes
  BY DEF TypeOK, FlowTypes
<1> SUFFICES ASSUME Said("Success")'
             PROVE  /\ main' \in {"exit", "end", "exited", "rebooted"}
                    /\ ctx' = "failed" \/ ( /\ SupportWSL2(machine'.build) /\ machine'.wsl = "current"
                                            /\ CheckBIOS' /\ (NoFeature /\ IsFeatureEnabled)'
                                            /\ ConfigSettled' )
  BY DEF SuccessInv
<1>1. Said("Success") \/ (main = "result" /\ main' = "exit" /\ ~err)
  BY SaidGrows
<1>2. main \in {"exit", "end", "exited", "rebooted"} \/ main = "result"
  BY <1>1 DEF SuccessInv
<1>3. ctx = "failed" \/ ( /\ SupportWSL2(machine.build) /\ machine.wsl = "current" /\ CheckBIOS
                          /\ NoFeature /\ IsFeatureEnabled /\ ConfigSettled )
  BY <1>1 DEF SuccessInv, ReadyInv, PastSupport, PastVersion, PastFeature, PastBios, PastConfig, Settled, Over
<1>4. main' \in {"exit", "end", "exited", "rebooted"}
  <2>1. CASE Said("Success")
    <3>1. main \in {"exit", "end", "exited", "rebooted"}
      BY <2>1 DEF SuccessInv
    <3> QED
      BY <1>0, <3>1, Steps, MainOrder, HandlerPlaces, AcceptFrame
  <2> QED
    BY <1>1, <2>1
<1>5. ctx = "failed" => ctx' = "failed"
  BY <1>0, Steps, MainEffects, HandlerPieces, AcceptFrame
<1> QED
  BY <1>0, <1>3, <1>4, <1>5, ChecksKeep, SettledStays

ReadySoFar == TypeOK /\ EarlyInv /\ ServedInv /\ ReadyInv /\ SuccessInv

\* It holds at the start.
LEMMA ReadyStart == Init => ServedInv /\ ReadyInv /\ SuccessInv
<1> SUFFICES ASSUME Init PROVE ServedInv /\ ReadyInv /\ SuccessInv
  OBVIOUS
<1>1. ~Said("Success")
  BY EmptySeq, ConcatEmptySeq DEF Init, Said, Accepted, Ev!accepted, Ev!Init
<1> QED
  BY <1>1 DEF Init, ServedInv, ReadyInv, SuccessInv, Over, PastSupport, PastVersion, PastFeature,
     PastBios, PastConfig, Settled

\* Success is reported only when every check passed or was repaired, or the user has
\* settled the configuration (ConfigSettled), or the context had failed
\* (cli/init.go:93-95, main.go:193-203, check.go:131-166).
THEOREM SuccessAlwaysReady == Spec => []SuccessMeansReady
<1>1. ReadySoFar /\ [Next]_vars => ReadySoFar'
  <2> SUFFICES ASSUME ReadySoFar, [Next]_vars PROVE ReadySoFar'
    OBVIOUS
  <2>1. TypeOK' /\ EarlyInv' /\ ServedInv' /\ SuccessInv'
    BY TypeStep, EarlyStep, ServedStep, SuccessStep DEF ReadySoFar
  <2>2. ReadyInv'
    BY RepairStep, PassedStep DEF ReadySoFar, ReadyInv
  <2> QED
    BY <2>1, <2>2 DEF ReadySoFar
<1>2. ReadySoFar => SuccessMeansReady
  <2> SUFFICES ASSUME ReadySoFar, Said("Success") PROVE
        \/ ctx = "failed"
        \/ /\ SupportWSL2(machine.build) /\ ~ShouldUpdateWSL /\ IsFeatureEnabled /\ CheckBIOS
           /\ ConfigSettled
    BY DEF SuccessMeansReady, Said, Accepted
  <2> QED
    BY DEF ReadySoFar, SuccessInv, ShouldUpdateWSL
<1>3. Init => ReadySoFar
  BY TypeStart, EarlyStart, ReadyStart DEF ReadySoFar
<1> QED
  BY <1>1, <1>2, <1>3, PTL DEF Spec
=============================================================================

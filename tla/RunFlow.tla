------------------------------ MODULE RunFlow ------------------------------
(***************************************************************************)
(* "ovm run" after the update: main starts a group of three goroutines     *)
(* (the HTTP server, the watcher of --bind-pid, the distro) and waits for  *)
(* all of them; the first error cancels the group's context, which closes  *)
(* the server.  A stop through the API ends the distro, and with it the    *)
(* group, before its handler has noted StoppedWithAPI: Close waits for     *)
(* such a handler over needWaitClose and waitClose, for 5 s at most.       *)
(*                                                                         *)
(*   cmd/ovm/main.go main, pkg/cli/run.go Setup/Start, pkg/wsl/distro.go,  *)
(*   pkg/ipc/restful/run.go, pkg/util/exit.go, with module Event.          *)
(***************************************************************************)
EXTENDS Naturals, Sequences, FiniteSets

CONSTANTS Handlers,    \* request goroutines that can be active at once
          MaxRequests, \* bound: requests accepted in a behaviour
          Ops,         \* the requests the client makes
          Failures     \* the external operations that may fail

Failure == {"log", "setup", "listen", "serve", "mount", "ovmd", "podman",
            "killall", "terminate"}

ASSUME MaxRequestsAssumption == MaxRequests \in Nat
ASSUME OpsAssumption == Ops \subseteq {"stop", "requestStop", "exec"}
ASSUME FailuresAssumption == Failures \subseteq Failure

Routines == {"main", "launch", "ready"}
RunNames == {"Starting", "Ready", "Error", "Exit"}

VARIABLES
  main, err, bindAlive,         \* as in InitFlow
  ctxDone,                      \* the group's context is done
  group,                        \* the goroutines g.Wait() waits for
  launch, ovmd, ready,          \* wsl.Launch and its two goroutines
  innerErr,                     \* one of those two returned an error
  distro,                       \* the WSL distro runs
  at, op, mine,                 \* handlers: place, request, channel they send on
  requests,
  need, stopped,                \* needWaitClose, StoppedWithAPI
  chan, token, shut,            \* waitClose: current channel, a token in channel 0, those closed
  closer, closerChan,           \* routerRun.Close and the channel it receives from
  covered,                      \* history: h is a lone request Close has to wait for
  timedOut,                     \* history: Close gave up after 5 s
  disturbed,                    \* history: a wsl command of the exit function failed, or a
                                \* request booted the distro meanwhile
  sender, queue, processed, caller, held, doneClosed, closed \* see Event

Ev == INSTANCE Event WITH Notifiers <- Routines, Names <- RunNames,
        Terminal <- {"Exit"}, Enders <- {"main"}

evVars == <<sender, queue, processed, caller, held, doneClosed, closed>>
mainVars == <<main, err, ctxDone, group>>
launchVars == <<launch, ovmd, ready, innerErr>>
reqVars == <<at, op, mine, requests, covered>>
waitVars == <<need, stopped, chan, token, shut>>
closeVars == <<closer, closerChan, timedOut>>
vars == <<mainVars, bindAlive, launchVars, distro, disturbed, reqVars, waitVars, closeVars, evVars>>

Init == /\ main = "setup" /\ err = FALSE /\ bindAlive = TRUE
        /\ ctxDone = FALSE /\ group = {}
        /\ launch = "start" /\ ovmd = "register" /\ ready = "poll" /\ innerErr = FALSE
        /\ distro \in BOOLEAN /\ disturbed = FALSE
        /\ at = [h \in Handlers |-> "idle"] /\ op = [h \in Handlers |-> "none"]
        /\ mine = [h \in Handlers |-> 0] /\ requests = 0
        /\ covered = [h \in Handlers |-> FALSE]
        /\ need = FALSE /\ stopped = FALSE /\ chan = 0 /\ token = FALSE /\ shut = {}
        /\ closer = "idle" /\ closerChan = 0 /\ timedOut = FALSE
        /\ Ev!Init

-----------------------------------------------------------------------------
(* The main goroutine *)

MainAt(from, to) == main = from /\ caller["main"] = "out" /\ main' = to

MainFail(from) ==
  /\ MainAt(from, "result")
  /\ err' = TRUE
  /\ UNCHANGED <<ctxDone, group, bindAlive, launchVars, distro, disturbed, reqVars,
                 waitVars, closeVars, evVars>>

MainSay(from, name, to) ==
  /\ MainAt(from, to)
  /\ Ev!Notify("main", name)
  /\ UNCHANGED <<err, ctxDone, group, bindAlive, launchVars, distro, disturbed, reqVars,
                 waitVars, closeVars>>

MainMove(from, to) ==
  /\ MainAt(from, to)
  /\ UNCHANGED <<err, ctxDone, group, bindAlive, launchVars, distro, disturbed, reqVars,
                 waitVars, closeVars, evVars>>

\* RunContext.Setup: the logger, the event sender, then update, port and disk
Setup ==
  \/ "log" \in Failures /\ MainFail("setup")
  \/ /\ MainAt("setup", "update") /\ Ev!Setup
     /\ UNCHANGED <<err, ctxDone, group, bindAlive, launchVars, distro, disturbed, reqVars,
                    waitVars, closeVars>>
  \/ "setup" \in Failures /\ MainFail("update")
  \/ MainMove("update", "listen")

Start ==
  \/ "listen" \in Failures /\ MainFail("listen")
  \/ /\ MainAt("listen", "wait")
     /\ group' = {"serve", "bind", "launch"}
     /\ UNCHANGED <<err, ctxDone, bindAlive, launchVars, distro, disturbed, reqVars,
                    waitVars, closeVars, evVars>>

\* mutant of Wait: it waits for the context instead of the group
WaitForContext ==
  /\ MainAt("wait", "result")
  /\ ctxDone
  /\ err' = ~stopped
  /\ UNCHANGED <<ctxDone, group, bindAlive, launchVars, distro, disturbed, reqVars,
                 waitVars, closeVars, evVars>>

\* g.Wait() returns an error, for Launch never returns nil
Wait ==
  /\ MainAt("wait", "result")
  /\ group = {}
  /\ err' = ~stopped
  /\ UNCHANGED <<ctxDone, group, bindAlive, launchVars, distro, disturbed, reqVars,
                 waitVars, closeVars, evVars>>

Report ==
  \/ err /\ MainSay("result", "Error", "exit")
  \/ ~err /\ MainMove("result", "exit")
  \/ MainSay("exit", "Exit", "end")
  \/ MainMove("end", IF ovmd = "register" THEN "exited" ELSE "sync")

\* util.Exit runs RequestStop, if Launch registered it: the sync boots a stopped distro
ExitFunc(from, to, running, failed) ==
  /\ MainAt(from, to)
  /\ distro' = running /\ disturbed' = (disturbed \/ failed)
  /\ UNCHANGED <<err, ctxDone, group, bindAlive, launchVars, reqVars, waitVars, closeVars, evVars>>

\* mutant of ExitFuncs: it trusts ovmd to stop the distro
ExitFuncsNoTerminate ==
  \/ \E running \in {TRUE, distro} : ExitFunc("sync", "kill", running, FALSE)
  \/ ExitFunc("kill", "exited", TRUE, FALSE)

ExitFuncs ==
  \/ \E running \in {TRUE, distro} : ExitFunc("sync", "kill", running, FALSE)
  \/ ExitFunc("kill", "terminate", TRUE, FALSE)
  \/ "killall" \in Failures /\ ExitFunc("kill", "exited", distro, TRUE)
  \/ ExitFunc("terminate", "exited", FALSE, FALSE)
  \/ "terminate" \in Failures /\ ExitFunc("terminate", "exited", distro, TRUE)

Alive == main # "exited" /\ caller["main"] # "panicked"
MainStep == Alive /\ (Setup \/ Start \/ Wait \/ Report \/ ExitFuncs)

-----------------------------------------------------------------------------
(* The group *)

\* a goroutine of the group returns an error, or nil once the context is done
Leave(g) == /\ g \in group
            /\ group' = group \ {g} /\ ctxDone' = TRUE
            /\ UNCHANGED <<main, err, bindAlive, launchVars, distro, disturbed, reqVars,
                           waitVars, closeVars, evVars>>

Serve == closer = "done" /\ Leave("serve")
ServeFails == "serve" \in Failures /\ ~ctxDone /\ Leave("serve")
\* mutant of WaitBindPID: its return does not end the group's context
WaitContextOnly == ctxDone /\ Leave("bind")

WaitBindPID == (~bindAlive \/ ctxDone) /\ Leave("bind")

BindExits == /\ bindAlive /\ bindAlive' = FALSE
             /\ UNCHANGED <<mainVars, launchVars, distro, disturbed, reqVars, waitVars,
                            closeVars, evVars>>

InnerDone == ctxDone \/ innerErr

\* wsl.Launch up to its own errgroup, and its end
Launch ==
  /\ "launch" \in group
  /\ \/ /\ launch = "start" /\ launch' = "mount"
        /\ Ev!Notify("launch", "Starting")
        /\ UNCHANGED <<mainVars, ovmd, ready, innerErr>>
     \/ /\ launch = "mount"
        /\ launch' = "group"
        /\ UNCHANGED <<mainVars, ovmd, ready, innerErr, evVars>>
     \/ /\ \/ launch = "mount" /\ "mount" \in Failures
           \/ launch = "group" /\ ovmd = "returned" /\ ready = "returned"
        /\ launch' = "returned"
        /\ group' = group \ {"launch"} /\ ctxDone' = TRUE
        /\ UNCHANGED <<main, err, ovmd, ready, innerErr, evVars>>
  /\ UNCHANGED <<bindAlive, distro, disturbed, reqVars, waitVars, closeVars>>

\* registers the exit function, then runs ovmd through wsl.exe; the context kills wsl.exe
LaunchOVMD ==
  /\ launch = "group"
  /\ \/ /\ ovmd = "register" /\ ovmd' = "start"
        /\ UNCHANGED <<distro, innerErr>>
     \/ /\ ovmd = "start" /\ ~InnerDone /\ ovmd' = "running" /\ distro' = TRUE
        /\ UNCHANGED innerErr
     \/ /\ \/ ovmd = "start" /\ (InnerDone \/ "ovmd" \in Failures)
           \/ ovmd = "running" /\ InnerDone
           \/ ovmd = "killed"
        /\ ovmd' = "returned" /\ innerErr' = TRUE
        /\ UNCHANGED distro
  /\ UNCHANGED <<mainVars, bindAlive, launch, ready, disturbed, reqVars, waitVars, closeVars, evVars>>

\* ovmd ends of its own accord
OvmdQuits == /\ ovmd = "running" /\ "ovmd" \in Failures
             /\ ovmd' = "killed"
             /\ UNCHANGED <<mainVars, bindAlive, launch, ready, innerErr, distro, disturbed,
                            reqVars, waitVars, closeVars, evVars>>

\* podman.Ready polls until podman answers, the context is done or 10 s have passed
PodmanReady ==
  /\ launch = "group"
  /\ \/ /\ ready = "poll" /\ ovmd = "running" /\ ready' = "say"
        /\ UNCHANGED <<innerErr, evVars>>
     \/ /\ ready = "poll" /\ (InnerDone \/ "podman" \in Failures)
        /\ ready' = "returned" /\ innerErr' = TRUE
        /\ UNCHANGED evVars
     \/ /\ ready = "say" /\ ready' = "returned"
        /\ Ev!Notify("ready", "Ready")
        /\ UNCHANGED innerErr
  /\ UNCHANGED <<mainVars, bindAlive, launch, ovmd, distro, disturbed, reqVars, waitVars, closeVars>>

-----------------------------------------------------------------------------
(* The handlers of /stop and /request-stop inside needWait, and of /exec *)

Serving == main \notin {"setup", "update", "listen"} /\ sender # "none"
Waiting(h) == at[h] # "idle" /\ op[h] # "exec"

\* needWait sets needWaitClose before the handler runs
Accept(h, o) ==
  /\ Serving /\ at[h] = "idle" /\ requests < MaxRequests
  /\ requests' = requests + 1
  /\ op' = [op EXCEPT ![h] = o] /\ at' = [at EXCEPT ![h] = "begin"]
  /\ need' = (need \/ o # "exec")
  /\ covered' = IF o = "exec" THEN covered
                ELSE [k \in Handlers |->
                        k = h /\ closer = "idle" /\ \A i \in Handlers : ~Waiting(i)]
  /\ UNCHANGED <<mine, mainVars, bindAlive, launchVars, distro, disturbed, stopped, chan, token,
                 shut, closeVars, evVars>>

Goto(h, to) == /\ at' = [at EXCEPT ![h] = to]
               /\ op' = [op EXCEPT ![h] = IF to = "idle" THEN "none" ELSE @]
               /\ UNCHANGED <<requests, covered>>

\* wsl -d boots a stopped distro: the sync of Stop and RequestStop, whose error
\* is ignored, and the command of exec
BootDistro(h) ==
  /\ at[h] = "begin"
  /\ Goto(h, CASE op[h] = "stop" -> "terminate" [] op[h] = "requestStop" -> "kill"
               [] op[h] = "exec" -> "idle")
  /\ distro' \in {TRUE, distro}
  /\ disturbed' = (disturbed \/ main \in {"sync", "kill", "terminate"})
  /\ UNCHANGED <<mine, mainVars, bindAlive, launchVars, waitVars, closeVars, evVars>>

\* the ovmd that launchOVMD waits for ends
OvmdEnds == ovmd' = IF ovmd = "running" THEN "killed" ELSE ovmd

\* ovmd --killall may take the running ovmd with it
KillAll(h) ==
  /\ at[h] = "kill"
  /\ \/ Goto(h, "terminate") /\ distro' = TRUE /\ (OvmdEnds \/ UNCHANGED ovmd)
     \/ "killall" \in Failures /\ Goto(h, "signal") /\ UNCHANGED <<ovmd, distro>>
  /\ UNCHANGED <<mine, mainVars, bindAlive, launch, ready, innerErr, disturbed, waitVars,
                 closeVars, evVars>>

Terminate(h) ==
  /\ at[h] = "terminate"
  /\ \/ Goto(h, "mark") /\ distro' = FALSE /\ OvmdEnds
     \/ "terminate" \in Failures /\ Goto(h, "signal") /\ UNCHANGED <<distro, ovmd>>
  /\ UNCHANGED <<mine, mainVars, bindAlive, launch, ready, innerErr, disturbed, waitVars,
                 closeVars, evVars>>

\* StoppedWithAPI = true
Mark(h) ==
  /\ at[h] = "mark" /\ Goto(h, "signal")
  /\ stopped' = TRUE
  /\ UNCHANGED <<mine, mainVars, bindAlive, launchVars, distro, disturbed, need, chan, token, shut,
                 closeVars, evVars>>

\* mutant of PickChan: needWaitClose is reset before the send
PickChanResets(h) ==
  /\ at[h] = "signal" /\ Goto(h, "send")
  /\ mine' = [mine EXCEPT ![h] = chan]
  /\ need' = FALSE
  /\ UNCHANGED <<mainVars, bindAlive, launchVars, distro, disturbed, stopped, chan, token, shut,
                 closeVars, evVars>>

\* the send statement takes the channel r.waitClose holds at that moment
PickChan(h) ==
  /\ at[h] = "signal" /\ Goto(h, "send")
  /\ mine' = [mine EXCEPT ![h] = chan]
  /\ UNCHANGED <<mainVars, bindAlive, launchVars, distro, disturbed, waitVars, closeVars, evVars>>

\* channel 0 has room for one token, the later ones for none
SendToken(h) ==
  /\ at[h] = "send"
  /\ \/ /\ mine[h] \in shut
        /\ Goto(h, "panicked") /\ UNCHANGED token
     \/ /\ mine[h] = 0 /\ 0 \notin shut /\ ~token
        /\ Goto(h, "sent") /\ token' = TRUE
  /\ UNCHANGED <<mine, mainVars, bindAlive, launchVars, distro, disturbed, need, stopped, chan,
                 shut, closeVars, evVars>>

ResetNeed(h) ==
  /\ at[h] = "sent" /\ Goto(h, "renew")
  /\ need' = FALSE
  /\ UNCHANGED <<mine, mainVars, bindAlive, launchVars, distro, disturbed, stopped, chan, token, shut,
                 closeVars, evVars>>

\* mutant of NewChan: the handler and needWait both renew the channel
NewChanTwice(h) ==
  /\ at[h] = "renew" /\ Goto(h, "idle")
  /\ chan' = chan + 2
  /\ UNCHANGED <<mine, mainVars, bindAlive, launchVars, distro, disturbed, need, stopped, token, shut,
                 closeVars, evVars>>

NewChan(h) ==
  /\ at[h] = "renew" /\ Goto(h, "idle")
  /\ chan' = chan + 1
  /\ UNCHANGED <<mine, mainVars, bindAlive, launchVars, distro, disturbed, need, stopped, token, shut,
                 closeVars, evVars>>

\* what a handler does without an external program
HandlerCode(h) == Mark(h) \/ PickChan(h) \/ SendToken(h) \/ ResetNeed(h) \/ NewChan(h)
HandlerStep(h) == Alive /\ (BootDistro(h) \/ KillAll(h) \/ Terminate(h) \/ HandlerCode(h))

-----------------------------------------------------------------------------
(* routerRun.Close and the listener, run once the context is done *)

CloserMove(from, to) ==
  /\ closer = from /\ closer' = to
  /\ UNCHANGED <<mainVars, bindAlive, launchVars, distro, disturbed, need, stopped, chan, evVars>>

\* mutant of LookAtNeed: Close never waits
LookAway ==
  /\ Serving /\ ctxDone
  /\ CloserMove("idle", "shut")
  /\ UNCHANGED <<reqVars, token, shut, closerChan, timedOut>>

LookAtNeed ==
  /\ Serving /\ ctxDone
  /\ CloserMove("idle", IF need THEN "pick" ELSE "shut")
  /\ UNCHANGED <<reqVars, token, shut, closerChan, timedOut>>

PickCloserChan ==
  /\ CloserMove("pick", "wait")
  /\ closerChan' = chan
  /\ UNCHANGED <<reqVars, token, shut, timedOut>>

ReceiveToken ==
  /\ CloserMove("wait", "shut")
  /\ \/ /\ closerChan = 0 /\ token
        /\ token' = FALSE
        /\ UNCHANGED reqVars
     \/ /\ closerChan > 0
        /\ \E h \in Handlers : at[h] = "send" /\ mine[h] = closerChan /\ Goto(h, "sent")
        /\ UNCHANGED <<mine, token>>
  /\ UNCHANGED <<shut, closerChan, timedOut>>

\* mutant of GiveUp: there is no timer
GiveUpNever == FALSE

GiveUp ==
  /\ CloserMove("wait", "shut")
  /\ timedOut' = TRUE
  /\ UNCHANGED <<reqVars, token, shut, closerChan>>

\* close(r.waitClose) closes the channel of that moment, then the listener
CloseChan ==
  /\ CloserMove("shut", "done")
  /\ shut' = shut \cup {chan}
  /\ UNCHANGED <<reqVars, token, closerChan, timedOut>>

CloserStep == Alive /\ ( LookAtNeed \/ PickCloserChan \/ ReceiveToken \/ GiveUp \/ CloseChan )

EventStep ==
  /\ Alive
  /\ Ev!Deliver \/ \E p \in Routines : Ev!Proceed(p)
  /\ UNCHANGED <<mainVars, bindAlive, launchVars, distro, disturbed, reqVars, waitVars, closeVars>>

GroupStep == Alive /\ ( Serve \/ WaitBindPID \/ Launch \/ LaunchOVMD \/ PodmanReady )

Next == \/ MainStep \/ GroupStep \/ CloserStep \/ EventStep
        \/ BindExits
        \/ Alive /\ (ServeFails \/ OvmdQuits)
        \/ \E h \in Handlers : HandlerStep(h)
        \/ \E h \in Handlers, o \in Ops : Alive /\ Accept(h, o)

\* Go runs every goroutine that can run; the wsl commands and the update end, and
\* so does the 5 s timer.  Nobody has to send requests, and nothing has to fail.
Fairness == /\ WF_vars(MainStep) /\ WF_vars(EventStep) /\ WF_vars(CloserStep)
            /\ WF_vars(GroupStep)
            /\ \A h \in Handlers : WF_vars(HandlerStep(h))

Spec == Init /\ [][Next]_vars /\ Fairness

-----------------------------------------------------------------------------
TypeOK ==
  /\ main \in {"setup", "update", "listen", "wait", "result", "exit", "end", "sync", "kill",
               "terminate", "exited"}
  /\ {err, bindAlive, ctxDone, innerErr, distro, need, stopped, token, timedOut, disturbed}
       \subseteq BOOLEAN
  /\ group \subseteq {"serve", "bind", "launch"}
  /\ launch \in {"start", "mount", "group", "returned"}
  /\ ovmd \in {"register", "start", "running", "killed", "returned"}
  /\ ready \in {"poll", "say", "returned"}
  /\ at \in [Handlers -> {"idle", "begin", "kill", "terminate", "mark", "signal", "send", "sent",
                          "renew", "panicked"}]
  /\ op \in [Handlers -> {"none", "stop", "requestStop", "exec"}]
  /\ requests \in 0..MaxRequests /\ chan \in 0..MaxRequests
  /\ mine \in [Handlers -> 0..MaxRequests] /\ shut \subseteq 0..MaxRequests
  /\ closer \in {"idle", "pick", "wait", "shut", "done"} /\ closerChan \in 0..MaxRequests
  /\ covered \in [Handlers -> BOOLEAN]
  /\ Ev!TypeOK

\* A stop that succeeded is not reported as an error: Close waits for the one
\* stop handler in flight to set StoppedWithAPI, unless it gives up after 5 s
\* (needWait, run.go:193-203).
StopIsReported ==
  \A h \in Handlers : covered[h] /\ at[h] = "mark" /\ closer \in {"shut", "done"} => timedOut

\* The one stop handler in flight does not send on a channel that Close closed,
\* which would panic and break the client's connection.
StopIsAnswered ==
  \A h \in Handlers : covered[h] /\ at[h] = "panicked" => timedOut

\* Error and Exit come last: the distro's goroutines have said Starting and Ready
\* before g.Wait returns, and main does not go before the client has been sent Exit.
EndComesLast ==
  /\ \A i, j \in 1..Len(Ev!accepted) :
       i < j /\ Ev!accepted[i] \in {"Error", "Exit"} => Ev!accepted[j] = "Exit"
  /\ main = "exited" /\ sender # "none" => "Exit" = processed[Len(processed)]

\* "wait for the event to be processed" (event.go:138): main gets past the wait
\* of Exit only when the client has been sent it, whatever the other goroutines
\* still say.
ReturnMeansProcessed == Ev!ReturnMeansProcessed

\* No goroutine sends on the event channel that main's Exit has closed (event.go:144),
\* which would end the process by a panic before it has stopped the distro.
NoSendOnClosed == \A p \in Routines : caller[p] # "panicked"

\* The process does not leave the distro behind: once ovmd may have been started,
\* its exit function terminates the distro, unless a wsl command fails or a
\* request boots the distro meanwhile.
ExitStopsDistro ==
  main = "exited" /\ ovmd # "register" => ~distro \/ disturbed

\* "OVM will exit when the bound pid exited" (main.go:179).
BoundExit == ~bindAlive ~> main = "exited"

\* Once the context is done Close ends, whatever the stop handlers do: "Avoid
\* being unable to exit due to unexpected situations" (run.go:57).
CloseEnds == ctxDone ~> closer = "done" \/ ~Alive
=============================================================================

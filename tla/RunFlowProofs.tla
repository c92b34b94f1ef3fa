--------------------------- MODULE RunFlowProofs ---------------------------
(***************************************************************************)
(* Theorems about RunFlow for every set of handlers, requests and failures.*)
(*                                                                         *)
(* The argument: while the one stop request that Close has to wait for has *)
(* not yet sent, nobody else resets needWaitClose or renews waitClose, and *)
(* no token of an earlier stop is left in the channel that Close receives  *)
(* from; so only the timer lets Close go on.                               *)
(***************************************************************************)
EXTENDS RunFlow, FiniteSetTheorems, TLAPS

\* The places of a stop request up to its send.
Unsent == {"begin", "kill", "terminate", "mark", "signal", "send"}
Late == {"sent", "renew"}

HandlerTypes ==
  /\ at \in [Handlers -> {"idle", "panicked"} \cup Unsent \cup Late]
  /\ op \in [Handlers -> {"none", "stop", "requestStop", "exec"}]
  /\ covered \in [Handlers -> BOOLEAN] /\ need \in BOOLEAN /\ chan \in Nat

\* A handler at its first step has a request, and only a stop request gets past it.
OpKnown == \A h \in Handlers : /\ op[h] = "exec" => at[h] = "begin"
                               /\ at[h] = "begin" => op[h] # "none"

\* A token of an earlier stop is never in the channel that is current.
TokenIsOld == token => chan > 0 \/ \E h \in Handlers : at[h] \in Late

\* The request that Close has to wait for is alone, and Close waits for it.
Guarded(h) ==
  /\ need
  /\ \A g \in Handlers \ {h} : ~Waiting(g)
  /\ closer = "wait" => closerChan = chan
  /\ closer \in {"shut", "done"} => timedOut
LoneStop == \A h \in Handlers : covered[h] /\ at[h] \in Unsent /\ op[h] # "exec" => Guarded(h)

ShutAtEnd == shut # {} => closer = "done"

StopInv == HandlerTypes /\ OpKnown /\ TokenIsOld /\ LoneStop /\ ShutAtEnd /\ StopIsAnswered

\* What the invariant speaks of.
stopVars == <<at, op, covered, need, chan, token, shut, closer, closerChan, timedOut>>

\* At the start there is no request.
LEMMA StopStart == Init => StopInv
<1> SUFFICES ASSUME Init PROVE StopInv
  OBVIOUS
<1>1. /\ at = [h \in Handlers |-> "idle"] /\ op = [h \in Handlers |-> "none"]
      /\ covered = [h \in Handlers |-> FALSE] /\ need = FALSE /\ chan = 0
      /\ ~token /\ shut = {}
  BY DEF Init
<1>2. HandlerTypes
  BY <1>1 DEF HandlerTypes
<1>3. OpKnown /\ TokenIsOld /\ LoneStop /\ ShutAtEnd /\ StopIsAnswered
  BY <1>1 DEF OpKnown, TokenIsOld, LoneStop, ShutAtEnd, StopIsAnswered, Unsent
<1> QED
  BY <1>2, <1>3 DEF StopInv

\* The other goroutines of the process have no part in the handshake.
LEMMA StopStutter == ASSUME StopInv, UNCHANGED stopVars PROVE StopInv'
BY DEF stopVars, StopInv, HandlerTypes, OpKnown, TokenIsOld, LoneStop, Guarded, Waiting,
       ShutAtEnd, StopIsAnswered

\* main, the group and the events leave the handshake alone.
LEMMA OthersApart ==
  ASSUME MainStep \/ GroupStep \/ EventStep \/ BindExits \/ ServeFails \/ OvmdQuits
  PROVE  UNCHANGED stopVars
<1> USE DEF stopVars, reqVars, waitVars, closeVars
<1>1. CASE MainStep
  BY <1>1 DEF MainStep, Setup, Start, Wait, Report, ExitFuncs, ExitFunc, MainFail, MainSay, MainMove
<1>2. CASE GroupStep
  BY <1>2 DEF GroupStep, Serve, WaitBindPID, Leave, Launch, LaunchOVMD, PodmanReady
<1>3. CASE EventStep
  BY <1>3 DEF EventStep
<1>4. CASE BindExits \/ ServeFails \/ OvmdQuits
  BY <1>4 DEF BindExits, ServeFails, Leave, OvmdQuits
<1> QED
  BY <1>1, <1>2, <1>3, <1>4

\* A handler past its first step has a stop request.
LEMMA PastFirstStep ==
  ASSUME StopInv, NEW h \in Handlers, at[h] # "idle", at[h] # "begin" PROVE Waiting(h)
<1>1. op[h] # "exec"
  BY DEF StopInv, OpKnown
<1> QED
  BY <1>1 DEF Waiting

\* A new request is the one to wait for when it is alone and Close has not begun.
LEMMA AcceptKeeps ==
  ASSUME StopInv, NEW h \in Handlers, NEW o \in Ops, Accept(h, o) PROVE StopInv'
<1>1. /\ at[h] = "idle" /\ at' = [at EXCEPT ![h] = "begin"] /\ op' = [op EXCEPT ![h] = o]
      /\ (need' <=> need \/ o # "exec")
      /\ o \in {"stop", "requestStop", "exec"}
      /\ UNCHANGED <<chan, token, shut, closer, closerChan, timedOut>>
  BY OpsAssumption DEF Accept, closeVars
<1>2. /\ o = "exec" => covered' = covered
      /\ o # "exec" => covered' = [k \in Handlers |->
                         k = h /\ closer = "idle" /\ \A i \in Handlers : ~Waiting(i)]
  BY DEF Accept
<1>3. HandlerTypes
  BY DEF StopInv
<1>4. HandlerTypes'
  <2>1. at' \in [Handlers -> {"idle", "panicked"} \cup Unsent \cup Late]
    BY <1>1, <1>3 DEF HandlerTypes, Unsent
  <2>2. op' \in [Handlers -> {"none", "stop", "requestStop", "exec"}]
    BY <1>1, <1>3 DEF HandlerTypes
  <2>3. covered' \in [Handlers -> BOOLEAN]
    BY <1>2, <1>3 DEF HandlerTypes
  <2>4. need' \in BOOLEAN
    BY DEF Accept
  <2> QED
    BY <1>1, <1>3, <2>1, <2>2, <2>3, <2>4 DEF HandlerTypes
<1>5. OpKnown' /\ TokenIsOld' /\ ShutAtEnd'
  BY <1>1, <1>3 DEF StopInv, HandlerTypes, OpKnown, TokenIsOld, ShutAtEnd, Late
<1>6. LoneStop'
  <2> SUFFICES ASSUME NEW k \in Handlers, covered'[k], at'[k] \in Unsent, op'[k] # "exec"
               PROVE  Guarded(k)'
    BY DEF LoneStop
  <2>1. CASE o = "exec"
    <3>1. k # h
      BY <1>1, <1>3, <2>1 DEF HandlerTypes
    <3>2. Guarded(k)
      BY <1>1, <1>2, <1>3, <2>1, <3>1 DEF HandlerTypes, StopInv, LoneStop
    <3>3. \A g \in Handlers \ {k} : ~Waiting(g)'
      BY <1>1, <1>3, <2>1, <3>2 DEF HandlerTypes, Guarded, Waiting
    <3> QED
      BY <1>1, <3>2, <3>3 DEF Guarded
  <2>2. CASE o # "exec"
    <3>1. k = h /\ closer = "idle" /\ \A i \in Handlers : ~Waiting(i)
      BY <1>2, <2>2
    <3>2. \A g \in Handlers \ {k} : ~Waiting(g)'
      BY <1>1, <1>3, <3>1 DEF HandlerTypes, Waiting
    <3> QED
      BY <1>1, <2>2, <3>1, <3>2 DEF Guarded
  <2> QED
    BY <2>1, <2>2
<1>7. StopIsAnswered'
  BY <1>1, <1>2, <1>3 DEF StopInv, HandlerTypes, StopIsAnswered
<1> QED
  BY <1>4, <1>5, <1>6, <1>7 DEF StopInv

\* A request that is alone stays guarded by a step of its own before the send, and
\* by an end of somebody's command.
LEMMA MoveKeeps ==
  ASSUME StopInv, NEW h \in Handlers, NEW to, at[h] \in Unsent, Goto(h, to),
         to \in Unsent \ {"begin"} \/ to = "idle", to # "idle" => op[h] # "exec",
         UNCHANGED <<need, chan, token, shut, closer, closerChan, timedOut>>
  PROVE  StopInv'
<1>1. /\ HandlerTypes /\ at' = [at EXCEPT ![h] = to]
      /\ op' = [op EXCEPT ![h] = IF to = "idle" THEN "none" ELSE @] /\ covered' = covered
  BY DEF Goto, StopInv
<1>2. HandlerTypes'
  BY <1>1 DEF HandlerTypes
<1>3. OpKnown' /\ TokenIsOld' /\ ShutAtEnd' /\ StopIsAnswered'
  BY <1>1 DEF StopInv, HandlerTypes, OpKnown, TokenIsOld, ShutAtEnd, StopIsAnswered, Unsent, Late
<1>4. ASSUME NEW k \in Handlers, covered'[k], at'[k] \in Unsent, op'[k] # "exec" PROVE Guarded(k)'
  <2>1. covered[k] /\ at[k] \in Unsent /\ op[k] # "exec"
    BY <1>1, <1>4 DEF HandlerTypes, Unsent
  <2>2. Guarded(k)
    BY <2>1 DEF StopInv, LoneStop
  <2>3. \A g \in Handlers \ {k} : ~Waiting(g)'
    BY <1>1, <2>2 DEF HandlerTypes, Guarded, Waiting, Unsent
  <2> QED
    BY <2>2, <2>3 DEF Guarded
<1> QED
  BY <1>2, <1>3, <1>4 DEF StopInv, LoneStop

\* The steps of a stop request after its send concern no request that is alone and
\* has not yet sent.
LEMMA LateKeeps ==
  ASSUME StopInv, NEW h \in Handlers, ResetNeed(h) \/ NewChan(h) PROVE StopInv'
<1>1. /\ HandlerTypes /\ covered' = covered
      /\ UNCHANGED <<token, shut, closer, closerChan, timedOut>>
  BY DEF ResetNeed, NewChan, Goto, closeVars, StopInv
<1>2. \/ /\ at[h] = "sent" /\ at' = [at EXCEPT ![h] = "renew"] /\ op' = op
         /\ need' = FALSE /\ UNCHANGED chan
      \/ /\ at[h] = "renew" /\ at' = [at EXCEPT ![h] = "idle"]
         /\ op' = [op EXCEPT ![h] = "none"]
         /\ chan' = chan + 1 /\ UNCHANGED need
  BY <1>1 DEF ResetNeed, NewChan, Goto, HandlerTypes
<1>3. HandlerTypes'
  <2>1. at' \in [Handlers -> {"idle", "panicked"} \cup Unsent \cup Late]
    BY <1>1, <1>2 DEF HandlerTypes, Late
  <2>2. op' \in [Handlers -> {"none", "stop", "requestStop", "exec"}]
    BY <1>1, <1>2 DEF HandlerTypes
  <2>3. chan' \in Nat
    BY <1>1, <1>2 DEF HandlerTypes
  <2>4. need' \in BOOLEAN
    BY <1>1, <1>2 DEF HandlerTypes
  <2> QED
    BY <1>1, <2>1, <2>2, <2>3, <2>4 DEF HandlerTypes
<1>4. OpKnown' /\ TokenIsOld' /\ ShutAtEnd' /\ StopIsAnswered'
  BY <1>1, <1>2 DEF StopInv, HandlerTypes, OpKnown, TokenIsOld, ShutAtEnd, StopIsAnswered, Late
<1>5. Waiting(h)
  BY <1>2, PastFirstStep
<1>6. LoneStop'
  BY <1>1, <1>2, <1>5 DEF StopInv, HandlerTypes, LoneStop, Guarded, Unsent
<1> QED
  BY <1>3, <1>4, <1>6 DEF StopInv

\* The send leaves a token in the first channel, or panics after Close has given up.
LEMMA SendKeeps == ASSUME StopInv, NEW h \in Handlers, SendToken(h) PROVE StopInv'
<1>1. /\ HandlerTypes /\ covered' = covered /\ at[h] = "send" /\ op' = op
      /\ UNCHANGED <<need, chan, shut, closer, closerChan, timedOut>>
      /\ \/ mine[h] \in shut /\ at' = [at EXCEPT ![h] = "panicked"] /\ UNCHANGED token
         \/ at' = [at EXCEPT ![h] = "sent"] /\ token' = TRUE
  BY DEF SendToken, Goto, closeVars, StopInv, HandlerTypes
<1>2. HandlerTypes'
  BY <1>1 DEF HandlerTypes, Late
<1>3. OpKnown' /\ ShutAtEnd'
  BY <1>1 DEF StopInv, HandlerTypes, OpKnown, ShutAtEnd
<1>4. TokenIsOld'
  BY <1>1 DEF StopInv, HandlerTypes, TokenIsOld, Late
<1>5. Waiting(h)
  BY <1>1, PastFirstStep
<1>6. LoneStop'
  BY <1>1, <1>5 DEF StopInv, HandlerTypes, LoneStop, Guarded, Unsent
<1>7. StopIsAnswered'
  <2>1. ASSUME covered[h], mine[h] \in shut PROVE timedOut
    <3>1. closer = "done"
      BY <2>1 DEF StopInv, ShutAtEnd
    <3> QED
      BY <1>1, <1>5, <2>1, <3>1 DEF StopInv, LoneStop, Guarded, Unsent, Waiting
  <2> QED
    BY <1>1, <2>1 DEF StopInv, HandlerTypes, StopIsAnswered
<1> QED
  BY <1>2, <1>3, <1>4, <1>6, <1>7 DEF StopInv

\* Each step of a handler is one of these.
LEMMA HandlerKeeps == ASSUME StopInv, NEW h \in Handlers, HandlerStep(h) PROVE StopInv'
<1>1. CASE BootDistro(h)
  <2> DEFINE to == CASE op[h] = "stop" -> "terminate" [] op[h] = "requestStop" -> "kill"
                     [] op[h] = "exec" -> "idle"
  <2>1. /\ at[h] = "begin" /\ Goto(h, to)
        /\ UNCHANGED <<need, chan, token, shut, closer, closerChan, timedOut>>
    BY <1>1 DEF BootDistro, waitVars, closeVars
  <2>2. op[h] \in {"stop", "requestStop", "exec"}
    BY <2>1 DEF StopInv, HandlerTypes, OpKnown
  <2> QED
    BY <2>1, <2>2, MoveKeeps DEF Unsent
<1>2. CASE KillAll(h) \/ Terminate(h) \/ Mark(h) \/ PickChan(h)
  <2>1. PICK to \in Unsent \ {"begin"} : Goto(h, to)
    BY <1>2 DEF KillAll, Terminate, Mark, PickChan, Unsent
  <2>2. /\ at[h] \in Unsent \ {"begin"}
        /\ UNCHANGED <<need, chan, token, shut, closer, closerChan, timedOut>>
    BY <1>2 DEF KillAll, Terminate, Mark, PickChan, waitVars, closeVars, Unsent
  <2>3. op[h] # "exec"
    BY <2>2, PastFirstStep DEF Waiting, Unsent
  <2> QED
    BY <2>1, <2>2, <2>3, MoveKeeps
<1>3. CASE SendToken(h)
  BY <1>3, SendKeeps
<1>4. CASE ResetNeed(h) \/ NewChan(h)
  BY <1>4, LateKeeps
<1> QED
  BY <1>1, <1>2, <1>3, <1>4 DEF HandlerStep, HandlerCode

\* Close receives from the request that is alone, or its timer ends the wait.
LEMMA CloserKeeps == ASSUME StopInv, CloserStep PROVE StopInv'
<1>1. CASE LookAtNeed \/ PickCloserChan \/ GiveUp \/ CloseChan
  <2>1. /\ UNCHANGED <<at, op, covered, need, chan, token>>
        /\ \/ closer = "idle" /\ closer' = (IF need THEN "pick" ELSE "shut")
              /\ UNCHANGED <<shut, closerChan, timedOut>>
           \/ closer = "pick" /\ closer' = "wait" /\ closerChan' = chan
              /\ UNCHANGED <<shut, timedOut>>
           \/ closer = "wait" /\ closer' = "shut" /\ timedOut' = TRUE
              /\ UNCHANGED <<shut, closerChan>>
           \/ closer = "shut" /\ closer' = "done" /\ UNCHANGED <<closerChan, timedOut>>
    <3>1. CASE LookAtNeed
      BY <3>1 DEF LookAtNeed, CloserMove, reqVars
    <3>2. CASE PickCloserChan
      BY <3>2 DEF PickCloserChan, CloserMove, reqVars
    <3>3. CASE GiveUp
      BY <3>3 DEF GiveUp, CloserMove, reqVars
    <3>4. CASE CloseChan
      BY <3>4 DEF CloseChan, CloserMove, reqVars
    <3> QED
      BY <1>1, <3>1, <3>2, <3>3, <3>4
  <2>2. HandlerTypes' /\ OpKnown' /\ TokenIsOld'
    BY <2>1 DEF StopInv, HandlerTypes, OpKnown, TokenIsOld
  <2>3. ShutAtEnd' /\ StopIsAnswered'
    BY <2>1 DEF StopInv, ShutAtEnd, StopIsAnswered
  <2>4. LoneStop'
    BY <2>1 DEF StopInv, LoneStop, Guarded, Waiting
  <2> QED
    BY <2>2, <2>3, <2>4 DEF StopInv
<1>2. CASE ReceiveToken
  <2>1. /\ HandlerTypes /\ UNCHANGED <<covered, need, chan, shut, closerChan, timedOut>>
        /\ closer = "wait" /\ closer' = "shut"
    BY <1>2 DEF ReceiveToken, CloserMove, reqVars, Goto, StopInv
  \* the token of channel 0 was not that of a request that has not yet sent
  <2>2. CASE closerChan = 0 /\ token /\ token' = FALSE /\ UNCHANGED <<at, op>>
    <3>1. ASSUME NEW h \in Handlers, covered[h], at[h] \in Unsent, op[h] # "exec" PROVE FALSE
      <4>1. Guarded(h) /\ closerChan = chan
        BY <2>1, <3>1 DEF StopInv, LoneStop, Guarded
      <4>2. PICK g \in Handlers : at[g] \in Late
        BY <2>1, <2>2, <4>1 DEF StopInv, TokenIsOld, HandlerTypes
      <4>3. Waiting(g) /\ g # h
        BY <3>1, <4>2, PastFirstStep DEF Late, Unsent
      <4> QED
        BY <4>1, <4>3 DEF Guarded
    <3>2. LoneStop'
      BY <2>1, <2>2, <3>1 DEF LoneStop
    <3> QED
      BY <2>1, <2>2, <3>2 DEF StopInv, HandlerTypes, OpKnown, TokenIsOld, ShutAtEnd, StopIsAnswered
  \* a handler that sends is the one that is alone, or there is none
  <2>3. ASSUME NEW h \in Handlers, at[h] = "send", Goto(h, "sent"), UNCHANGED token
        PROVE  StopInv'
    <3>1. at' = [at EXCEPT ![h] = "sent"] /\ op' = op
      BY <2>1, <2>3 DEF Goto, HandlerTypes
    <3>2. HandlerTypes'
      BY <2>1, <3>1 DEF HandlerTypes, Late
    <3>3. OpKnown' /\ TokenIsOld' /\ ShutAtEnd' /\ StopIsAnswered'
      BY <2>1, <2>3, <3>1 DEF StopInv, HandlerTypes, OpKnown, TokenIsOld, ShutAtEnd,
                              StopIsAnswered, Late
    <3>4. Waiting(h)
      BY <2>3, PastFirstStep
    <3>5. LoneStop'
      BY <2>1, <3>1, <3>4 DEF StopInv, HandlerTypes, LoneStop, Guarded, Unsent
    <3> QED
      BY <3>2, <3>3, <3>5 DEF StopInv
  <2> QED
    BY <1>2, <2>2, <2>3 DEF ReceiveToken, reqVars
<1> QED
  BY <1>1, <1>2 DEF CloserStep

\* Every step keeps the handshake.
LEMMA StopStep == StopInv /\ [Next]_vars => StopInv'
<1> SUFFICES ASSUME StopInv, [Next]_vars PROVE StopInv'
  OBVIOUS
<1>1. CASE UNCHANGED vars
  BY <1>1, StopStutter DEF vars, stopVars, reqVars, waitVars, closeVars
<1>2. CASE MainStep \/ GroupStep \/ EventStep \/ BindExits \/ (Alive /\ (ServeFails \/ OvmdQuits))
  BY <1>2, OthersApart, StopStutter
<1> QED
  BY <1>1, <1>2, AcceptKeeps, HandlerKeeps, CloserKeeps DEF Next

\* A stop that ends the distro is marked before Close goes on, unless Close gives
\* up after 5 s or another stop is in flight (needWait, routerRun.Close).
THEOREM StopAlwaysReported == Spec => []StopIsReported
<1>1. StopInv => StopIsReported
  <2> SUFFICES ASSUME StopInv, NEW h \in Handlers, covered[h], at[h] = "mark",
                      closer \in {"shut", "done"}
               PROVE  timedOut
    BY DEF StopIsReported
  <2>1. op[h] # "exec"
    BY PastFirstStep DEF Waiting
  <2> QED
    BY <2>1 DEF StopInv, LoneStop, Guarded, Unsent
<1> QED
  BY <1>1, StopStart, StopStep, PTL DEF Spec

\* The handler of such a stop never sends on a channel that Close has closed,
\* unless Close gave up after 5 s (needWait, routerRun.Close).
THEOREM StopAlwaysAnswered == Spec => []StopIsAnswered
<1>1. StopInv => StopIsAnswered
  BY DEF StopInv
<1> QED
  BY <1>1, StopStart, StopStep, PTL DEF Spec

-----------------------------------------------------------------------------
(* The argument for the events: main sends the only terminal one, after it *)
(* has waited for the group, so that the theorems about one ender apply    *)
(* and no other goroutine is left to notify.                               *)

EP == INSTANCE EventProofs WITH Notifiers <- Routines, Names <- RunNames,
        Terminal <- {"Exit"}, Enders <- {"main"}

\* The places of main after the wait for the group, and after its Exit.
AfterExit == {"end", "sync", "kill", "terminate", "exited"}
AfterWait == {"result", "exit"} \cup AfterExit

\* The group is over when main reports, and the distro's goroutines with it.
GroupOver == /\ main \in AfterWait => group = {}
             /\ launch = "group" => "launch" \in group
             /\ main \in {"setup", "update", "listen"} => group = {}

\* The event channel is closed by main's Exit only.
ClosedByExit ==
  closed \/ caller["main"] \in {"await", "close", "closeQueue"} => main \in AfterExit

EventInv == EP!EnderInv /\ GroupOver /\ ClosedByExit /\ NoSendOnClosed

\* A step of the run is a step of the event sender, or none.
LEMMA StepsOfEvent == [Next]_vars => [EP!Next]_EP!vars
<1> SUFFICES ASSUME [Next]_vars PROVE EP!Next \/ UNCHANGED evVars
  BY DEF evVars, EP!vars
<1>1. ASSUME NEW p \in Routines, NEW name \in RunNames, Ev!Notify(p, name) PROVE EP!Next
  BY <1>1 DEF Ev!Notify, Ev!Ignored, Ev!Enqueue, Ev!SendOnClosed, Ev!Goto, Ev!vars, Ev!accepted,
     EP!Next, EP!Notify, EP!Ignored, EP!Enqueue, EP!SendOnClosed, EP!Goto, EP!vars, EP!accepted
<1>2. CASE MainStep
  BY <1>1, <1>2 DEF MainStep, Setup, Start, Wait, Report, ExitFuncs, ExitFunc, MainFail, MainSay,
     MainMove, Ev!Setup, EP!Next, EP!Setup, Routines, RunNames
<1>3. CASE GroupStep
  BY <1>1, <1>3 DEF GroupStep, Serve, WaitBindPID, Leave, Launch, LaunchOVMD, PodmanReady,
     evVars, Routines, RunNames
<1>4. CASE EventStep
  BY <1>4 DEF EventStep, Ev!Deliver, Ev!Proceed, Ev!Handoff, Ev!ReceiveClosed, Ev!CloseDone,
     Ev!CloseQueue, Ev!Goto, EP!Next, EP!Deliver, EP!Proceed, EP!Handoff, EP!ReceiveClosed,
     EP!CloseDone, EP!CloseQueue, EP!Goto
<1>5. CASE CloserStep \/ BindExits \/ ServeFails \/ OvmdQuits
  BY <1>5 DEF CloserStep, LookAtNeed, PickCloserChan, ReceiveToken, GiveUp, CloseChan, CloserMove,
     BindExits, ServeFails, Leave, OvmdQuits
<1>6. ASSUME NEW h \in Handlers, HandlerStep(h) PROVE UNCHANGED evVars
  BY <1>6 DEF HandlerStep, BootDistro, KillAll, Terminate, HandlerCode, Mark, PickChan, SendToken,
     ResetNeed, NewChan
<1>7. ASSUME NEW h \in Handlers, NEW o \in Ops, Accept(h, o) PROVE UNCHANGED evVars
  BY <1>7 DEF Accept
<1>8. CASE UNCHANGED vars
  BY <1>8 DEF vars
<1> QED
  BY <1>2, <1>3, <1>4, <1>5, <1>6, <1>7, <1>8 DEF Next

\* main is the one ender.
LEMMA MainIsEnder == EP!OneEnder
BY DEF EP!OneEnder

\* The run's names and goroutines fit the assumptions of Event.
LEMMA NamesFit == {"Exit"} \subseteq RunNames /\ {"main"} \subseteq Routines
BY DEF RunNames, Routines

\* Every step keeps what is known of one ender.
LEMMA EnderKeeps == EP!EnderInv /\ [Next]_vars => EP!EnderInv'
BY StepsOfEvent, MainIsEnder, NamesFit, EP!EnderStep

\* At the start nothing was notified.
LEMMA EventStart == Init => EventInv
<1> SUFFICES ASSUME Init PROVE EventInv
  OBVIOUS
<1>1. EP!Init
  BY DEF Init, Ev!Init, EP!Init
<1>2. EP!EnderInv
  BY <1>1, MainIsEnder, NamesFit, EP!EnderStart
<1>3. GroupOver /\ ClosedByExit /\ NoSendOnClosed
  BY DEF Init, Ev!Init, GroupOver, ClosedByExit, NoSendOnClosed, AfterWait, AfterExit, Routines
<1> QED
  BY <1>2, <1>3 DEF EventInv

\* The steps of main and of the group keep the order of their ends.
LEMMA GroupKeeps == GroupOver /\ [Next]_vars => GroupOver'
<1> SUFFICES ASSUME GroupOver, [Next]_vars PROVE GroupOver'
  OBVIOUS
<1>1. ASSUME UNCHANGED <<main, group, launch>> PROVE GroupOver'
  BY <1>1 DEF GroupOver
<1>2. CASE MainStep
  <2>1. CASE Setup
    BY <2>1 DEF Setup, MainFail, MainMove, MainAt, GroupOver, AfterWait, AfterExit, launchVars
  <2>2. CASE Start
    BY <2>2 DEF Start, MainFail, MainAt, GroupOver, AfterWait, AfterExit, launchVars
  <2>3. CASE Wait
    BY <2>3 DEF Wait, MainAt, GroupOver, AfterWait, AfterExit, launchVars
  <2>4. CASE Report
    BY <2>4 DEF Report, MainSay, MainMove, MainAt, GroupOver, AfterWait, AfterExit, launchVars
  <2>5. CASE ExitFuncs
    BY <2>5 DEF ExitFuncs, ExitFunc, MainAt, GroupOver, AfterWait, AfterExit, launchVars
  <2> QED
    BY <1>2, <2>1, <2>2, <2>3, <2>4, <2>5 DEF MainStep
<1>3. CASE GroupStep
  <2>1. ASSUME NEW g \in {"serve", "bind"}, Leave(g) PROVE GroupOver'
    BY <2>1 DEF Leave, GroupOver, launchVars
  <2>2. CASE Launch
    BY <2>2 DEF Launch, GroupOver, mainVars
  <2>3. CASE LaunchOVMD \/ PodmanReady
    BY <1>1, <2>3 DEF LaunchOVMD, PodmanReady, mainVars
  <2> QED
    BY <1>3, <2>1, <2>2, <2>3 DEF GroupStep, Serve, WaitBindPID
<1>4. CASE ServeFails
  BY <1>4 DEF ServeFails, Leave, GroupOver, launchVars
<1>5. CASE EventStep \/ CloserStep \/ BindExits \/ OvmdQuits
  BY <1>1, <1>5 DEF EventStep, CloserStep, LookAtNeed, PickCloserChan, ReceiveToken, GiveUp,
     CloseChan, CloserMove, BindExits, OvmdQuits, mainVars, launchVars
<1>6. ASSUME NEW h \in Handlers, HandlerStep(h) PROVE GroupOver'
  BY <1>1, <1>6 DEF HandlerStep, BootDistro, KillAll, Terminate, HandlerCode, Mark, PickChan,
     SendToken, ResetNeed, NewChan, mainVars, launchVars
<1>7. ASSUME NEW h \in Handlers, NEW o \in Ops, Accept(h, o) PROVE GroupOver'
  BY <1>1, <1>7 DEF Accept, mainVars, launchVars
<1>8. CASE UNCHANGED vars
  BY <1>1, <1>8 DEF vars, mainVars, launchVars
<1> QED
  BY <1>2, <1>3, <1>4, <1>5, <1>6, <1>7, <1>8 DEF Next

\* A step changes the event sender by a notification of a goroutine that still
\* may notify, or by a step inside notify.
NotifySteps ==
  \/ main = "result" /\ main' = "exit" /\ Ev!Notify("main", "Error")
  \/ main = "exit" /\ main' = "end" /\ Ev!Notify("main", "Exit")
  \/ UNCHANGED main /\ "launch" \in group /\ Ev!Notify("launch", "Starting")
  \/ UNCHANGED main /\ launch = "group" /\ Ev!Notify("ready", "Ready")
  \/ UNCHANGED main /\ (Ev!Deliver \/ \E p \in Routines : Ev!Proceed(p))
  \/ main = "setup" /\ main' = "update" /\ Ev!Setup
  \/ /\ UNCHANGED evVars /\ (main \in AfterExit => main' \in AfterExit)
     /\ main = "exited" \/ main' # "exited" \/ (caller["main"] = "out" /\ main \in AfterExit)
     /\ main = "exit" => main' = "exit"
     /\ main' = "exit" => main \in {"result", "exit"}
     /\ main' \in AfterExit => main \in AfterExit

LEMMA StepIsOneOf == [Next]_vars => NotifySteps
<1> SUFFICES ASSUME [Next]_vars PROVE NotifySteps
  OBVIOUS
<1>1. ASSUME UNCHANGED <<evVars, main>> PROVE NotifySteps
  BY <1>1 DEF NotifySteps
<1>2. CASE MainStep
  <2> USE DEF NotifySteps, AfterExit
  <2>1. CASE Setup
    BY <2>1 DEF Setup, MainFail, MainMove, MainAt
  <2>2. CASE Start
    BY <2>2 DEF Start, MainFail, MainAt
  <2>3. CASE Wait
    BY <2>3 DEF Wait, MainAt
  <2>4. CASE Report
    BY <2>4 DEF Report, MainSay, MainMove, MainAt
  <2>5. CASE ExitFuncs
    BY <2>5 DEF ExitFuncs, ExitFunc, MainAt
  <2> QED
    BY <1>2, <2>1, <2>2, <2>3, <2>4, <2>5 DEF MainStep
<1>3. CASE GroupStep
  <2>1. CASE Launch
    BY <1>1, <2>1 DEF Launch, NotifySteps, mainVars
  <2>2. CASE PodmanReady
    BY <1>1, <2>2 DEF PodmanReady, NotifySteps, mainVars
  <2>3. CASE Serve \/ WaitBindPID \/ LaunchOVMD
    BY <1>1, <2>3 DEF Serve, WaitBindPID, Leave, LaunchOVMD, mainVars
  <2> QED
    BY <1>3, <2>1, <2>2, <2>3 DEF GroupStep
<1>4. CASE EventStep
  BY <1>4 DEF EventStep, NotifySteps, mainVars
<1>5. CASE CloserStep \/ BindExits \/ ServeFails \/ OvmdQuits
  BY <1>1, <1>5 DEF CloserStep, LookAtNeed, PickCloserChan, ReceiveToken, GiveUp, CloseChan,
     CloserMove, BindExits, ServeFails, Leave, OvmdQuits, mainVars
<1>6. ASSUME NEW h \in Handlers, HandlerStep(h) PROVE NotifySteps
  BY <1>1, <1>6 DEF HandlerStep, BootDistro, KillAll, Terminate, HandlerCode, Mark, PickChan,
     SendToken, ResetNeed, NewChan, mainVars
<1>7. ASSUME NEW h \in Handlers, NEW o \in Ops, Accept(h, o) PROVE NotifySteps
  BY <1>1, <1>7 DEF Accept, mainVars
<1>8. CASE UNCHANGED vars
  BY <1>1, <1>8 DEF vars, mainVars
<1> QED
  BY <1>2, <1>3, <1>4, <1>5, <1>6, <1>7, <1>8 DEF Next

\* Nobody who still may notify finds the channel closed.
LEMMA EventKeeps == EventInv /\ [Next]_vars => EventInv'
<1> SUFFICES ASSUME EventInv, [Next]_vars PROVE EventInv'
  OBVIOUS
<1>0. EP!EnderInv' /\ GroupOver' /\ NotifySteps
  BY EnderKeeps, GroupKeeps, StepIsOneOf DEF EventInv
<1>1. caller \in [Routines -> {"out", "await", "close", "closeQueue", "panicked"}]
  BY DEF EventInv, EP!EnderInv, EP!StreamInv, EP!TypeOK
<1>2. \A p \in Routines \ {"main"} : caller[p] \notin {"await", "close", "closeQueue"}
  BY DEF EventInv, EP!EnderInv, EP!EnderPhase
\* a notification other than main's Exit
<1>3. ASSUME NEW p \in Routines, NEW name \in RunNames \ {"Exit"}, Ev!Notify(p, name),
             main \notin AfterExit
      PROVE  ClosedByExit' /\ NoSendOnClosed'
  <2>1. ~closed
    BY <1>3 DEF EventInv, ClosedByExit
  <2>2. UNCHANGED <<caller, closed>>
    BY <1>3, <2>1 DEF Ev!Notify, Ev!Ignored, Ev!Enqueue, Ev!SendOnClosed, Ev!vars
  <2> QED
    BY <1>3, <2>1, <2>2 DEF EventInv, ClosedByExit, NoSendOnClosed
<1>4. CASE main = "result" /\ main' = "exit" /\ Ev!Notify("main", "Error")
  BY <1>0, <1>3, <1>4 DEF EventInv, AfterExit, Routines, RunNames
<1>5. CASE main = "exit" /\ main' = "end" /\ Ev!Notify("main", "Exit")
  <2>1. ~closed
    BY <1>5 DEF EventInv, ClosedByExit, AfterExit
  <2>2. caller' = [caller EXCEPT !["main"] = "await"] \/ UNCHANGED caller
    BY <1>5, <2>1 DEF Ev!Notify, Ev!Ignored, Ev!Enqueue, Ev!SendOnClosed, Ev!vars, Ev!Goto
  <2>3. ClosedByExit' /\ NoSendOnClosed'
    BY <1>1, <1>5, <2>2 DEF EventInv, ClosedByExit, NoSendOnClosed, AfterExit
  <2> QED
    BY <1>0, <2>3 DEF EventInv
<1>6. CASE UNCHANGED main /\ "launch" \in group /\ Ev!Notify("launch", "Starting")
  <2>1. main \notin AfterExit
    BY <1>6 DEF EventInv, GroupOver, AfterWait
  <2> QED
    BY <1>0, <1>3, <1>6, <2>1 DEF EventInv, Routines, RunNames
<1>7. CASE UNCHANGED main /\ launch = "group" /\ Ev!Notify("ready", "Ready")
  <2>1. main \notin AfterExit
    BY <1>7 DEF EventInv, GroupOver, AfterWait
  <2> QED
    BY <1>0, <1>3, <1>7, <2>1 DEF EventInv, Routines, RunNames
<1>8. CASE UNCHANGED main /\ (Ev!Deliver \/ \E p \in Routines : Ev!Proceed(p))
  <2>1. CASE Ev!Deliver
    <3>1. ClosedByExit' /\ NoSendOnClosed'
      BY <1>8, <2>1 DEF Ev!Deliver, EventInv, ClosedByExit, NoSendOnClosed
    <3> QED
      BY <1>0, <3>1 DEF EventInv
  <2>2. ASSUME NEW p \in Routines, Ev!Proceed(p) PROVE EventInv'
    <3>1. p = "main" /\ caller[p] \in {"await", "close", "closeQueue"}
      BY <1>2, <2>2 DEF Ev!Proceed, Ev!Handoff, Ev!ReceiveClosed, Ev!CloseDone, Ev!CloseQueue
    <3>2. main \in AfterExit
      BY <3>1 DEF EventInv, ClosedByExit
    \* the first close of waitDone is the only one
    <3>3. caller[p] = "close" => ~doneClosed
      BY DEF EventInv, EP!EnderInv, EP!EnderPhase
    <3>4. PICK where \in {"close", "closeQueue", "out"} : caller' = [caller EXCEPT ![p] = where]
      BY <2>2, <3>3 DEF Ev!Proceed, Ev!Handoff, Ev!ReceiveClosed, Ev!CloseDone, Ev!CloseQueue,
         Ev!Goto
    <3>5. NoSendOnClosed'
      BY <1>1, <3>4 DEF EventInv, NoSendOnClosed
    <3> QED
      BY <1>0, <1>8, <3>2, <3>5 DEF EventInv, ClosedByExit
  <2> QED
    BY <1>8, <2>1, <2>2
<1>9. CASE main = "setup" /\ main' = "update" /\ Ev!Setup
  <2>1. ClosedByExit' /\ NoSendOnClosed'
    BY <1>9 DEF Ev!Setup, EventInv, ClosedByExit, NoSendOnClosed, AfterExit
  <2> QED
    BY <1>0, <2>1 DEF EventInv
<1>10. CASE UNCHANGED evVars /\ (main \in AfterExit => main' \in AfterExit)
  <2>1. ClosedByExit' /\ NoSendOnClosed'
    BY <1>10 DEF evVars, EventInv, ClosedByExit, NoSendOnClosed
  <2> QED
    BY <1>0, <2>1 DEF EventInv
<1> QED
  BY <1>0, <1>4, <1>5, <1>6, <1>7, <1>8, <1>9, <1>10 DEF NotifySteps

\* No goroutine sends on the event channel after main's Exit has closed it, for any
\* requests and failures (Notify, event.go:135-145; g.Wait, main.go).
THEOREM NeverSendsOnClosed == Spec => []NoSendOnClosed
<1>1. EventInv => NoSendOnClosed
  BY DEF EventInv
<1> QED
  BY <1>1, EventStart, EventKeeps, PTL DEF Spec

\* main gets past the wait of its Exit only when the client has been sent it
\* (Notify, event.go:138).
THEOREM ExitIsSent == Spec => []ReturnMeansProcessed
<1>1. EventInv => ReturnMeansProcessed
  BY DEF EventInv, EP!EnderInv, EP!ReturnMeansProcessed, ReturnMeansProcessed,
         Ev!ReturnMeansProcessed
<1> QED
  BY <1>1, EventStart, EventKeeps, PTL DEF Spec

-----------------------------------------------------------------------------
(* The argument for the order of the events: main accepts Error and Exit   *)
(* last, and the Exit it has waited for is the last one attempted.         *)

Ends == {"Error", "Exit"}
Accepted == Ev!accepted

\* Error and Exit are accepted from main, when it is done with its result.
EndsByMain == \A i \in 1..Len(Accepted) : Accepted[i] \in Ends => main \in {"exit"} \cup AfterExit
EndsInOrder ==
  \A i, j \in 1..Len(Accepted) : i < j /\ Accepted[i] \in Ends => Accepted[j] = "Exit"
\* main remembers where its Exit is, and is not inside notify when the process ends.
ExitIsHeld ==
  /\ held["main"] # 0 => held["main"] \in 1..Len(Accepted) /\ Accepted[held["main"]] = "Exit"
  /\ main \in AfterExit /\ sender # "none" => held["main"] # 0
  /\ main = "exited" => caller["main"] = "out"

OrderInv == EventInv /\ EndsByMain /\ EndsInOrder /\ ExitIsHeld

\* At the start nothing was accepted.
LEMMA OrderStart == Init => OrderInv
<1> SUFFICES ASSUME Init PROVE OrderInv
  OBVIOUS
<1>1. Len(Accepted) = 0
  BY EP!EmptySeq, EP!ConcatEmptySeq DEF Init, Ev!Init, Accepted, Ev!accepted
<1>2. held["main"] = 0 /\ main = "setup"
  BY DEF Init, Ev!Init, Routines
<1> QED
  BY <1>1, <1>2, EventStart DEF OrderInv, EndsByMain, EndsInOrder, ExitIsHeld, AfterExit

\* A step that accepts nothing.
LEMMA QuietKeeps ==
  ASSUME OrderInv, EventInv', UNCHANGED <<Accepted, held>>,
         sender' = "none" \/ sender # "none" \/ main' \notin AfterExit,
         main \in {"exit"} \cup AfterExit => main' \in {"exit"} \cup AfterExit,
         main' \in AfterExit => main \in AfterExit \/ (main = "exit" /\ sender' = "none"),
         main' = "exited" => caller'["main"] = "out"
  PROVE  OrderInv'
<1>1. EndsByMain' /\ EndsInOrder'
  BY DEF OrderInv, EndsByMain, EndsInOrder
<1>2. ExitIsHeld'
  BY DEF OrderInv, ExitIsHeld
<1> QED
  BY <1>1, <1>2 DEF OrderInv

\* A notification before Setup is ignored; a later one adds its event at the end.
LEMMA NotifyAccepts ==
  ASSUME OrderInv, NEW p \in Routines, NEW name \in RunNames, Ev!Notify(p, name), ~closed
  PROVE  \/ sender = "none" /\ UNCHANGED evVars
         \/ /\ sender # "none" /\ UNCHANGED sender
            /\ Len(Accepted) \in Nat /\ Len(Accepted') = Len(Accepted) + 1
            /\ \A i \in 1..Len(Accepted) : Accepted'[i] = Accepted[i]
            /\ Accepted'[Len(Accepted) + 1] = name
            /\ held' = IF name = "Exit" THEN [held EXCEPT ![p] = Len(Accepted) + 1] ELSE held
            /\ caller' = IF name = "Exit" THEN [caller EXCEPT ![p] = "await"] ELSE caller
<1>1. EP!TypeOK
  BY DEF OrderInv, EventInv, EP!EnderInv, EP!StreamInv
<1>2. CASE Ev!Ignored
  BY <1>2 DEF Ev!Ignored, Ev!vars, evVars
<1>3. CASE Ev!Enqueue(p, name)
  <2>1. EP!Enqueue(p, name)
    BY <1>3 DEF Ev!Enqueue, EP!Enqueue, Ev!Goto, EP!Goto, Ev!accepted, EP!accepted
  <2>2. Accepted = EP!accepted
    BY DEF Accepted, Ev!accepted, EP!accepted
  <2>3. /\ Len(EP!accepted) \in Nat /\ Len(EP!accepted') = Len(EP!accepted) + 1
        /\ \A i \in 1..Len(EP!accepted) : EP!accepted'[i] = EP!accepted[i]
        /\ EP!accepted'[Len(EP!accepted) + 1] = name
    BY <1>1, <2>1, NamesFit, EP!EnqueueAppends, EP!AcceptedFacts
  <2>4. Accepted' = EP!accepted'
    BY DEF Accepted, Ev!accepted, EP!accepted
  <2>5. /\ held' = IF name = "Exit" THEN [held EXCEPT ![p] = Len(Accepted) + 1] ELSE held
        /\ caller' = IF name = "Exit" THEN [caller EXCEPT ![p] = "await"] ELSE caller
        /\ sender # "none" /\ UNCHANGED sender
    BY <1>3 DEF Ev!Enqueue, Ev!Goto, Accepted
  <2> QED
    BY <2>2, <2>3, <2>4, <2>5
<1> QED
  BY <1>2, <1>3 DEF Ev!Notify, Ev!SendOnClosed

\* Every step keeps the order.
LEMMA OrderStep == OrderInv /\ [Next]_vars => OrderInv'
<1> SUFFICES ASSUME OrderInv, [Next]_vars PROVE OrderInv'
  OBVIOUS
<1>0. EventInv' /\ NotifySteps
  BY EventKeeps, StepIsOneOf DEF OrderInv
<1>1. ~closed \/ main \in AfterExit
  BY DEF OrderInv, EventInv, ClosedByExit
<1>11. /\ held \in [Routines -> Nat]
      /\ caller \in [Routines -> {"out", "await", "close", "closeQueue", "panicked"}]
  BY DEF OrderInv, EventInv, EP!EnderInv, EP!StreamInv, EP!TypeOK
\* the goroutines of the distro
<1>2. ASSUME NEW p \in Routines, NEW name \in RunNames \ Ends, Ev!Notify(p, name),
             UNCHANGED main, main \notin AfterWait
      PROVE  OrderInv'
  <2>1. ~closed
    BY <1>1, <1>2 DEF AfterWait
  <2>2. CASE sender = "none" /\ UNCHANGED evVars
    BY <1>0, <1>2, <2>2, QuietKeeps DEF evVars, Accepted, Ev!accepted, AfterWait, AfterExit
  <2>3. CASE sender # "none" /\ ~(sender = "none" /\ UNCHANGED evVars)
    <3>1. /\ Len(Accepted) \in Nat /\ Len(Accepted') = Len(Accepted) + 1
          /\ \A i \in 1..Len(Accepted) : Accepted'[i] = Accepted[i]
          /\ Accepted'[Len(Accepted) + 1] = name
          /\ UNCHANGED <<held, caller, sender>>
      BY <1>2, <2>1, <2>3, NotifyAccepts DEF Ends
    <3>2. \A i \in 1..Len(Accepted) : Accepted[i] \notin Ends
      BY <1>2 DEF OrderInv, EndsByMain, AfterWait
    <3>3. EndsByMain' /\ EndsInOrder'
      BY <1>2, <3>1, <3>2 DEF EndsByMain, EndsInOrder
    <3>4. ExitIsHeld'
      BY <1>2, <1>11, <3>1 DEF OrderInv, ExitIsHeld
    <3> QED
      BY <1>0, <3>3, <3>4 DEF OrderInv
  <2> QED
    BY <1>2, <2>1, <2>2, <2>3, NotifyAccepts
<1>3. CASE main = "result" /\ main' = "exit" /\ Ev!Notify("main", "Error")
  <2>1. ~closed
    BY <1>1, <1>3 DEF AfterExit
  <2>2. CASE sender = "none" /\ UNCHANGED evVars
    BY <1>0, <1>3, <2>2, QuietKeeps DEF evVars, Accepted, Ev!accepted, AfterExit
  <2>3. CASE sender # "none"
    <3>1. /\ Len(Accepted) \in Nat /\ Len(Accepted') = Len(Accepted) + 1
          /\ \A i \in 1..Len(Accepted) : Accepted'[i] = Accepted[i]
          /\ UNCHANGED <<held, caller, sender>>
      BY <1>3, <2>1, <2>3, NotifyAccepts DEF RunNames, Routines
    <3>2. \A i \in 1..Len(Accepted) : Accepted[i] \notin Ends
      BY <1>3 DEF OrderInv, EndsByMain, AfterExit
    <3>3. EndsByMain' /\ EndsInOrder'
      BY <1>3, <3>1, <3>2 DEF EndsByMain, EndsInOrder
    <3>4. ExitIsHeld'
      BY <1>3, <1>11, <3>1 DEF OrderInv, ExitIsHeld, AfterExit
    <3> QED
      BY <1>0, <3>3, <3>4 DEF OrderInv
  <2> QED
    BY <2>2, <2>3, <1>3, <2>1, NotifyAccepts DEF RunNames, Routines
<1>4. CASE main = "exit" /\ main' = "end" /\ Ev!Notify("main", "Exit")
  <2>1. ~closed
    BY <1>1, <1>4 DEF AfterExit
  <2>2. CASE sender = "none" /\ UNCHANGED evVars
    BY <1>0, <1>4, <2>2, QuietKeeps DEF evVars, Accepted, Ev!accepted, AfterExit
  <2>3. CASE sender # "none"
    <3> DEFINE n == Len(Accepted) + 1
    <3>1. /\ Len(Accepted) \in Nat /\ Len(Accepted') = n
          /\ \A i \in 1..Len(Accepted) : Accepted'[i] = Accepted[i]
          /\ Accepted'[n] = "Exit" /\ held' = [held EXCEPT !["main"] = n]
      BY <1>4, <2>1, <2>3, NotifyAccepts DEF RunNames, Routines
    <3>2. EndsByMain' /\ EndsInOrder'
      BY <1>4, <3>1 DEF OrderInv, EndsByMain, EndsInOrder, AfterExit
    <3>3. "main" \in Routines /\ n \in 1..n /\ n # 0
      BY <3>1 DEF Routines
    <3> HIDE DEF n
    <3>4. ExitIsHeld'
      BY <1>4, <1>11, <3>1, <3>3 DEF ExitIsHeld
    <3> QED
      BY <1>0, <3>2, <3>4 DEF OrderInv
  <2> QED
    BY <2>2, <2>3, <1>4, <2>1, NotifyAccepts DEF RunNames, Routines
<1>5. CASE UNCHANGED main /\ "launch" \in group /\ Ev!Notify("launch", "Starting")
  <2>1. main \notin AfterWait
    BY <1>5 DEF OrderInv, EventInv, GroupOver
  <2> QED
    BY <1>2, <1>5, <2>1 DEF Routines, RunNames, Ends
<1>6. CASE UNCHANGED main /\ launch = "group" /\ Ev!Notify("ready", "Ready")
  <2>1. main \notin AfterWait
    BY <1>6 DEF OrderInv, EventInv, GroupOver
  <2> QED
    BY <1>2, <1>6, <2>1 DEF Routines, RunNames, Ends
<1>7. CASE UNCHANGED main /\ Ev!Deliver
  <2>1. EP!TypeOK /\ EP!Deliver
    BY <1>7 DEF Ev!Deliver, EP!Deliver, OrderInv, EventInv, EP!EnderInv, EP!StreamInv
  <2>2. EP!accepted' = EP!accepted
    BY <2>1, NamesFit, EP!DeliverKeeps
  <2>3. UNCHANGED Accepted
    BY <2>2 DEF Accepted, Ev!accepted, EP!accepted
  <2>4. UNCHANGED <<held, caller>> /\ sender # "none"
    BY <1>7 DEF Ev!Deliver
  <2> QED
    BY <1>0, <1>7, <2>3, <2>4, QuietKeeps DEF OrderInv, ExitIsHeld
<1>8. ASSUME UNCHANGED main, NEW p \in Routines, Ev!Proceed(p) PROVE OrderInv'
  <2>1. UNCHANGED <<Accepted, held>> /\ (sender' = sender \/ sender # "none")
    BY <1>8 DEF Ev!Proceed, Ev!Handoff, Ev!ReceiveClosed, Ev!CloseDone, Ev!CloseQueue, Accepted,
       Ev!accepted
  <2>2. p = "main" => caller["main"] # "out"
    BY <1>8 DEF Ev!Proceed, Ev!Handoff, Ev!ReceiveClosed, Ev!CloseDone, Ev!CloseQueue
  <2>3. p # "main" => caller'["main"] = caller["main"]
    <3>1. PICK where : caller' = [caller EXCEPT ![p] = where]
      BY <1>8 DEF Ev!Proceed, Ev!Handoff, Ev!ReceiveClosed, Ev!CloseDone, Ev!CloseQueue, Ev!Goto
    <3> QED
      BY <1>11, <3>1 DEF Routines
  <2>4. main' = "exited" => caller'["main"] = "out"
    BY <1>8, <2>2, <2>3 DEF OrderInv, ExitIsHeld
  <2> QED
    BY <1>0, <1>8, <2>1, <2>4, QuietKeeps
<1>9. CASE main = "setup" /\ main' = "update" /\ Ev!Setup
  <2>1. UNCHANGED <<Accepted, held>>
    BY <1>9 DEF Ev!Setup, Accepted, Ev!accepted
  <2> QED
    BY <1>0, <1>9, <2>1, QuietKeeps DEF AfterExit
<1>10. ASSUME UNCHANGED evVars, main \in AfterExit => main' \in AfterExit,
              main = "exited" \/ main' # "exited" \/ (caller["main"] = "out" /\ main \in AfterExit),
              main = "exit" => main' = "exit", main' \in AfterExit => main \in AfterExit
       PROVE  OrderInv'
  <2>1. UNCHANGED <<Accepted, held, sender, caller>>
    BY <1>10 DEF evVars, Accepted, Ev!accepted
  <2> QED
    BY <1>0, <1>10, <2>1, QuietKeeps DEF OrderInv, ExitIsHeld
<1> QED
  BY <1>0, <1>3, <1>4, <1>5, <1>6, <1>7, <1>8, <1>9, <1>10 DEF NotifySteps

\* Error and Exit are the last events, and the process ends only when its client
\* has been sent Exit, for any requests and failures (main, g.Wait, Notify).
THEOREM EndAlwaysLast == Spec => []EndComesLast
<1>1. OrderInv => EndComesLast
  <2> SUFFICES ASSUME OrderInv PROVE EndComesLast
    OBVIOUS
  <2>1. \A i, j \in 1..Len(Ev!accepted) :
          i < j /\ Ev!accepted[i] \in {"Error", "Exit"} => Ev!accepted[j] = "Exit"
    BY DEF OrderInv, EndsInOrder, Accepted, Ends
  <2>2. ASSUME main = "exited", sender # "none" PROVE "Exit" = processed[Len(processed)]
    <3> DEFINE n == held["main"]
    <3>1. /\ n # 0 /\ n \in 1..Len(Accepted) /\ Accepted[n] = "Exit" /\ caller["main"] = "out"
      BY <2>2 DEF OrderInv, ExitIsHeld, AfterExit
    <3>2. n <= Len(processed)
      BY <3>1 DEF OrderInv, EventInv, EP!EnderInv, EP!ReturnMeansProcessed, Routines
    <3>3. EP!TypeOK /\ EP!NothingAfterTerminal
      BY DEF OrderInv, EventInv, EP!EnderInv, EP!StreamInv
    <3>4. /\ Len(processed) \in Nat
          /\ \A i \in 1..Len(processed) : EP!accepted[i] = processed[i]
      BY <3>3, NamesFit, EP!AcceptedFacts
    <3>5. n \in 1..Len(processed)
      BY <3>1, <3>2, <3>4
    <3>6. processed[n] = "Exit"
      BY <3>1, <3>4, <3>5 DEF Accepted, Ev!accepted, EP!accepted
    <3>7. n = Len(processed)
      BY <3>3, <3>5, <3>6 DEF EP!NothingAfterTerminal
    <3> QED
      BY <3>6, <3>7
  <2> QED
    BY <2>1, <2>2 DEF EndComesLast
<1> QED
  BY <1>1, OrderStart, OrderStep, PTL DEF Spec

-----------------------------------------------------------------------------
\* The process does not leave the distro behind, for any requests and failures of
\* other things than the exit function's own commands (util.Exit, RequestStop).
THEOREM ExitAlwaysStopsDistro == Spec => []ExitStopsDistro
<1>1. Init => ExitStopsDistro
  BY DEF Init, ExitStopsDistro
<1>2. ASSUME ExitStopsDistro, [Next]_vars PROVE ExitStopsDistro'
  <2>1. CASE UNCHANGED <<main, ovmd, distro, disturbed>>
    BY <1>2, <2>1 DEF ExitStopsDistro
  <2>2. CASE MainStep
    <3>1. CASE Report
      BY <3>1 DEF Report, MainSay, MainMove, MainAt, launchVars, ExitStopsDistro
    <3>2. CASE ExitFuncs
      BY <3>2 DEF ExitFuncs, ExitFunc, MainAt, launchVars, ExitStopsDistro
    <3>3. CASE Setup \/ Start \/ Wait
      BY <3>3 DEF Setup, Start, Wait, MainFail, MainMove, MainAt, ExitStopsDistro
    <3> QED
      BY <2>2, <3>1, <3>2, <3>3 DEF MainStep
  \* nothing runs any more once main has left
  <2>3. ASSUME Alive, UNCHANGED main PROVE ExitStopsDistro'
    BY <2>3 DEF Alive, ExitStopsDistro
  <2>4. CASE GroupStep
    BY <2>3, <2>4 DEF GroupStep, Serve, WaitBindPID, Leave, Launch, LaunchOVMD, PodmanReady, mainVars
  <2>5. CASE CloserStep \/ EventStep
    BY <2>3, <2>5 DEF CloserStep, LookAtNeed, PickCloserChan, ReceiveToken, GiveUp, CloseChan,
       CloserMove, EventStep, mainVars
  <2>6. CASE BindExits
    BY <2>1, <2>6 DEF BindExits, mainVars, launchVars
  <2>7. CASE Alive /\ (ServeFails \/ OvmdQuits)
    BY <2>3, <2>7 DEF ServeFails, Leave, OvmdQuits, mainVars
  <2>8. ASSUME NEW h \in Handlers, HandlerStep(h) PROVE ExitStopsDistro'
    BY <2>3, <2>8 DEF HandlerStep, BootDistro, KillAll, Terminate, HandlerCode, Mark, PickChan,
       SendToken, ResetNeed, NewChan, mainVars
  <2>9. ASSUME NEW h \in Handlers, NEW o \in Ops, Alive /\ Accept(h, o) PROVE ExitStopsDistro'
    BY <2>3, <2>9 DEF Accept, mainVars
  <2>10. CASE UNCHANGED vars
    BY <2>1, <2>10 DEF vars, mainVars, launchVars
  <2> QED
    BY <1>2, <2>2, <2>4, <2>5, <2>6, <2>7, <2>8, <2>9, <2>10 DEF Next
<1> QED
  BY <1>1, <1>2, PTL DEF Spec

-----------------------------------------------------------------------------
(* The types.  That waitClose is renewed no more often than requests come  *)
(* needs a count: each renewal ends a request.                             *)

MainPlaces == {"setup", "update", "listen", "wait", "result", "exit", "end", "sync", "kill",
               "terminate", "exited"}

ScalarTypes ==
  /\ main \in MainPlaces
  /\ {err, bindAlive, ctxDone, innerErr, distro, stopped, token, timedOut, disturbed}
       \subseteq BOOLEAN
  /\ group \subseteq {"serve", "bind", "launch"}
  /\ launch \in {"start", "mount", "group", "returned"}
  /\ ovmd \in {"register", "start", "running", "killed", "returned"}
  /\ ready \in {"poll", "say", "returned"}
  /\ closer \in {"idle", "pick", "wait", "shut", "done"}

\* The requests under way.
Active == {h \in Handlers : at[h] # "idle"}

Counted == IsFiniteSet(Active) /\ chan + Cardinality(Active) <= requests

ChanTypes ==
  /\ requests \in 0..MaxRequests /\ Counted
  /\ mine \in [Handlers -> 0..MaxRequests] /\ shut \subseteq 0..MaxRequests
  /\ closerChan \in 0..MaxRequests

RunInv == StopInv /\ EP!TypeOK /\ ScalarTypes /\ ChanTypes

\* At the start everything has its type.
LEMMA RunStart == Init => RunInv
<1> SUFFICES ASSUME Init PROVE RunInv
  OBVIOUS
<1>1. EP!TypeOK
  BY NamesFit, EP!TypeStart DEF Init, Ev!Init, EP!Init
<1>2. ScalarTypes
  BY DEF Init, ScalarTypes, MainPlaces
<1>3. ChanTypes
  <2>1. Active = {}
    BY DEF Init, Active
  <2>2. Counted
    <3>1. chan = 0 /\ requests = 0 /\ IsFiniteSet(Active) /\ Cardinality(Active) = 0
      BY <2>1, FS_EmptySet DEF Init
    <3> QED
      BY <3>1 DEF Counted
  <2>3. 0 \in 0..MaxRequests
    BY MaxRequestsAssumption
  <2> QED
    BY <2>2, <2>3 DEF Init, ChanTypes
<1> QED
  BY <1>1, <1>2, <1>3, StopStart DEF RunInv

\* The steps of main keep the types.
LEMMA MainScalars == ASSUME ScalarTypes, MainStep PROVE ScalarTypes'
<1> USE DEF ScalarTypes, MainPlaces, launchVars, waitVars, closeVars
<1>1. CASE Setup
  BY <1>1 DEF Setup, MainFail, MainMove, MainAt
<1>2. CASE Start
  BY <1>2 DEF Start, MainFail, MainAt
<1>3. CASE Wait
  BY <1>3 DEF Wait, MainAt
<1>4. CASE Report
  BY <1>4 DEF Report, MainSay, MainMove, MainAt
<1>5. CASE ExitFuncs
  <2>1. ASSUME NEW from, NEW to \in {"kill", "terminate", "exited"},
               NEW running \in BOOLEAN, NEW failed \in BOOLEAN, ExitFunc(from, to, running, failed)
        PROVE  ScalarTypes'
    BY <2>1 DEF ExitFunc, MainAt
  <2>2. distro \in BOOLEAN
    OBVIOUS
  <2> QED
    BY <1>5, <2>1, <2>2 DEF ExitFuncs
<1> QED
  BY <1>1, <1>2, <1>3, <1>4, <1>5 DEF MainStep

\* So do those of the group.
LEMMA GroupScalars ==
  ASSUME ScalarTypes, GroupStep \/ BindExits \/ ServeFails \/ OvmdQuits PROVE ScalarTypes'
<1> USE DEF ScalarTypes, mainVars, launchVars, waitVars, closeVars
<1>1. CASE Serve \/ WaitBindPID \/ ServeFails
  BY <1>1 DEF Serve, WaitBindPID, ServeFails, Leave
<1>2. CASE Launch
  BY <1>2 DEF Launch
<1>3. CASE LaunchOVMD
  <2>1. /\ ovmd' \in {"start", "running", "returned"}
        /\ innerErr' \in {TRUE, innerErr} /\ distro' \in {TRUE, distro}
    BY <1>3 DEF LaunchOVMD
  <2> QED
    BY <1>3, <2>1 DEF LaunchOVMD
<1>4. CASE PodmanReady
  BY <1>4 DEF PodmanReady
<1>5. CASE BindExits \/ OvmdQuits
  BY <1>5 DEF BindExits, OvmdQuits
<1> QED
  BY <1>1, <1>2, <1>3, <1>4, <1>5 DEF GroupStep

\* So do those of the requests and of Close.
LEMMA RequestScalars ==
  ASSUME ScalarTypes,
         \/ CloserStep
         \/ \E h \in Handlers : HandlerStep(h)
         \/ \E h \in Handlers, o \in Ops : Accept(h, o)
  PROVE  ScalarTypes'
<1> USE DEF ScalarTypes, mainVars, launchVars, waitVars, closeVars
<1>1. CASE CloserStep
  <2>1. CASE LookAtNeed \/ PickCloserChan
    BY <2>1 DEF LookAtNeed, PickCloserChan, CloserMove
  <2>2. CASE ReceiveToken
    BY <2>2 DEF ReceiveToken, CloserMove
  <2>3. CASE GiveUp \/ CloseChan
    BY <2>3 DEF GiveUp, CloseChan, CloserMove
  <2> QED
    BY <1>1, <2>1, <2>2, <2>3 DEF CloserStep
<1>2. ASSUME NEW h \in Handlers, HandlerStep(h) PROVE ScalarTypes'
  <2>1. CASE BootDistro(h)
    BY <2>1 DEF BootDistro
  <2>2. CASE KillAll(h)
    BY <2>2 DEF KillAll, OvmdEnds
  <2>3. CASE Terminate(h)
    BY <2>3 DEF Terminate, OvmdEnds
  <2>4. CASE Mark(h) \/ PickChan(h) \/ SendToken(h)
    BY <2>4 DEF Mark, PickChan, SendToken
  <2>5. CASE ResetNeed(h) \/ NewChan(h)
    BY <2>5 DEF ResetNeed, NewChan
  <2> QED
    BY <1>2, <2>1, <2>2, <2>3, <2>4, <2>5 DEF HandlerStep, HandlerCode
<1>3. ASSUME NEW h \in Handlers, NEW o \in Ops, Accept(h, o) PROVE ScalarTypes'
  BY <1>3 DEF Accept
<1> QED
  BY <1>1, <1>2, <1>3

\* What the steps of a request and of Close count: a request that begins is counted
\* among the requests, and one that renews the channel ends.
LEMMA RequestMoves ==
  ASSUME HandlerTypes, NEW h \in Handlers, HandlerStep(h)
  PROVE  /\ at[h] # "idle"
         /\ \E to : /\ at' = [at EXCEPT ![h] = to]
                    /\ chan' = chan \/ (to = "idle" /\ chan' = chan + 1)
         /\ mine' = mine \/ mine' = [mine EXCEPT ![h] = chan]
         /\ UNCHANGED <<requests, shut, closerChan>>
<1> USE DEF Goto, waitVars, closeVars
<1>1. CASE BootDistro(h)
  BY <1>1 DEF BootDistro
<1>2. CASE KillAll(h) \/ Terminate(h)
  BY <1>2 DEF KillAll, Terminate
<1>3. CASE Mark(h) \/ PickChan(h)
  BY <1>3 DEF Mark, PickChan
<1>4. CASE SendToken(h)
  BY <1>4 DEF SendToken
<1>5. CASE ResetNeed(h) \/ NewChan(h)
  BY <1>5 DEF ResetNeed, NewChan
<1> QED
  BY <1>1, <1>2, <1>3, <1>4, <1>5 DEF HandlerStep, HandlerCode

\* The current channel is one of the first MaxRequests.
LEMMA ChanBounded == HandlerTypes /\ ChanTypes => chan \in 0..MaxRequests
<1> SUFFICES ASSUME HandlerTypes, ChanTypes PROVE chan \in 0..MaxRequests
  OBVIOUS
<1>1. Cardinality(Active) \in Nat
  BY FS_CardinalityType DEF ChanTypes, Counted
<1> QED
  BY <1>1, MaxRequestsAssumption DEF HandlerTypes, ChanTypes, Counted

\* Every step keeps the count and the channels.
LEMMA ChanStep == HandlerTypes /\ ChanTypes /\ [Next]_vars => ChanTypes'
<1> SUFFICES ASSUME HandlerTypes, ChanTypes, [Next]_vars PROVE ChanTypes'
  OBVIOUS
<1>1. chan \in 0..MaxRequests /\ Cardinality(Active) \in Nat /\ chan \in Nat /\ requests \in Nat
  BY ChanBounded, FS_CardinalityType DEF ChanTypes, Counted, HandlerTypes
<1>2. ASSUME UNCHANGED <<at, requests, chan>> PROVE Counted'
  BY <1>2 DEF ChanTypes, Counted, Active
<1>3. ASSUME UNCHANGED <<at, requests, chan, mine, shut, closerChan>> PROVE ChanTypes'
  BY <1>2, <1>3 DEF ChanTypes
<1>4. ASSUME NEW h \in Handlers, NEW o \in Ops, Accept(h, o) PROVE ChanTypes'
  <2>1. /\ at[h] = "idle" /\ at' = [at EXCEPT ![h] = "begin"]
        /\ requests < MaxRequests /\ requests' = requests + 1 /\ chan' = chan
        /\ UNCHANGED <<mine, shut, closerChan>>
    BY <1>4 DEF Accept, closeVars
  <2>2. Active' = Active \cup {h} /\ h \notin Active
    BY <2>1 DEF HandlerTypes, Active
  <2>3. IsFiniteSet(Active') /\ Cardinality(Active') = Cardinality(Active) + 1
    BY <2>2, FS_AddElement DEF ChanTypes, Counted
  <2>4. requests' \in 0..MaxRequests /\ chan' + Cardinality(Active') <= requests'
    BY <1>1, <2>1, <2>3, MaxRequestsAssumption DEF ChanTypes, Counted
  <2> QED
    BY <2>1, <2>3, <2>4 DEF ChanTypes, Counted
<1>5. ASSUME NEW h \in Handlers, HandlerStep(h) PROVE ChanTypes'
  <2>1. /\ at[h] # "idle" /\ UNCHANGED <<requests, shut, closerChan>>
        /\ mine' = mine \/ mine' = [mine EXCEPT ![h] = chan]
    BY <1>5, RequestMoves
  <2>2. PICK to : /\ at' = [at EXCEPT ![h] = to]
                  /\ chan' = chan \/ (to = "idle" /\ chan' = chan + 1)
    BY <1>5, RequestMoves
  <2>3. mine' \in [Handlers -> 0..MaxRequests]
    BY <1>1, <2>1 DEF ChanTypes
  <2>4. CASE to = "idle"
    <3>1. Active' = Active \ {h} /\ h \in Active
      BY <2>1, <2>2, <2>4 DEF HandlerTypes, Active
    <3>2. IsFiniteSet(Active') /\ Cardinality(Active') = Cardinality(Active) - 1
      BY <3>1, FS_RemoveElement DEF ChanTypes, Counted
    <3>3. chan' + Cardinality(Active') <= requests'
      BY <1>1, <2>1, <2>2, <3>2 DEF ChanTypes, Counted
    <3> QED
      BY <2>1, <2>3, <3>2, <3>3 DEF ChanTypes, Counted
  <2>5. CASE to # "idle"
    <3>1. Active' = Active
      BY <2>1, <2>2, <2>5 DEF HandlerTypes, Active
    <3> QED
      BY <2>1, <2>2, <2>3, <2>5, <3>1 DEF ChanTypes, Counted
  <2> QED
    BY <2>4, <2>5
<1>6. CASE CloserStep
  <2>1. CASE LookAtNeed \/ GiveUp
    BY <1>3, <2>1 DEF LookAtNeed, GiveUp, CloserMove, reqVars
  <2>2. CASE PickCloserChan
    <3>1. UNCHANGED <<at, requests, chan, mine, shut>> /\ closerChan' = chan
      BY <2>2 DEF PickCloserChan, CloserMove, reqVars
    <3> QED
      BY <1>1, <1>2, <3>1 DEF ChanTypes
  <2>3. CASE ReceiveToken
    <3>1. UNCHANGED <<requests, chan, mine, shut, closerChan>>
      BY <2>3 DEF ReceiveToken, CloserMove, reqVars, Goto
    <3>2. Active' = Active
      BY <2>3 DEF ReceiveToken, reqVars, Goto, HandlerTypes, Active
    <3> QED
      BY <3>1, <3>2 DEF ChanTypes, Counted
  <2>4. CASE CloseChan
    <3>1. UNCHANGED <<at, requests, chan, mine, closerChan>> /\ shut' = shut \cup {chan}
      BY <2>4 DEF CloseChan, CloserMove, reqVars
    <3> QED
      BY <1>1, <1>2, <3>1 DEF ChanTypes
  <2> QED
    BY <1>6, <2>1, <2>2, <2>3, <2>4 DEF CloserStep
<1>7. CASE MainStep
  BY <1>3, <1>7 DEF MainStep, Setup, Start, Wait, Report, ExitFuncs, ExitFunc, MainFail, MainSay,
     MainMove, reqVars, waitVars, closeVars
<1>8. CASE GroupStep
  BY <1>3, <1>8 DEF GroupStep, Serve, WaitBindPID, Leave, Launch, LaunchOVMD, PodmanReady,
     reqVars, waitVars, closeVars
<1>9. CASE EventStep \/ BindExits \/ ServeFails \/ OvmdQuits
  BY <1>3, <1>9 DEF EventStep, BindExits, ServeFails, Leave, OvmdQuits, reqVars, waitVars, closeVars
<1>10. CASE UNCHANGED vars
  BY <1>3, <1>10 DEF vars, reqVars, waitVars, closeVars
<1> QED
  BY <1>4, <1>5, <1>6, <1>7, <1>8, <1>9, <1>10 DEF Next

\* Every step keeps the types.
LEMMA RunStep == RunInv /\ [Next]_vars => RunInv'
<1> SUFFICES ASSUME RunInv, [Next]_vars PROVE RunInv'
  OBVIOUS
<1>1. StopInv'
  BY StopStep DEF RunInv
<1>2. EP!TypeOK'
  BY StepsOfEvent, NamesFit, EP!TypeStep DEF RunInv
<1>3. ChanTypes'
  BY ChanStep DEF RunInv, StopInv
<1>4. ScalarTypes'
  <2>1. ASSUME UNCHANGED <<mainVars, bindAlive, launchVars, distro, disturbed, waitVars, closeVars>>
        PROVE  ScalarTypes'
    BY <2>1 DEF RunInv, ScalarTypes, mainVars, launchVars, waitVars, closeVars
  <2>2. CASE EventStep \/ UNCHANGED vars
    BY <2>1, <2>2 DEF EventStep, vars
  <2> QED
    BY <2>2, MainScalars, GroupScalars, RequestScalars DEF RunInv, Next
<1> QED
  BY <1>1, <1>2, <1>3, <1>4 DEF RunInv

\* All variables have their types; waitClose is renewed at most once for a request.
THEOREM RunTypes == Spec => []TypeOK
<1>1. RunInv => TypeOK
  <2> SUFFICES ASSUME RunInv PROVE TypeOK
    OBVIOUS
  <2>1. Ev!TypeOK
    BY DEF RunInv, EP!TypeOK, Ev!TypeOK
  <2>2. chan \in 0..MaxRequests /\ HandlerTypes
    BY ChanBounded DEF RunInv, StopInv
  <2> QED
    BY <2>1, <2>2 DEF RunInv, ScalarTypes, ChanTypes, HandlerTypes, TypeOK, MainPlaces, Unsent, Late
<1> QED
  BY <1>1, RunStart, RunStep, PTL DEF Spec
=============================================================================

------------------------------- MODULE Event -------------------------------
(***************************************************************************)
(* pkg/ipc/event/event.go: the process-wide event sender.                  *)
(*                                                                         *)
(* notify() puts an event into an unbounded channel; one sender goroutine, *)
(* started by Setup, takes the events out and attempts each over HTTP (an  *)
(* attempt that fails is only logged, so its outcome is not state).  The   *)
(* caller of a terminal event ("Exit", "NeedReboot") waits on the global   *)
(* unbuffered channel waitDone, then closes waitDone and the event         *)
(* channel.  In Go, a second close and a send on a closed channel panic.   *)
(***************************************************************************)
EXTENDS Naturals, Sequences

CONSTANTS Notifiers, \* the goroutines that call notify
          Names,     \* the event names
          Terminal,  \* those that end the sender goroutine
          Enders     \* the goroutines that send a terminal event

ASSUME TerminalAssumption == Terminal \subseteq Names
ASSUME EndersAssumption == Enders \subseteq Notifiers

VARIABLES
  sender,     \* the sender goroutine: not started, receiving, at waitDone, returned
  queue,      \* the events in the channel
  processed,  \* the events the sender has attempted, in order
  caller,     \* where each goroutine is inside notify ("out": not in it)
  held,       \* position of the last terminal event each goroutine sent, 0: none
  doneClosed, \* waitDone has been closed
  closed      \* the event channel has been closed

vars == <<sender, queue, processed, caller, held, doneClosed, closed>>

accepted == processed \o queue

TypeOK ==
  /\ sender \in {"none", "recv", "signal", "done"}
  /\ queue \in Seq(Names)
  /\ processed \in Seq(Names)
  /\ caller \in [Notifiers -> {"out", "await", "close", "closeQueue", "panicked"}]
  /\ held \in [Notifiers -> Nat]
  /\ doneClosed \in BOOLEAN
  /\ closed \in BOOLEAN

Init == /\ sender = "none"
        /\ queue = <<>> /\ processed = <<>>
        /\ caller = [p \in Notifiers |-> "out"]
        /\ held = [p \in Notifiers |-> 0]
        /\ doneClosed = FALSE /\ closed = FALSE

Setup == /\ sender = "none"
         /\ sender' = "recv"
         /\ UNCHANGED <<queue, processed, caller, held, doneClosed, closed>>

Goto(p, where) == caller' = [caller EXCEPT ![p] = where]

\* notify before Setup returns at once
Ignored == sender = "none" /\ UNCHANGED vars

\* mutant of Enqueue: the caller of a terminal event does not wait for waitDone
EnqueueNoWait(p, name) ==
  /\ sender # "none" /\ ~closed
  /\ queue' = Append(queue, name)
  /\ IF name \in Terminal
     THEN Goto(p, "close") /\ held' = [held EXCEPT ![p] = Len(accepted) + 1]
     ELSE UNCHANGED <<caller, held>>
  /\ UNCHANGED <<sender, processed, doneClosed, closed>>

\* mutant of Enqueue: the position is counted back from the event before
EnqueueMiscounts(p, name) ==
  /\ sender # "none" /\ ~closed
  /\ queue' = Append(queue, name)
  /\ Goto(p, IF name \in Terminal THEN "await" ELSE "out")
  /\ held' = IF name \in Terminal THEN [held EXCEPT ![p] = Len(accepted) - 1] ELSE held
  /\ UNCHANGED <<sender, processed, doneClosed, closed>>

Enqueue(p, name) ==
  /\ sender # "none" /\ ~closed
  /\ queue' = Append(queue, name)
  /\ IF name \in Terminal
     THEN /\ Goto(p, "await")
          /\ held' = [held EXCEPT ![p] = Len(accepted) + 1]
     ELSE UNCHANGED <<caller, held>>
  /\ UNCHANGED <<sender, processed, doneClosed, closed>>

SendOnClosed(p) ==
  /\ closed
  /\ Goto(p, "panicked")
  /\ UNCHANGED <<sender, queue, processed, held, doneClosed, closed>>

\* p calls notify(name)
Notify(p, name) ==
  /\ caller[p] = "out"
  /\ name \in Terminal => p \in Enders
  /\ Ignored \/ Enqueue(p, name) \/ SendOnClosed(p)

\* mutant of Deliver: no return after a terminal event
DeliverOn ==
  /\ sender = "recv" /\ queue # <<>>
  /\ processed' = Append(processed, Head(queue))
  /\ queue' = Tail(queue)
  /\ UNCHANGED <<sender, caller, held, doneClosed, closed>>

\* mutant of Deliver: an event whose attempt failed is put back at the end
DeliverRetries ==
  /\ sender = "recv" /\ queue # <<>>
  /\ processed' = Append(processed, Head(queue))
  /\ queue' = Append(Tail(queue), Head(queue))
  /\ sender' = IF Head(queue) \in Terminal THEN "signal" ELSE "recv"
  /\ UNCHANGED <<caller, held, doneClosed, closed>>

\* the sender takes one event, attempts it, and stops receiving if it is terminal
Deliver ==
  /\ sender = "recv" /\ queue # <<>>
  /\ processed' = Append(processed, Head(queue))
  /\ queue' = Tail(queue)
  /\ sender' = IF Head(queue) \in Terminal THEN "signal" ELSE "recv"
  /\ UNCHANGED <<caller, held, doneClosed, closed>>

\* waitDone <- struct{}{} meets a receiver: any of the goroutines that wait
Handoff(p) ==
  /\ sender = "signal" /\ caller[p] = "await"
  /\ ~doneClosed
  /\ sender' = "done"
  /\ Goto(p, "close")
  /\ UNCHANGED <<queue, processed, held, doneClosed, closed>>

\* a receive from a closed waitDone returns at once
ReceiveClosed(p) ==
  /\ doneClosed /\ caller[p] = "await"
  /\ Goto(p, "close")
  /\ UNCHANGED <<sender, queue, processed, held, doneClosed, closed>>

\* mutant of CloseDone: waitDone stays open
CloseDoneForgotten(p) ==
  /\ caller[p] = "close"
  /\ Goto(p, "closeQueue")
  /\ UNCHANGED <<sender, queue, processed, held, doneClosed, closed>>

CloseDone(p) ==
  /\ caller[p] = "close"
  /\ Goto(p, IF doneClosed THEN "panicked" ELSE "closeQueue")
  /\ doneClosed' = TRUE
  /\ UNCHANGED <<sender, queue, processed, held, closed>>

\* mutant of CloseQueue: the event channel stays open
CloseQueueForgotten(p) ==
  /\ caller[p] = "closeQueue"
  /\ Goto(p, "out")
  /\ UNCHANGED <<sender, queue, processed, held, doneClosed, closed>>

\* infinity.Channel.Close closes once; notify returns
CloseQueue(p) ==
  /\ caller[p] = "closeQueue"
  /\ closed' = TRUE
  /\ Goto(p, "out")
  /\ UNCHANGED <<sender, queue, processed, held, doneClosed>>

\* what a goroutine inside notify does next
Proceed(p) == Handoff(p) \/ ReceiveClosed(p) \/ CloseDone(p) \/ CloseQueue(p)

Next == \/ Setup
        \/ Deliver
        \/ \E p \in Notifiers : Proceed(p)
        \/ \E p \in Notifiers, name \in Names : Notify(p, name)

\* the Go scheduler runs every goroutine that can run; nobody has to notify
Fairness == WF_vars(Deliver) /\ \A p \in Notifiers : WF_vars(Proceed(p))

Spec == Init /\ [][Next]_vars /\ Fairness

-----------------------------------------------------------------------------
\* The sender attempts no event after a terminal one, whatever the callers do
\* (the return of Setup's goroutine, event.go:111-115).
NothingAfterTerminal ==
  \A i \in 1..Len(processed) : processed[i] \in Terminal => i = Len(processed)

\* "wait for the event to be processed" (event.go:138): a goroutine that has
\* got past the wait of its terminal event finds that event attempted.
ReturnMeansProcessed ==
  \A p \in Notifiers :
    held[p] # 0 /\ caller[p] \in {"close", "closeQueue", "out"}
      => held[p] <= Len(processed)

\* A goroutine panics inside notify only after the event channel was closed:
\* the close of waitDone never happens twice.
PanicOnlyAfterClose == (\E p \in Notifiers : caller[p] = "panicked") => closed

\* Nobody waits in notify for ever (the receive from waitDone, event.go:142).
AwaitEnds == \A p \in Notifiers : caller[p] = "await" ~> caller[p] # "await"

\* The goroutines and the two channels implement the stream of EventStream.
Stream == INSTANCE EventStream WITH accepted <- accepted, sent <- Len(processed)
ImplementsStream == Stream!Spec
=============================================================================

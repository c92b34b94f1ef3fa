----------------------------- MODULE ExecStream -----------------------------
(***************************************************************************)
(* One /exec request.  A goroutine (the worker) runs the command and puts  *)
(* its output into an unbounded channel, its error into errCh and its end  *)
(* into doneCh; the handler's select loop turns what it receives into      *)
(* server-sent events.  The unbounded channel has a goroutine of its own.  *)
(*                                                                         *)
(*   pkg/ipc/restful/run.go exec, chWriter; vendor/.../infinity.           *)
(***************************************************************************)
EXTENDS Naturals, Sequences

CONSTANT MaxWrites \* bound: pieces of output of the command

ASSUME MaxWritesAssumption == MaxWrites \in Nat

VARIABLES
  worker,  \* place of the worker
  sent, shown, blank, over, told, done, gone, \* as in OutputStream
  buffer,  \* the elements of the unbounded channel
  input,   \* its input: "open", "closed"
  output,  \* its goroutine: "open", "draining" once it knows of the close, "closed"
  errCh,   \* the error lies in errCh, of capacity 1
  errShut, \* errCh is closed
  doneCh,  \* the token lies in doneCh, of capacity 1
  handler  \* place of the handler

chans == <<buffer, input, output, errCh, errShut, doneCh>>
events == <<shown, blank, told, done>>
vars == <<worker, sent, over, gone, chans, events, handler>>

Init == /\ worker = "file" /\ sent = <<>> /\ over = "no" /\ gone = FALSE
        /\ shown = <<>> /\ blank = FALSE /\ told = FALSE /\ done = FALSE
        /\ buffer = <<>> /\ input = "open" /\ output = "open"
        /\ errCh = FALSE /\ errShut = FALSE /\ doneCh = FALSE
        /\ handler = "loop"

\* the request's context: the client has gone or the handler has returned
CtxDone == gone \/ handler = "returned"

-----------------------------------------------------------------------------
(* The worker *)

Goto(from, to) == worker = from /\ worker' = to

\* mutant of CreateFile: the worker returns when it cannot write the file
CreateFileReturns ==
  /\ \/ Goto("file", "run") /\ UNCHANGED over
     \/ Goto("file", "gone") /\ over' = "failed"
  /\ UNCHANGED <<sent, gone, chans, events, handler>>

\* a command that could not be written to its file fails without an error event
CreateFile ==
  /\ \/ Goto("file", "run") /\ UNCHANGED over
     \/ Goto("file", "signal") /\ over' = "failed"
  /\ UNCHANGED <<sent, gone, chans, events, handler>>

\* stdout and stderr go through one chWriter, whose mutex orders them
Write ==
  /\ worker = "run" /\ Len(sent) < MaxWrites
  /\ sent' = Append(sent, Len(sent) + 1)
  /\ buffer' = Append(buffer, Len(sent) + 1)
  /\ UNCHANGED <<worker, over, gone, input, output, errCh, errShut, doneCh, events, handler>>

CommandEnds ==
  /\ \/ Goto("run", "signal") /\ over' = "ok"
     \/ Goto("run", "tell") /\ over' = "failed"
  /\ UNCHANGED <<sent, gone, chans, events, handler>>

\* the context kills wsl.exe
Kill ==
  /\ CtxDone
  /\ Goto("run", "tell") /\ over' = "failed"
  /\ UNCHANGED <<sent, gone, chans, events, handler>>

SendError ==
  /\ Goto("tell", "signal") /\ ~errCh /\ errCh' = TRUE
  /\ UNCHANGED <<sent, over, gone, buffer, input, output, errShut, doneCh, events, handler>>

\* mutant of Signal: doneCh has no buffer, so the send waits for the handler's select
SignalUnbuffered ==
  /\ handler = "loop"
  /\ Goto("signal", "closeOut") /\ ~doneCh /\ doneCh' = TRUE
  /\ UNCHANGED <<sent, over, gone, buffer, input, output, errCh, errShut, events, handler>>

Signal ==
  /\ Goto("signal", "closeOut") /\ ~doneCh /\ doneCh' = TRUE
  /\ UNCHANGED <<sent, over, gone, buffer, input, output, errCh, errShut, events, handler>>

CloseOut ==
  /\ Goto("closeOut", "closeErr") /\ input' = "closed"
  /\ UNCHANGED <<sent, over, gone, buffer, output, errCh, errShut, doneCh, events, handler>>

CloseErr ==
  /\ Goto("closeErr", "gone") /\ errShut' = TRUE
  /\ UNCHANGED <<sent, over, gone, buffer, input, output, errCh, doneCh, events, handler>>

WorkerStep == CreateFile \/ Kill \/ SendError \/ Signal \/ CloseOut \/ CloseErr

-----------------------------------------------------------------------------
(* The goroutine of the unbounded channel: what it has, it offers; it closes the *)
(* output once it has seen the input closed and has nothing left                 *)

BufferStep ==
  /\ \/ output = "open" /\ input = "closed" /\ output' = "draining"
     \/ output = "draining" /\ buffer = <<>> /\ output' = "closed"
  /\ UNCHANGED <<worker, sent, over, gone, buffer, input, errCh, errShut, doneCh, events, handler>>

-----------------------------------------------------------------------------
(* The handler: each branch of its select, and the deferred function.  The ping *)
(* after 3 s changes nothing.                                                   *)

\* mutant of TakeDone: "done" is told at once and the loop goes on
TakeDoneGoesOn ==
  /\ handler = "loop" /\ doneCh /\ doneCh' = FALSE
  /\ done' = ~gone
  /\ UNCHANGED <<worker, sent, over, gone, buffer, input, output, errCh, errShut, shown, blank, told, handler>>

TakeDone ==
  /\ handler = "loop" /\ doneCh /\ doneCh' = FALSE
  /\ handler' = "defer"
  /\ UNCHANGED <<worker, sent, over, gone, buffer, input, output, errCh, errShut, events>>

\* an error that lies in the channel is received before its close
TakeError ==
  /\ handler = "loop"
  /\ \/ errCh /\ errCh' = FALSE /\ told' = TRUE /\ UNCHANGED handler
     \/ ~errCh /\ errShut /\ handler' = "defer" /\ UNCHANGED <<errCh, told>>
  /\ UNCHANGED <<worker, sent, over, gone, buffer, input, output, errShut, doneCh, shown, blank, done>>

\* mutant of TakePiece: the element stays in the channel
TakePieceKeeps ==
  /\ handler = "loop" /\ buffer # <<>>
  /\ shown' = Append(shown, Head(buffer))
  /\ UNCHANGED <<worker, sent, over, gone, chans, blank, told, done, handler>>

TakePiece ==
  /\ handler = "loop" /\ buffer # <<>>
  /\ shown' = Append(shown, Head(buffer)) /\ buffer' = Tail(buffer)
  /\ UNCHANGED <<worker, sent, over, gone, input, output, errCh, errShut, doneCh, blank, told,
                 done, handler>>

\* nobody looks whether the receive found the output closed: an empty string is shown
\* as often as select picks this branch
TakeBlank ==
  /\ handler = "loop" /\ output = "closed" /\ blank' = TRUE
  /\ UNCHANGED <<worker, sent, over, gone, chans, shown, told, done, handler>>

TakeOut == TakePiece \/ TakeBlank

TakeGone ==
  /\ handler = "loop" /\ gone /\ handler' = "defer"
  /\ UNCHANGED <<worker, sent, over, gone, chans, events>>

Defer ==
  /\ handler = "defer" /\ handler' = "returned"
  /\ done' = ~gone
  /\ UNCHANGED <<worker, sent, over, gone, chans, shown, blank, told>>

\* the client breaks the connection
ClientGoes ==
  /\ ~gone /\ handler # "returned" /\ gone' = TRUE
  /\ UNCHANGED <<worker, sent, over, chans, events, handler>>

Next == \/ WorkerStep \/ Write \/ CommandEnds \/ BufferStep
        \/ TakeDone \/ TakeError \/ TakeOut \/ TakeGone \/ Defer
        \/ ClientGoes

\* Go runs every goroutine that can run, and select picks at random among the ready
\* branches: none that stays ready is passed over for ever.  The command need not end.
Fairness == /\ WF_vars(WorkerStep) /\ WF_vars(BufferStep)
            /\ WF_vars(TakeDone) /\ WF_vars(TakeError) /\ WF_vars(TakeOut)
            /\ WF_vars(TakeGone) /\ WF_vars(Defer)

Spec == Init /\ [][Next]_vars /\ Fairness

-----------------------------------------------------------------------------
Output == 1..MaxWrites

TypeOK ==
  /\ worker \in {"file", "run", "tell", "signal", "closeOut", "closeErr", "gone"}
  /\ {sent, shown, buffer} \subseteq UNION {[1..n -> Output] : n \in 0..MaxWrites}
  /\ over \in {"no", "ok", "failed"}
  /\ {blank, told, done, gone, errCh, errShut, doneCh} \subseteq BOOLEAN
  /\ input \in {"open", "closed"} /\ output \in {"open", "draining", "closed"}
  /\ handler \in {"loop", "defer", "returned"}

\* The events of /exec are a stream of the command's output: in order, nothing
\* twice, no error of a command that succeeded, "done" last and for every client
\* that stays; empty events come only behind all of the output (the select loop
\* and the deferred function of exec, run.go:153-190).
Stream == INSTANCE OutputStream
ImplementsStream == Stream!Spec

\* The request of a command that has ended, or of a client that has gone, ends.
RequestEnds == over # "no" \/ gone ~> handler = "returned"

\* The worker never stays behind: when the client goes, or the command ends, it
\* gets past its channel operations, whether the handler still receives or not.
WorkerEnds == over # "no" \/ gone ~> worker = "gone"
=============================================================================

---------------------------- MODULE OutputStream ----------------------------
(***************************************************************************)
(* What the client of /exec is promised about the events of one request:   *)
(* the command's output in the order in which it was written, each piece   *)
(* at most once; an error at most once and only of a command that failed;  *)
(* "done" after the command has ended and as the last event.  A client     *)
(* that stays is told "done".  Output and error that have not been told    *)
(* when "done" is are lost.  Once the client has been shown everything     *)
(* that an ended command wrote, it may be sent "out" events that are empty *)
(* and stand for nothing, before or after the error.                       *)
(***************************************************************************)
EXTENDS Naturals, Sequences

VARIABLES
  sent,  \* what the command has written, in order
  shown, \* the "out" events with output
  blank, \* empty "out" events have been sent
  over,  \* the command: "no" while it has not ended, then "ok" or "failed"
  told,  \* the "error" event
  done,  \* the "done" event
  gone   \* the client has gone

vars == <<sent, shown, blank, over, told, done, gone>>

Init == /\ sent = <<>> /\ shown = <<>> /\ blank = FALSE /\ over = "no"
        /\ told = FALSE /\ done = FALSE /\ gone = FALSE

Write == /\ over = "no" /\ sent' = Append(sent, Len(sent) + 1)
         /\ UNCHANGED <<shown, blank, over, told, done, gone>>

End == /\ over = "no" /\ over' \in {"ok", "failed"}
       /\ UNCHANGED <<sent, shown, blank, told, done, gone>>

Show == /\ ~done /\ Len(shown) < Len(sent)
        /\ shown' = Append(shown, sent[Len(shown) + 1])
        /\ UNCHANGED <<sent, blank, over, told, done, gone>>

ShowBlank == /\ ~done /\ over # "no" /\ shown = sent /\ blank' = TRUE
             /\ UNCHANGED <<sent, shown, over, told, done, gone>>

TellError == /\ ~done /\ over = "failed" /\ ~told /\ told' = TRUE
             /\ UNCHANGED <<sent, shown, blank, over, done, gone>>

TellDone == /\ ~done /\ over # "no" /\ ~gone /\ done' = TRUE
            /\ UNCHANGED <<sent, shown, blank, over, told, gone>>

Leave == /\ ~gone /\ gone' = TRUE
         /\ UNCHANGED <<sent, shown, blank, over, told, done>>

Next == Write \/ End \/ Show \/ ShowBlank \/ TellError \/ TellDone \/ Leave

Spec == Init /\ [][Next]_vars /\ WF_vars(TellDone)
=============================================================================

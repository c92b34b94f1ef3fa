---------------------------- MODULE EventStream ----------------------------
(***************************************************************************)
(* What the event channel of pkg/ipc/event promises its client, without    *)
(* goroutines: the events accepted by notify() are attempted one at a      *)
(* time, in the order they were accepted, each at most once, and the       *)
(* attempts stop for good after the first terminal event.                  *)
(***************************************************************************)
EXTENDS Naturals, Sequences

CONSTANTS Names,     \* the event names
          Terminal   \* the names after which the stream ends

VARIABLES accepted,  \* every event notify() took, in order
          sent       \* how many of them have been attempted

vars == <<accepted, sent>>

Init == accepted = <<>> /\ sent = 0

Ended == sent > 0 /\ accepted[sent] \in Terminal

Accept(name) == /\ accepted' = Append(accepted, name)
                /\ UNCHANGED sent

Send == /\ ~Ended
        /\ sent < Len(accepted)
        /\ sent' = sent + 1
        /\ UNCHANGED accepted

Next == Send \/ \E name \in Names : Accept(name)

Spec == Init /\ [][Next]_vars /\ WF_vars(Send)
=============================================================================

-------------------------- MODULE ExecStreamProofs --------------------------
(***************************************************************************)
(* Theorems about ExecStream for every bound MaxWrites.                    *)
(*                                                                         *)
(* The argument: what is shown, followed by what lies in the unbounded     *)
(* channel, is what the command has written; and the places of the worker  *)
(* and of the handler say whether the command has ended, and whether its   *)
(* error is still to be told.                                              *)
(***************************************************************************)
EXTENDS ExecStream, SequenceTheorems, TLAPS

ScalarTypes ==
  /\ worker \in {"file", "run", "tell", "signal", "closeOut", "closeErr", "gone"}
  /\ over \in {"no", "ok", "failed"}
  /\ {blank, told, done, gone, errCh, errShut, doneCh} \subseteq BOOLEAN
  /\ input \in {"open", "closed"} /\ output \in {"open", "draining", "closed"}
  /\ handler \in {"loop", "defer", "returned"}

\* The pieces of output are numbered; those shown come before those in the channel.
PiecesInOrder ==
  /\ {sent, shown, buffer} \subseteq Seq(Nat)
  /\ Len(sent) <= MaxWrites /\ Len(shown) + Len(buffer) = Len(sent)
  /\ \A i \in 1..Len(sent) : sent[i] = i
  /\ \A i \in 1..Len(shown) : shown[i] = i
  /\ \A i \in 1..Len(buffer) : buffer[i] = Len(shown) + i

\* The worker's place says whether the command has ended.
EndKnown == worker \in {"file", "run"} <=> over = "no"

\* The error is told by the worker, then lies in errCh, then is told to the client.
ErrorOnce ==
  /\ worker = "tell" => over = "failed" /\ ~errCh /\ ~told
  /\ errCh => over = "failed" /\ ~told
  /\ told => over = "failed"

\* The handler hears of the end over doneCh or errCh.
EndHeard ==
  /\ doneCh \/ errShut => over # "no"
  /\ handler # "loop" => over # "no" \/ gone
  /\ done => handler = "returned"

\* The worker closes the input, and only then, and with nothing left in the channel, the
\* output is closed.
ClosedInOrder ==
  /\ input = "closed" => worker \in {"closeErr", "gone"}
  /\ output # "open" => input = "closed"
  /\ output = "closed" => buffer = <<>>

ExecInv == ScalarTypes /\ PiecesInOrder /\ EndKnown /\ ErrorOnce /\ EndHeard /\ ClosedInOrder

\* At the start nothing is written.
LEMMA ExecStart == Init => ExecInv
<1> SUFFICES ASSUME Init PROVE ExecInv
  OBVIOUS
<1> USE DEF Init
<1>1. ScalarTypes /\ EndKnown /\ ErrorOnce /\ EndHeard /\ ClosedInOrder
  BY DEF ScalarTypes, EndKnown, ErrorOnce, EndHeard, ClosedInOrder
<1>2. PiecesInOrder
  BY EmptySeq, MaxWritesAssumption DEF PiecesInOrder
<1> QED
  BY <1>1, <1>2 DEF ExecInv

-----------------------------------------------------------------------------
(* What each goroutine does to the pieces: the worker appends one to what is   *)
(* written and to the channel, the handler takes one from the channel, and     *)
(* every other step leaves them alone.                                         *)

pieces == <<sent, shown, buffer>>

\* Only a write and a receive from the unbounded channel move a piece.
LEMMA PiecesApart ==
  ASSUME [Next]_vars PROVE Write \/ TakePiece \/ UNCHANGED pieces
<1> USE DEF vars, chans, events, pieces
<1>1. CASE WorkerStep \/ CommandEnds
  BY <1>1 DEF WorkerStep, CreateFile, Kill, SendError, Signal, CloseOut, CloseErr, CommandEnds
<1>2. CASE BufferStep \/ TakeDone \/ TakeError
  BY <1>2 DEF BufferStep, TakeDone, TakeError
<1>3. CASE TakeGone \/ Defer \/ ClientGoes
  BY <1>3 DEF TakeGone, Defer, ClientGoes
<1>4. CASE TakeBlank
  BY <1>4 DEF TakeBlank
<1> QED
  BY <1>1, <1>2, <1>3, <1>4 DEF Next, TakeOut

\* A piece written is the next number, and lies last in the channel.
LEMMA WriteKeeps == ASSUME PiecesInOrder, Write PROVE PiecesInOrder'
<1> DEFINE n == Len(sent) + 1
<1>1. /\ sent \in Seq(Nat) /\ shown \in Seq(Nat) /\ buffer \in Seq(Nat)
      /\ Len(sent) \in Nat /\ Len(shown) \in Nat /\ Len(buffer) \in Nat /\ n \in Nat
  BY LenProperties DEF PiecesInOrder
<1>2. /\ sent' = Append(sent, n) /\ buffer' = Append(buffer, n) /\ shown' = shown
      /\ Len(sent) < MaxWrites
  BY DEF Write, events
<1>3. /\ sent' \in Seq(Nat) /\ Len(sent') = n
      /\ \A i \in 1..Len(sent) : sent'[i] = sent[i]
      /\ sent'[n] = n
  BY <1>1, <1>2, AppendProperties
<1>4. /\ buffer' \in Seq(Nat) /\ Len(buffer') = Len(buffer) + 1
      /\ \A i \in 1..Len(buffer) : buffer'[i] = buffer[i]
      /\ buffer'[Len(buffer) + 1] = n
  BY <1>1, <1>2, AppendProperties
<1>5. ASSUME NEW i \in 1..Len(sent') PROVE sent'[i] = i
  <2>1. i \in 1..Len(sent) \/ i = n
    BY <1>1, <1>3
  <2> QED
    BY <1>3, <2>1 DEF PiecesInOrder
<1>6. ASSUME NEW i \in 1..Len(buffer') PROVE buffer'[i] = Len(shown') + i
  <2>1. i \in 1..Len(buffer) \/ i = Len(buffer) + 1
    BY <1>1, <1>4
  <2>2. Len(shown) + Len(buffer) = Len(sent)
    BY DEF PiecesInOrder
  <2>3. n = Len(shown) + (Len(buffer) + 1)
    <3>1. \A a, b, c \in Nat : a + b = c => c + 1 = a + (b + 1)
      OBVIOUS
    <3> QED
      BY <1>1, <2>2, <3>1
  <2> QED
    BY <1>2, <1>4, <2>1, <2>3 DEF PiecesInOrder
<1> QED
  BY <1>1, <1>2, <1>3, <1>4, <1>5, <1>6, MaxWritesAssumption DEF PiecesInOrder

\* The piece that is taken from the channel is the next one to show.
LEMMA TakeKeeps ==
  ASSUME PiecesInOrder, TakePiece
  PROVE  /\ PiecesInOrder'
         /\ Len(shown) < Len(sent) /\ shown' = Append(shown, sent[Len(shown) + 1])
<1>1. /\ sent \in Seq(Nat) /\ shown \in Seq(Nat) /\ buffer \in Seq(Nat)
      /\ Len(sent) \in Nat /\ Len(shown) \in Nat /\ Len(buffer) \in Nat
  BY LenProperties DEF PiecesInOrder
<1>2. /\ sent' = sent /\ buffer # <<>> /\ buffer' = Tail(buffer)
      /\ shown' = Append(shown, Head(buffer))
  BY DEF TakePiece
<1>3. /\ Len(buffer) > 0 /\ Head(buffer) = buffer[1]
  BY <1>1, <1>2, EmptySeq
<1>4. Head(buffer) = Len(shown) + 1
  BY <1>1, <1>3 DEF PiecesInOrder
<1>5. /\ Len(shown) < Len(sent) /\ sent[Len(shown) + 1] = Len(shown) + 1
  <2>1. Len(shown) < Len(sent) /\ Len(shown) + 1 \in 1..Len(sent)
    BY <1>1, <1>3 DEF PiecesInOrder
  <2>2. \A i \in 1..Len(sent) : sent[i] = i
    BY DEF PiecesInOrder
  <2> QED
    BY <2>1, <2>2
<1>6. /\ shown' \in Seq(Nat) /\ Len(shown') = Len(shown) + 1
      /\ \A i \in 1..Len(shown) : shown'[i] = shown[i]
      /\ shown'[Len(shown) + 1] = Len(shown) + 1
  BY <1>1, <1>2, <1>4, AppendProperties
<1>7. /\ buffer' \in Seq(Nat) /\ Len(buffer') = Len(buffer) - 1
      /\ \A i \in 1..Len(buffer') : buffer'[i] = buffer[i + 1]
  BY <1>1, <1>2, HeadTailProperties
<1>8. ASSUME NEW i \in 1..Len(shown') PROVE shown'[i] = i
  <2>1. i \in 1..Len(shown) \/ i = Len(shown) + 1
    BY <1>1, <1>6
  <2> QED
    BY <1>6, <2>1 DEF PiecesInOrder
<1>9. \A i \in 1..Len(buffer') : buffer'[i] = Len(shown') + i
  BY <1>1, <1>6, <1>7 DEF PiecesInOrder
<1> QED
  BY <1>1, <1>2, <1>4, <1>5, <1>6, <1>7, <1>8, <1>9 DEF PiecesInOrder

\* The pieces stay in order.
LEMMA PiecesStep == PiecesInOrder /\ [Next]_vars => PiecesInOrder'
<1> SUFFICES ASSUME PiecesInOrder, [Next]_vars PROVE PiecesInOrder'
  OBVIOUS
<1>1. CASE UNCHANGED pieces
  BY <1>1 DEF pieces, PiecesInOrder
<1> QED
  BY <1>1, PiecesApart, WriteKeeps, TakeKeeps

-----------------------------------------------------------------------------
(* What the places say *)

Places == ScalarTypes /\ EndKnown /\ ErrorOnce /\ EndHeard

\* Every step keeps what the places of the worker and of the handler say.
LEMMA PlacesStep == Places /\ [Next]_vars => Places'
<1> SUFFICES ASSUME Places, [Next]_vars PROVE Places'
  OBVIOUS
<1> USE DEF Places, ScalarTypes, EndKnown, ErrorOnce, EndHeard, Goto, chans, events
<1>1. CASE CreateFile
  BY <1>1 DEF CreateFile
<1>2. CASE Write
  BY <1>2 DEF Write
<1>3. CASE CommandEnds
  BY <1>3 DEF CommandEnds
<1>4. CASE Kill
  BY <1>4 DEF Kill
<1>5. CASE SendError
  BY <1>5 DEF SendError
<1>6. CASE Signal
  BY <1>6 DEF Signal
<1>7. CASE CloseOut
  BY <1>7 DEF CloseOut
<1>8. CASE CloseErr
  BY <1>8 DEF CloseErr
<1>9. CASE BufferStep
  BY <1>9 DEF BufferStep
<1>10. CASE TakeDone
  BY <1>10 DEF TakeDone
<1>11. CASE TakeError
  <2> USE DEF TakeError
  <2>1. CASE errCh
    BY <1>11, <2>1
  <2>2. CASE ~errCh
    BY <1>11, <2>2
  <2> QED
    BY <2>1, <2>2
<1>12. CASE TakeOut
  <2>1. CASE TakePiece
    BY <2>1 DEF TakePiece
  <2>2. CASE TakeBlank
    BY <2>2 DEF TakeBlank
  <2> QED
    BY <1>12, <2>1, <2>2 DEF TakeOut
<1>13. CASE TakeGone
  BY <1>13 DEF TakeGone
<1>14. CASE Defer
  BY <1>14 DEF Defer
<1>15. CASE ClientGoes
  BY <1>15 DEF ClientGoes
<1>16. CASE UNCHANGED vars
  BY <1>16 DEF vars
<1> QED
  BY <1>1, <1>2, <1>3, <1>4, <1>5, <1>6, <1>7, <1>8, <1>9, <1>10, <1>11, <1>12, <1>13, <1>14,
     <1>15, <1>16 DEF Next, WorkerStep

\* Every step keeps the order of the closes: nothing is written once the input is closed.
LEMMA ClosedStep == ScalarTypes /\ ClosedInOrder /\ [Next]_vars => ClosedInOrder'
<1> SUFFICES ASSUME ScalarTypes, ClosedInOrder, [Next]_vars PROVE ClosedInOrder'
  OBVIOUS
<1> USE DEF ScalarTypes, ClosedInOrder, Goto, chans, events
<1>1. CASE CreateFile \/ Kill \/ SendError \/ Signal \/ CommandEnds
  BY <1>1 DEF CreateFile, Kill, SendError, Signal, CommandEnds
<1>2. CASE CloseOut \/ CloseErr
  BY <1>2 DEF CloseOut, CloseErr
<1>3. CASE Write
  BY <1>3 DEF Write
<1>4. CASE BufferStep
  BY <1>4 DEF BufferStep
<1>5. CASE TakePiece
  <2>1. output # "closed" /\ UNCHANGED <<worker, input, output>>
    BY <1>5 DEF TakePiece
  <2> QED
    BY <2>1
<1>6. CASE TakeBlank \/ TakeDone \/ TakeError
  BY <1>6 DEF TakeBlank, TakeDone, TakeError
<1>7. CASE TakeGone \/ Defer \/ ClientGoes \/ UNCHANGED vars
  BY <1>7 DEF TakeGone, Defer, ClientGoes, vars
<1> QED
  BY <1>1, <1>2, <1>3, <1>4, <1>5, <1>6, <1>7 DEF Next, WorkerStep, TakeOut

\* Every step keeps the invariant.
LEMMA ExecStep == ExecInv /\ [Next]_vars => ExecInv'
BY PiecesStep, PlacesStep, ClosedStep DEF ExecInv, Places

\* Once the output is closed everything that the command wrote has been shown.
LEMMA ClosedIsShown == ExecInv /\ output = "closed" => over # "no" /\ shown = sent
<1> SUFFICES ASSUME ExecInv, output = "closed" PROVE over # "no" /\ shown = sent
  OBVIOUS
<1>1. over # "no" /\ buffer = <<>>
  BY DEF ExecInv, ClosedInOrder, EndKnown
<1>2. /\ sent \in Seq(Nat) /\ shown \in Seq(Nat)
      /\ Len(sent) \in Nat /\ Len(shown) \in Nat /\ Len(shown) = Len(sent)
  <2>1. Len(buffer) = 0
    BY <1>1, EmptySeq
  <2> QED
    BY <2>1, LenProperties DEF ExecInv, PiecesInOrder
<1>3. \A i \in 1..Len(sent) : shown[i] = sent[i]
  BY <1>2 DEF ExecInv, PiecesInOrder
<1> QED
  BY <1>1, <1>2, <1>3, SeqEqual

\* The invariant holds in every state.
LEMMA ExecAlways == Spec => []ExecInv
BY ExecStart, ExecStep, PTL DEF Spec

\* All variables have their types, the pieces of output within the bound.
THEOREM ExecTypes == Spec => []TypeOK
<1>1. ASSUME NEW s \in Seq(Nat), Len(s) <= MaxWrites, \A i \in 1..Len(s) : s[i] \in Output
      PROVE  s \in UNION {[1..n -> Output] : n \in 0..MaxWrites}
  <2>1. Len(s) \in 0..MaxWrites /\ s \in [1..Len(s) -> Output]
    BY <1>1, LenProperties, MaxWritesAssumption
  <2> QED
    BY <2>1
<1>2. ExecInv => TypeOK
  <2> SUFFICES ASSUME ExecInv PROVE TypeOK
    OBVIOUS
  <2>1. /\ sent \in Seq(Nat) /\ shown \in Seq(Nat) /\ buffer \in Seq(Nat)
        /\ Len(sent) \in Nat /\ Len(shown) \in Nat /\ Len(buffer) \in Nat
    BY LenProperties DEF ExecInv, PiecesInOrder
  <2>2. Len(sent) <= MaxWrites /\ Len(shown) + Len(buffer) = Len(sent)
    BY DEF ExecInv, PiecesInOrder
  <2>3. Len(shown) <= MaxWrites /\ Len(buffer) <= MaxWrites
    BY <2>1, <2>2, MaxWritesAssumption
  <2>4. \A i \in 1..Len(sent) : sent[i] \in Output
    BY <2>1, <2>2, MaxWritesAssumption DEF ExecInv, PiecesInOrder, Output
  <2>5. \A i \in 1..Len(shown) : shown[i] \in Output
    BY <2>1, <2>3, MaxWritesAssumption DEF ExecInv, PiecesInOrder, Output
  <2>6. \A i \in 1..Len(buffer) : buffer[i] \in Output
    <3> SUFFICES ASSUME NEW i \in 1..Len(buffer) PROVE buffer[i] \in Output
      OBVIOUS
    <3>1. buffer[i] = Len(shown) + i
      BY DEF ExecInv, PiecesInOrder
    <3> QED
      BY <2>1, <2>2, <3>1, MaxWritesAssumption DEF Output
  <2>7. {sent, shown, buffer} \subseteq UNION {[1..n -> Output] : n \in 0..MaxWrites}
    BY <1>1, <2>1, <2>2, <2>3, <2>4, <2>5, <2>6
  <2> QED
    BY <2>7 DEF ExecInv, ScalarTypes, TypeOK
<1> QED
  BY <1>2, ExecAlways, PTL

-----------------------------------------------------------------------------
(* The refinement *)

\* Each step of the goroutines is a step of the promised stream, or changes nothing
\* that the client or the command sees.
LEMMA ExecSimulates == ExecInv /\ [Next]_vars => [Stream!Next]_(Stream!vars)
<1> SUFFICES ASSUME ExecInv, [Next]_vars, ~UNCHANGED Stream!vars PROVE Stream!Next
  OBVIOUS
<1> USE DEF chans, events, Goto
<1>1. CASE CreateFile \/ CommandEnds \/ Kill
  <2>1. worker \in {"file", "run"}
    BY <1>1 DEF CreateFile, CommandEnds, Kill
  <2>2. over = "no"
    BY <2>1 DEF ExecInv, EndKnown
  <2>3. Stream!End
    BY <1>1, <2>2 DEF CreateFile, CommandEnds, Kill, Stream!End, Stream!vars
  <2> QED
    BY <2>3 DEF Stream!Next
<1>2. CASE Write
  <2>1. over = "no"
    BY <1>2 DEF Write, ExecInv, EndKnown
  <2> QED
    BY <1>2, <2>1 DEF Write, Stream!Next, Stream!Write
<1>3. CASE TakePiece
  <2>1. Len(shown) < Len(sent) /\ shown' = Append(shown, sent[Len(shown) + 1])
    BY <1>3, TakeKeeps DEF ExecInv
  <2>2. ~done
    BY <1>3 DEF TakePiece, ExecInv, EndHeard, ScalarTypes
  <2> QED
    BY <1>3, <2>1, <2>2 DEF TakePiece, Stream!Next, Stream!Show
<1>4. CASE TakeError
  <2>1. handler = "loop" /\ errCh /\ told'
    BY <1>4 DEF TakeError, Stream!vars
  <2>2. over = "failed" /\ ~told /\ ~done
    BY <2>1 DEF ExecInv, ErrorOnce, EndHeard
  <2>3. Stream!TellError
    BY <1>4, <2>1, <2>2 DEF TakeError, Stream!TellError
  <2> QED
    BY <2>3 DEF Stream!Next
<1>5. CASE Defer
  <2>1. handler = "defer" /\ done' = ~gone /\ UNCHANGED <<sent, shown, blank, over, told, gone>>
    BY <1>5 DEF Defer
  <2>2. ~done /\ (over # "no" \/ gone) /\ gone \in BOOLEAN /\ done \in BOOLEAN
    BY <2>1 DEF ExecInv, EndHeard, ScalarTypes
  <2>3. ~gone /\ done'
    BY <2>1, <2>2 DEF Stream!vars
  <2>4. Stream!TellDone
    BY <2>1, <2>2, <2>3 DEF Stream!TellDone
  <2> QED
    BY <2>4 DEF Stream!Next
<1>6. CASE ClientGoes
  BY <1>6 DEF ClientGoes, Stream!Next, Stream!Leave
<1>7. CASE SendError \/ Signal \/ CloseOut \/ CloseErr \/ BufferStep \/ TakeDone \/ TakeGone
           \/ UNCHANGED vars
  BY <1>7 DEF SendError, Signal, CloseOut, CloseErr, BufferStep, TakeDone, TakeGone, vars,
     Stream!vars
<1>8. CASE TakeBlank
  <2>1. over # "no" /\ shown = sent
    BY <1>8, ClosedIsShown DEF TakeBlank
  <2>2. ~done
    BY <1>8 DEF TakeBlank, ExecInv, EndHeard, ScalarTypes
  <2> QED
    BY <1>8, <2>1, <2>2 DEF TakeBlank, Stream!Next, Stream!ShowBlank
<1> QED
  BY <1>1, <1>2, <1>3, <1>4, <1>5, <1>6, <1>7, <1>8 DEF Next, WorkerStep, TakeOut

\* The goroutines of an /exec request implement the promised stream of events: the
\* output in order, nothing twice, empty events only behind all of it, an error only of
\* a command that failed, "done" last and not before the command has ended, for every
\* amount of output.
THEOREM ExecImplementsStream == Spec => Stream!Init /\ [][Stream!Next]_(Stream!vars)
<1>1. Init => Stream!Init
  BY DEF Init, Stream!Init
<1> QED
  BY <1>1, ExecAlways, ExecSimulates, PTL DEF Spec
=============================================================================

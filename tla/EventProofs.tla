---------------------------- MODULE EventProofs ----------------------------
(***************************************************************************)
(* Theorems about Event for every set of notifiers and of names.           *)
(*                                                                         *)
(* The argument: TypeOK is inductive on its own.  SenderStops ties the     *)
(* sender's program counter to the last event processed, which makes       *)
(* "nothing after a terminal event" inductive.  With one Ender, its only   *)
(* terminal event is the only one ever accepted (SoleEnder), so the token  *)
(* it receives from waitDone is the token of its own event.                *)
(***************************************************************************)
EXTENDS Event, SequenceTheorems, TLAPS

\* A sequence whose head moves to the end of the one before it: the concatenation stays.
LEMMA MoveHead ==
  ASSUME NEW S, NEW s \in Seq(S), NEW t \in Seq(S), t # <<>>
  PROVE  Append(s, Head(t)) \o Tail(t) = s \o t
<1>1. Head(t) \in S /\ Tail(t) \in Seq(S) /\ t = <<Head(t)>> \o Tail(t)
  BY HeadTailProperties, ConcatProperties
<1>2. Append(s, Head(t)) = s \o <<Head(t)>>
  BY <1>1, AppendIsConcat
<1>3. <<Head(t)>> \in Seq(S)
  BY <1>1
<1> QED
  BY <1>1, <1>2, <1>3, ConcatAssociative

\* Appending to the second part appends to the concatenation.
LEMMA AppendToConcat ==
  ASSUME NEW S, NEW s \in Seq(S), NEW t \in Seq(S), NEW e \in S
  PROVE  s \o Append(t, e) = Append(s \o t, e)
<1>1. <<e>> \in Seq(S) /\ s \o t \in Seq(S)
  BY ConcatProperties
<1>2. Append(t, e) = t \o <<e>> /\ Append(s \o t, e) = (s \o t) \o <<e>>
  BY <1>1, AppendIsConcat
<1> QED
  BY <1>1, <1>2, ConcatAssociative

-----------------------------------------------------------------------------
\* Every step keeps the types.
LEMMA TypeStep == TypeOK /\ [Next]_vars => TypeOK'
<1> SUFFICES ASSUME TypeOK, [Next]_vars PROVE TypeOK'
  OBVIOUS
<1> USE DEF TypeOK
<1>1. CASE Setup
  BY <1>1 DEF Setup
<1>2. CASE Deliver
  BY <1>2, HeadTailProperties, AppendProperties DEF Deliver
<1>3. ASSUME NEW p \in Notifiers, Proceed(p) PROVE TypeOK'
  BY <1>3 DEF Proceed, Handoff, ReceiveClosed, CloseDone, CloseQueue, Goto
<1>4. ASSUME NEW p \in Notifiers, NEW name \in Names, Notify(p, name) PROVE TypeOK'
  <2>1. CASE Ignored
    BY <2>1 DEF Ignored, vars
  <2>2. CASE Enqueue(p, name)
    <3>1. queue' \in Seq(Names)
      BY <2>2, AppendProperties DEF Enqueue
    <3>2. accepted \in Seq(Names) /\ Len(accepted) \in Nat
      BY ConcatProperties, LenProperties DEF accepted
    <3>3. held' \in [Notifiers -> Nat]
      <4>1. CASE name \in Terminal
        <5> DEFINE n == Len(accepted)
        <5>1. n \in Nat /\ held' = [held EXCEPT ![p] = n + 1]
          BY <2>2, <3>2, <4>1 DEF Enqueue
        <5> HIDE DEF n
        <5> QED
          BY <5>1
      <4>2. CASE name \notin Terminal
        BY <2>2, <4>2 DEF Enqueue
      <4> QED
        BY <4>1, <4>2
    <3> QED
      BY <2>2, <3>1, <3>3 DEF Enqueue, Goto
  <2>3. CASE SendOnClosed(p)
    BY <2>3 DEF SendOnClosed, Goto
  <2> QED
    BY <1>4, <2>1, <2>2, <2>3 DEF Notify
<1>5. CASE UNCHANGED vars
  BY <1>5 DEF vars
<1> QED
  BY <1>1, <1>2, <1>3, <1>4, <1>5 DEF Next

\* The initial state has the types.
LEMMA TypeStart == Init => TypeOK
<1> SUFFICES ASSUME Init PROVE TypeOK
  OBVIOUS
<1>1. queue \in Seq(Names) /\ processed \in Seq(Names)
  BY EmptySeq DEF Init
<1>2. /\ caller \in [Notifiers -> {"out", "await", "close", "closeQueue", "panicked"}]
      /\ held \in [Notifiers -> Nat]
  BY DEF Init
<1> QED
  BY <1>1, <1>2 DEF Init, TypeOK

\* The type invariant of Event.
THEOREM TypeCorrect == Spec => []TypeOK
BY TypeStart, TypeStep, PTL DEF Spec

-----------------------------------------------------------------------------
\* The sender has left its loop exactly when the last event it took was terminal.
SenderStops ==
  sender \in {"signal", "done"}
    <=> processed # <<>> /\ processed[Len(processed)] \in Terminal

StreamInv == TypeOK /\ SenderStops /\ NothingAfterTerminal

\* Only Deliver changes what was processed; it runs while nothing terminal was.
LEMMA StreamStep == StreamInv /\ [Next]_vars => StreamInv'
<1> SUFFICES ASSUME StreamInv, [Next]_vars PROVE StreamInv'
  OBVIOUS
<1>0. TypeOK'
  BY TypeStep DEF StreamInv
<1> USE DEF StreamInv
<1>1. CASE Setup
  <2> QED
    BY <1>0, <1>1 DEF Setup, SenderStops, NothingAfterTerminal, TypeOK
<1>2. CASE Deliver
  <2> DEFINE e == Head(queue)
  <2>1. e \in Names /\ processed \in Seq(Names)
    BY <1>2, HeadTailProperties DEF Deliver, TypeOK
  <2>2. /\ Len(processed') = Len(processed) + 1
        /\ \A i \in 1..Len(processed) : processed'[i] = processed[i]
        /\ processed'[Len(processed) + 1] = e
        /\ processed' # <<>>
    BY <1>2, <2>1, AppendProperties DEF Deliver
  <2>3. Len(processed) \in Nat
    BY <2>1, LenProperties
  <2>4. \A i \in 1..Len(processed) : processed[i] \notin Terminal
    <3>1. SUFFICES ASSUME NEW i \in 1..Len(processed), processed[i] \in Terminal
                   PROVE  FALSE
      OBVIOUS
    <3>2. i = Len(processed) /\ processed # <<>>
      BY <3>1, <2>1, <2>3, EmptySeq DEF NothingAfterTerminal
    <3>3. sender \in {"signal", "done"}
      BY <3>1, <3>2 DEF SenderStops
    <3> QED
      BY <3>3, <1>2 DEF Deliver
  <2>5. SenderStops'
    BY <1>2, <2>2, <2>3 DEF SenderStops, Deliver
  <2>6. NothingAfterTerminal'
    BY <2>2, <2>3, <2>4 DEF NothingAfterTerminal
  <2> QED
    BY <1>0, <2>5, <2>6
<1>3. ASSUME NEW p \in Notifiers, Proceed(p) PROVE StreamInv'
  <2> QED
    BY <1>0, <1>3
    DEF Proceed, Handoff, ReceiveClosed, CloseDone, CloseQueue, SenderStops, NothingAfterTerminal
<1>4. ASSUME NEW p \in Notifiers, NEW name \in Names, Notify(p, name) PROVE StreamInv'
  <2> QED
    BY <1>0, <1>4
    DEF Notify, Ignored, Enqueue, SendOnClosed, vars, SenderStops, NothingAfterTerminal
<1>5. CASE UNCHANGED vars
  <2> QED
    BY <1>0, <1>5 DEF vars, SenderStops, NothingAfterTerminal
<1> QED
  BY <1>1, <1>2, <1>3, <1>4, <1>5 DEF Next

\* The initial state has processed nothing.
LEMMA StreamStart == Init => StreamInv
<1> SUFFICES ASSUME Init PROVE StreamInv
  OBVIOUS
<1>1. processed = <<>> /\ Len(processed) = 0 /\ sender = "none"
  BY EmptySeq DEF Init
<1> QED
  BY <1>1, TypeStart DEF StreamInv, SenderStops, NothingAfterTerminal

\* No event is attempted after a terminal one (event.go:111-115).
THEOREM EndsAtTerminal == Spec => []NothingAfterTerminal
<1>1. StreamInv => NothingAfterTerminal
  BY DEF StreamInv
<1> QED
  BY <1>1, StreamStart, StreamStep, PTL DEF Spec

-----------------------------------------------------------------------------
\* The events accepted so far are those processed followed by those queued.
LEMMA AcceptedFacts ==
  ASSUME TypeOK
  PROVE  /\ accepted \in Seq(Names)
         /\ Len(accepted) = Len(processed) + Len(queue)
         /\ Len(processed) \in Nat /\ Len(queue) \in Nat
         /\ \A i \in 1..Len(processed) : accepted[i] = processed[i]
         /\ queue # <<>> => /\ Len(processed) + 1 \in 1..Len(accepted)
                            /\ accepted[Len(processed) + 1] = Head(queue)
<1> USE DEF TypeOK, accepted
<1>1. /\ accepted \in Seq(Names)
      /\ Len(accepted) = Len(processed) + Len(queue)
      /\ \A i \in 1..Len(processed) + Len(queue) :
           accepted[i] = IF i <= Len(processed) THEN processed[i] ELSE queue[i - Len(processed)]
  BY ConcatProperties
<1>2. Len(processed) \in Nat /\ Len(queue) \in Nat
  BY LenProperties
<1>3. ASSUME queue # <<>>
      PROVE  /\ Len(processed) + 1 \in 1..Len(accepted)
             /\ accepted[Len(processed) + 1] = Head(queue)
  <2>1. Len(queue) \in Nat \ {0} /\ Head(queue) = queue[1]
    BY <1>3, EmptySeq
  <2> HIDE DEF accepted
  <2>2. Len(processed) + 1 \in 1..Len(processed) + Len(queue)
    BY <1>2, <2>1
  <2> QED
    BY <1>1, <1>2, <2>1, <2>2
<1> QED
  BY <1>1, <1>2, <1>3

\* Taking an event out of the channel does not change what was accepted.
LEMMA DeliverKeeps == TypeOK /\ Deliver => accepted' = accepted
BY MoveHead DEF TypeOK, Deliver, accepted

\* notify adds one event at the end of what was accepted.
LEMMA EnqueueAppends ==
  ASSUME TypeOK, NEW p \in Notifiers, NEW name \in Names, Enqueue(p, name)
  PROVE  /\ accepted' = Append(accepted, name)
         /\ Len(accepted') = Len(accepted) + 1
         /\ \A i \in 1..Len(accepted) : accepted'[i] = accepted[i]
         /\ accepted'[Len(accepted) + 1] = name
<1>1. accepted' = Append(accepted, name)
  BY AppendToConcat DEF TypeOK, Enqueue, accepted
<1> QED
  BY <1>1, AcceptedFacts, AppendProperties

-----------------------------------------------------------------------------
\* One goroutine sends terminal events: in the run phase it is main's
\* NotifyRun(RunExit), and in the init phase NotifyInit(InitExit) when no
\* feature has to be enabled.
OneEnder == \A p, q \in Enders : p = q

\* Whatever is terminal among the accepted events was sent by the Ender.
SoleTerminal ==
  \A i \in 1..Len(accepted) : accepted[i] \in Terminal => \E p \in Enders : held[p] = i

\* Where the Ender is in notify determines the sender and both channels.
EnderPhase ==
  \A p \in Notifiers :
    /\ held[p] # 0 \/ caller[p] \in {"await", "close", "closeQueue"} => p \in Enders
    /\ p \in Enders /\ caller[p] = "out" /\ ~closed
         => held[p] = 0 /\ sender \in {"none", "recv"} /\ ~doneClosed
    /\ caller[p] = "await" => sender # "done" /\ ~doneClosed /\ ~closed
    /\ caller[p] = "close" => sender = "done" /\ ~doneClosed /\ ~closed
    /\ caller[p] = "closeQueue" => sender = "done" /\ doneClosed /\ ~closed

EnderInv == /\ StreamInv /\ SoleTerminal /\ EnderPhase
            /\ ReturnMeansProcessed /\ PanicOnlyAfterClose

\* With one Ender, a step keeps EnderInv.
LEMMA EnderStep == ASSUME OneEnder PROVE EnderInv /\ [Next]_vars => EnderInv'
<1> SUFFICES ASSUME EnderInv, [Next]_vars PROVE EnderInv'
  OBVIOUS
<1>0. StreamInv' /\ TypeOK
  BY StreamStep DEF EnderInv, StreamInv
<1>1. CASE Setup
  <2>1. accepted' = accepted
    BY <1>1 DEF Setup, accepted
  <2> QED
    BY <1>0, <1>1, <2>1
    DEF Setup, EnderInv, SoleTerminal, EnderPhase, ReturnMeansProcessed, PanicOnlyAfterClose
<1>2. CASE Deliver
  <2>1. accepted' = accepted
    BY <1>0, <1>2, DeliverKeeps
  <2>2. SoleTerminal'
    BY <1>2, <2>1 DEF Deliver, EnderInv, SoleTerminal
  <2>3. ASSUME Head(queue) \in Terminal, NEW p \in Enders PROVE held[p] # 0
    BY <1>0, <1>2, <2>3, AcceptedFacts DEF OneEnder, EnderInv, SoleTerminal, Deliver
  <2>4. EnderPhase'
    <3> SUFFICES ASSUME NEW p \in Notifiers PROVE
          /\ held[p] # 0 \/ caller[p] \in {"await", "close", "closeQueue"} => p \in Enders
          /\ p \in Enders /\ caller[p] = "out" /\ ~closed
               => held[p] = 0 /\ sender' \in {"none", "recv"} /\ ~doneClosed
          /\ caller[p] = "await" => sender' # "done" /\ ~doneClosed /\ ~closed
          /\ caller[p] = "close" => sender' = "done" /\ ~doneClosed /\ ~closed
          /\ caller[p] = "closeQueue" => sender' = "done" /\ doneClosed /\ ~closed
      BY <1>2 DEF Deliver, EnderPhase
    <3> QED
      BY <1>2, <2>3 DEF Deliver, EnderInv, EnderPhase
  <2>5. Len(processed') = Len(processed) + 1 /\ Len(processed) \in Nat
    BY <1>0, <1>2, HeadTailProperties, AppendProperties, LenProperties DEF Deliver, TypeOK
  <2>6. ReturnMeansProcessed'
    BY <1>0, <1>2, <2>5 DEF Deliver, EnderInv, ReturnMeansProcessed, TypeOK
  <2>7. PanicOnlyAfterClose'
    BY <1>2 DEF Deliver, EnderInv, PanicOnlyAfterClose
  <2> QED
    BY <1>0, <2>2, <2>4, <2>6, <2>7 DEF EnderInv
<1>3. ASSUME NEW p \in Notifiers, Proceed(p) PROVE EnderInv'
  <2>0. accepted' = accepted /\ processed' = processed /\ queue' = queue /\ held' = held
    BY <1>3 DEF Proceed, Handoff, ReceiveClosed, CloseDone, CloseQueue, accepted
  <2>1. SoleTerminal'
    BY <2>0 DEF EnderInv, SoleTerminal
  <2>2. p \in Enders /\ \A q \in Notifiers : q # p => caller[q] \notin {"await", "close", "closeQueue"}
    BY <1>3 DEF Proceed, Handoff, ReceiveClosed, CloseDone, CloseQueue, OneEnder, EnderInv, EnderPhase
  <2>3. \A q \in Enders : q = p
    BY <2>2 DEF OneEnder
  <2>4. CASE Handoff(p)
    <3>1. held[p] = Len(processed)
      <4>1. Len(processed) \in 1..Len(accepted) /\ accepted[Len(processed)] \in Terminal
        <5>1. processed # <<>> /\ processed[Len(processed)] \in Terminal
          BY <2>4 DEF Handoff, EnderInv, StreamInv, SenderStops
        <5>2. Len(processed) \in Nat \ {0}
          BY <1>0, <5>1, EmptySeq DEF TypeOK
        <5> QED
          BY <1>0, <5>1, <5>2, AcceptedFacts
      <4> QED
        BY <4>1, <2>3 DEF EnderInv, SoleTerminal
    <3>2. EnderPhase'
      BY <1>0, <2>0, <2>2, <2>3, <2>4 DEF Handoff, Goto, EnderInv, EnderPhase, TypeOK
    <3>3. ReturnMeansProcessed'
      BY <1>0, <2>0, <2>4, <3>1, AcceptedFacts
      DEF Handoff, Goto, EnderInv, ReturnMeansProcessed, TypeOK
    <3>4. PanicOnlyAfterClose'
      BY <1>0, <2>4 DEF Handoff, Goto, EnderInv, PanicOnlyAfterClose, TypeOK
    <3> QED
      BY <1>0, <2>1, <3>2, <3>3, <3>4 DEF EnderInv
  <2>5. CASE ReceiveClosed(p)
    BY <2>5 DEF ReceiveClosed, EnderInv, EnderPhase
  <2>6. CASE CloseDone(p)
    <3>1. ~doneClosed /\ caller' = [caller EXCEPT ![p] = "closeQueue"]
      BY <2>6 DEF CloseDone, Goto, EnderInv, EnderPhase
    <3>2. EnderPhase'
      BY <1>0, <2>0, <2>2, <2>3, <2>6, <3>1 DEF CloseDone, EnderInv, EnderPhase, TypeOK
    <3>3. ReturnMeansProcessed'
      BY <1>0, <2>0, <2>6, <3>1 DEF CloseDone, EnderInv, ReturnMeansProcessed, TypeOK
    <3>4. PanicOnlyAfterClose'
      BY <1>0, <2>6, <3>1 DEF CloseDone, EnderInv, PanicOnlyAfterClose, TypeOK
    <3> QED
      BY <1>0, <2>1, <3>2, <3>3, <3>4 DEF EnderInv
  <2>7. CASE CloseQueue(p)
    <3>1. EnderPhase'
      BY <1>0, <2>0, <2>2, <2>3, <2>7 DEF CloseQueue, Goto, EnderInv, EnderPhase, TypeOK
    <3>2. ReturnMeansProcessed'
      BY <1>0, <2>0, <2>7 DEF CloseQueue, Goto, EnderInv, ReturnMeansProcessed, TypeOK
    <3>3. PanicOnlyAfterClose'
      BY <2>7 DEF CloseQueue, PanicOnlyAfterClose
    <3> QED
      BY <1>0, <2>1, <3>1, <3>2, <3>3 DEF EnderInv
  <2> QED
    BY <1>3, <2>4, <2>5, <2>6, <2>7 DEF Proceed
<1>4. ASSUME NEW p \in Notifiers, NEW name \in Names, Notify(p, name) PROVE EnderInv'
  <2>1. CASE Ignored
    <3>1. accepted' = accepted
      BY <2>1 DEF Ignored, vars, accepted
    <3> QED
      BY <1>0, <2>1, <3>1
      DEF Ignored, vars, EnderInv, SoleTerminal, EnderPhase, ReturnMeansProcessed, PanicOnlyAfterClose
  <2>2. CASE SendOnClosed(p)
    <3>1. accepted' = accepted
      BY <2>2 DEF SendOnClosed, accepted
    <3>2. EnderPhase'
      BY <1>0, <2>2 DEF SendOnClosed, Goto, EnderInv, EnderPhase, TypeOK
    <3>3. ReturnMeansProcessed' /\ PanicOnlyAfterClose' /\ SoleTerminal'
      BY <1>0, <2>2, <3>1
      DEF SendOnClosed, Goto, EnderInv, ReturnMeansProcessed, PanicOnlyAfterClose, SoleTerminal, TypeOK
    <3> QED
      BY <1>0, <3>2, <3>3 DEF EnderInv
  <2>3. CASE Enqueue(p, name)
    <3>1. /\ Len(accepted) \in Nat
          /\ Len(accepted') = Len(accepted) + 1
          /\ \A i \in 1..Len(accepted) : accepted'[i] = accepted[i]
          /\ accepted'[Len(accepted) + 1] = name
      BY <1>0, <2>3, EnqueueAppends, AcceptedFacts
    <3>2. CASE name \notin Terminal
      <4>1. UNCHANGED <<caller, held, sender, processed, doneClosed, closed>>
        BY <2>3, <3>2 DEF Enqueue
      <4>2. SoleTerminal'
        BY <3>1, <3>2, <4>1 DEF EnderInv, SoleTerminal
      <4> QED
        BY <1>0, <4>1, <4>2 DEF EnderInv, EnderPhase, ReturnMeansProcessed, PanicOnlyAfterClose
    <3>3. CASE name \in Terminal
      <4> DEFINE n == Len(accepted) + 1
      <4>1. /\ p \in Enders /\ caller[p] = "out" /\ ~closed
            /\ caller' = [caller EXCEPT ![p] = "await"]
            /\ held' = [held EXCEPT ![p] = n]
            /\ UNCHANGED <<sender, processed, doneClosed, closed>>
            /\ n \in Nat /\ n # 0
        BY <1>4, <2>3, <3>1, <3>3 DEF Enqueue, Notify, Goto
      <4> HIDE DEF n
      <4>2. held[p] = 0 /\ sender # "done" /\ ~doneClosed
        BY <4>1 DEF EnderInv, EnderPhase
      <4>3. \A i \in 1..Len(accepted) : accepted[i] \notin Terminal
        BY <3>1, <4>1, <4>2 DEF EnderInv, SoleTerminal, OneEnder
      <4>4. SoleTerminal'
        <5>1. held'[p] = n
          BY <1>0, <4>1 DEF TypeOK
        <5> QED
          BY <3>1, <4>1, <4>3, <5>1 DEF SoleTerminal, n
      <4>5. \A q \in Notifiers : q # p => q \notin Enders
        BY <4>1 DEF OneEnder
      <4>6. EnderPhase'
        BY <1>0, <4>1, <4>2, <4>5 DEF EnderInv, EnderPhase, TypeOK
      <4>7. ReturnMeansProcessed' /\ PanicOnlyAfterClose'
        BY <1>0, <4>1 DEF EnderInv, ReturnMeansProcessed, PanicOnlyAfterClose, TypeOK
      <4> QED
        BY <1>0, <4>4, <4>6, <4>7 DEF EnderInv
    <3> QED
      BY <3>2, <3>3
  <2> QED
    BY <1>4, <2>1, <2>2, <2>3 DEF Notify
<1>5. CASE UNCHANGED vars
  <2>1. accepted' = accepted
    BY <1>5 DEF vars, accepted
  <2> QED
    BY <1>0, <1>5, <2>1
    DEF vars, EnderInv, SoleTerminal, EnderPhase, ReturnMeansProcessed, PanicOnlyAfterClose
<1> QED
  BY <1>1, <1>2, <1>3, <1>4, <1>5 DEF Next

\* With one Ender, the initial state satisfies EnderInv.
LEMMA EnderStart == Init => EnderInv
<1> SUFFICES ASSUME Init PROVE EnderInv
  OBVIOUS
<1>1. Len(accepted) = 0
  BY EmptySeq, ConcatEmptySeq DEF Init, accepted
<1> QED
  BY <1>1, StreamStart
  DEF Init, EnderInv, SoleTerminal, EnderPhase, ReturnMeansProcessed, PanicOnlyAfterClose

\* With one Ender, notify keeps the promise of its comment, "wait for the event
\* to be processed" (event.go:138).
THEOREM SoleEnderWaits == ASSUME OneEnder PROVE Spec => []ReturnMeansProcessed
<1>1. EnderInv /\ [Next]_vars => EnderInv'
  BY EnderStep
<1>2. EnderInv => ReturnMeansProcessed
  BY DEF EnderInv
<1> QED
  BY <1>1, <1>2, EnderStart, PTL DEF Spec

\* With one Ender, the close of waitDone (event.go:143) never panics: a panic
\* in notify is a send on the event channel after it was closed.
THEOREM SoleEnderClosesOnce == ASSUME OneEnder PROVE Spec => []PanicOnlyAfterClose
<1>1. EnderInv /\ [Next]_vars => EnderInv'
  BY EnderStep
<1>2. EnderInv => PanicOnlyAfterClose
  BY DEF EnderInv
<1> QED
  BY <1>1, <1>2, EnderStart, PTL DEF Spec

-----------------------------------------------------------------------------
\* Every step of the goroutines is a step of the stream or leaves it alone.
LEMMA StreamSimulation == StreamInv /\ [Next]_vars => [Stream!Next]_(Stream!vars)
<1> SUFFICES ASSUME StreamInv, [Next]_vars
             PROVE  Stream!Next \/ UNCHANGED <<accepted, Len(processed)>>
  BY DEF Stream!vars
<1>0. TypeOK
  BY DEF StreamInv
<1>1. ASSUME UNCHANGED <<queue, processed>> PROVE UNCHANGED <<accepted, Len(processed)>>
  BY <1>1 DEF accepted
<1>2. CASE Deliver
  <2>1. accepted' = accepted /\ Len(processed') = Len(processed) + 1
    BY <1>0, <1>2, DeliverKeeps, HeadTailProperties, AppendProperties DEF Deliver, TypeOK
  <2>2. Len(processed) < Len(accepted)
    BY <1>0, <1>2, AcceptedFacts DEF Deliver
  <2>3. ~Stream!Ended
    <3> SUFFICES ASSUME Len(processed) > 0, accepted[Len(processed)] \in Terminal PROVE FALSE
      BY DEF Stream!Ended
    <3>1. Len(processed) \in 1..Len(processed) /\ processed # <<>>
      BY <1>0, AcceptedFacts, EmptySeq
    <3>2. processed[Len(processed)] \in Terminal
      BY <1>0, <3>1, AcceptedFacts
    <3> QED
      BY <1>2, <3>1, <3>2 DEF Deliver, StreamInv, SenderStops
  <2> QED
    BY <2>1, <2>2, <2>3 DEF Stream!Next, Stream!Send
<1>3. ASSUME NEW p \in Notifiers, NEW name \in Names, Enqueue(p, name) PROVE Stream!Next
  <2>1. accepted' = Append(accepted, name) /\ Len(processed') = Len(processed)
    BY <1>0, <1>3, EnqueueAppends DEF Enqueue
  <2> QED
    BY <2>1 DEF Stream!Next, Stream!Accept
<1>4. CASE Setup
  BY <1>1, <1>4 DEF Setup
<1>5. ASSUME NEW p \in Notifiers, Proceed(p) PROVE UNCHANGED <<accepted, Len(processed)>>
  BY <1>1, <1>5 DEF Proceed, Handoff, ReceiveClosed, CloseDone, CloseQueue
<1>6. ASSUME NEW p \in Notifiers, Ignored \/ SendOnClosed(p) PROVE UNCHANGED <<accepted, Len(processed)>>
  BY <1>1, <1>6 DEF Ignored, SendOnClosed, vars
<1>7. CASE UNCHANGED vars
  BY <1>1, <1>7 DEF vars
<1> QED
  BY <1>2, <1>3, <1>4, <1>5, <1>6, <1>7 DEF Next, Notify

\* The event channel implements the ordered stream of EventStream (its safety
\* part; that every event before the end is attempted stays with TLC).
THEOREM EventImplementsStream == Spec => Stream!Init /\ [][Stream!Next]_(Stream!vars)
<1>1. Init => Stream!Init
  BY EmptySeq, ConcatEmptySeq DEF Init, Stream!Init, accepted
<1> QED
  BY <1>1, StreamStart, StreamStep, StreamSimulation, PTL DEF Spec
=============================================================================

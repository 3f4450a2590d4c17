------------------------ MODULE EventStreamFifoProofs ------------------------
(***************************************************************************)
(* EventStream with a single consumer implements LossyFifo, for every      *)
(* capacity: the iterator's tasks, its cancellation at any await and the   *)
(* requeueing of what a cancelled iterator had taken do not show.          *)
(***************************************************************************)
EXTENDS EventStreamFifo, EventStreamProofs

(***************************************************************************)
(* A sequence with an element put before it.                               *)
(***************************************************************************)
LEMMA ConsFacts ==
  ASSUME NEW s \in Seq(Nat), NEW x \in Nat
  PROVE  /\ <<x>> \o s \in Seq(Nat) /\ Len(<<x>> \o s) = Len(s) + 1
         /\ <<x>> \o s # <<>>
         /\ (<<x>> \o s)[1] = x
         /\ \A i \in 1 .. Len(s) : (<<x>> \o s)[i + 1] = s[i]
         /\ Head(<<x>> \o s) = x /\ Tail(<<x>> \o s) = s
<1>1. <<x>> \in Seq(Nat) /\ Len(<<x>>) = 1 /\ Len(s) \in Nat
  OBVIOUS
<1>2. /\ <<x>> \o s \in Seq(Nat) /\ Len(<<x>> \o s) = Len(s) + 1
      /\ \A i \in 1 .. Len(s) + 1 :
           (<<x>> \o s)[i] = IF i <= 1 THEN <<x>>[i] ELSE s[i - 1]
  BY <1>1, ConcatProperties
<1>3. (<<x>> \o s)[1] = x
  BY <1>1, <1>2
<1>4. \A i \in 1 .. Len(s) : (<<x>> \o s)[i + 1] = s[i]
  <2>1. ASSUME NEW i \in 1 .. Len(s) PROVE (<<x>> \o s)[i + 1] = s[i]
    <3>1. i + 1 \in 1 .. Len(s) + 1 /\ ~(i + 1 <= 1) /\ (i + 1) - 1 = i
      BY <1>1
    <3> QED BY <1>2, <3>1
  <2> QED BY <2>1
<1>5. <<x>> \o s # <<>>
  BY <1>1, <1>2
<1> DEFINE t == <<x>> \o s
<1>6. Head(t) = x
  BY <1>2, <1>3, <1>5
<1>7. Tail(t) \in Seq(Nat) /\ Len(Tail(t)) = Len(s) /\ \A i \in 1 .. Len(s) : Tail(t)[i] = s[i]
  <2>1. t \in Seq(Nat) /\ t # <<>> /\ Len(t) = Len(s) + 1 /\ \A i \in 1 .. Len(s) : t[i + 1] = s[i]
    BY <1>2, <1>4, <1>5
  <2> HIDE DEF t
  <2>2. /\ Tail(t) \in Seq(Nat) /\ Len(Tail(t)) = Len(t) - 1
        /\ \A i \in 1 .. Len(Tail(t)) : Tail(t)[i] = t[i + 1]
    BY <2>1, HeadTailProperties
  <2>3. Len(Tail(t)) = Len(s)
    BY <1>1, <2>1, <2>2
  <2> QED BY <2>1, <2>2, <2>3
<1>8. Tail(t) = s
  BY <1>7, SeqEqual
<1> QED BY <1>2, <1>3, <1>4, <1>5, <1>6, <1>8

(***************************************************************************)
(* What is put before a sequence, and what behind, do not interfere.       *)
(***************************************************************************)
LEMMA ConsAppend ==
  ASSUME NEW s \in Seq(Nat), NEW x \in Nat, NEW e \in Nat
  PROVE  <<x>> \o Append(s, e) = Append(<<x>> \o s, e)
<1>1. <<x>> \in Seq(Nat) /\ <<e>> \in Seq(Nat) /\ <<x>> \o s \in Seq(Nat)
  BY ConsFacts
<1>2. Append(s, e) = s \o <<e>> /\ Append(<<x>> \o s, e) = (<<x>> \o s) \o <<e>>
  BY <1>1, AppendIsConcat
<1> QED BY <1>1, <1>2, ConcatAssociative

(***************************************************************************)
(* Taking the first element off a sequence and putting it back; and what   *)
(* is left when the first element is removed, or the one behind it.        *)
(***************************************************************************)
LEMMA ConsHeadTail ==
  ASSUME NEW s \in Seq(Nat), s # <<>>
  PROVE  <<Head(s)>> \o Tail(s) = s
<1>1. /\ Len(s) \in Nat /\ Len(s) >= 1
      /\ Head(s) \in Nat /\ Head(s) = s[1]
      /\ Tail(s) \in Seq(Nat) /\ Len(Tail(s)) = Len(s) - 1
      /\ \A i \in 1 .. Len(Tail(s)) : Tail(s)[i] = s[i + 1]
  BY HeadTailProperties, EmptySeq, LenProperties
<1> DEFINE t == <<Head(s)>> \o Tail(s)
<1>2. /\ t \in Seq(Nat) /\ Len(t) = Len(s) /\ t[1] = Head(s)
      /\ \A i \in 1 .. Len(s) - 1 : t[i + 1] = Tail(s)[i]
  BY <1>1, ConsFacts
<1> HIDE DEF t
<1>3. ASSUME NEW i \in 1 .. Len(s) PROVE t[i] = s[i]
  <2>1. CASE i = 1
    BY <1>1, <1>2, <2>1
  <2>2. CASE i # 1
    <3>1. i - 1 \in 1 .. Len(s) - 1 /\ (i - 1) + 1 = i
      BY <1>1, <2>2
    <3> QED BY <1>1, <1>2, <3>1
  <2> QED BY <2>1, <2>2
<1>4. t = s
  BY <1>2, <1>3, SeqEqual
<1> QED BY <1>4 DEF t

LEMMA RemoveFirst1 ==
  ASSUME NEW s \in Seq(Nat), s # <<>>
  PROVE  RemoveAt(s, 1) = Tail(s)
<1>1. Len(s) \in Nat \ {0} /\ Tail(s) \in Seq(Nat)
  BY EmptySeq, HeadTailProperties
<1>2. SubSeq(s, 1, 1 - 1) = <<>>
  BY SubSeqEmpty
<1>3. SubSeq(s, 1 + 1, Len(s)) = Tail(s)
  BY TailIsSubSeq
<1>4. <<>> \o Tail(s) = Tail(s)
  BY <1>1, ConcatEmptySeq
<1> QED BY <1>2, <1>3, <1>4 DEF RemoveAt

LEMMA RemoveSecond ==
  ASSUME NEW s \in Seq(Nat), s # <<>>, NEW x \in Nat
  PROVE  RemoveAt(<<x>> \o s, 2) = <<x>> \o Tail(s)
<1> DEFINE t == <<x>> \o s
<1>1. /\ t \in Seq(Nat) /\ t # <<>> /\ Len(t) = Len(s) + 1 /\ t[1] = x /\ Tail(t) = s
      /\ Len(s) \in Nat \ {0}
  BY ConsFacts, EmptySeq
<1> HIDE DEF t
<1>2. SubSeq(t, 1, 2 - 1) = <<x>>
  <2>1. 1 \in 1 .. Len(t)
    BY <1>1
  <2>2. SubSeq(t, 1, 1) = <<t[1]>> \o SubSeq(t, 2, 1)
    BY <1>1, <2>1, SubSeqRecursiveFirst
  <2>3. SubSeq(t, 2, 1) = <<>>
    BY SubSeqEmpty
  <2>4. <<x>> \in Seq(Nat)
    OBVIOUS
  <2>5. <<x>> \o <<>> = <<x>>
    BY <2>4, ConcatEmptySeq
  <2>6. t[1] = x
    BY <1>1
  <2>7. SubSeq(t, 1, 1) = <<x>>
    BY <2>2, <2>3, <2>5, <2>6, Zenon
  <2>8. 2 - 1 = 1
    OBVIOUS
  <2> QED BY <2>7, <2>8, Zenon
<1>3. SubSeq(t, 2 + 1, Len(t)) = Tail(s)
  <2>1. 2 \in 1 .. Len(t) /\ Len(t) \in 2 .. Len(t)
    BY <1>1
  <2>2. Tail(SubSeq(t, 2, Len(t))) = SubSeq(t, 2 + 1, Len(t))
    BY <1>1, <2>1, HeadTailOfSubSeq
  <2>3. SubSeq(t, 2, Len(t)) = s
    BY <1>1, TailIsSubSeq
  <2> QED BY <2>2, <2>3
<1>4. RemoveAt(t, 2) = <<x>> \o Tail(s)
  BY <1>2, <1>3 DEF RemoveAt
<1> QED BY <1>4 DEF t

-----------------------------------------------------------------------------
Holding == get[me] = "done"

(***************************************************************************)
(* What is waiting, with a get task that holds an event and without.       *)
(***************************************************************************)
LEMMA WaitingFacts ==
  ASSUME IInv
  PROVE  /\ me \in Consumers /\ \A c \in Consumers : c = me
         /\ buffer \in Seq(Nat) /\ Len(buffer) \in Nat /\ Len(buffer) <= Capacity
         /\ item[me] \in Nat /\ emitted \in Nat /\ Capacity \in Nat \ {0}
         /\ Holding => Waiting = <<item[me]>> \o buffer
         /\ ~Holding => Waiting = buffer
<1>1. me \in Consumers /\ \A c \in Consumers : c = me
  BY SingleConsumer
<1>2. buffer \in Seq(Nat) /\ Len(buffer) \in Nat /\ Len(buffer) <= Capacity /\ emitted \in Nat
  BY LenProperties DEF IInv, TypeOK
<1>3. item[me] \in Nat
  BY <1>1 DEF IInv, TypeOK
<1>4. Holding => Waiting = <<item[me]>> \o buffer
  BY DEF Holding, Waiting
<1>5. ~Holding => Waiting = buffer
  BY <1>2, ConcatEmptySeq DEF Holding, Waiting
<1> QED BY <1>1, <1>2, <1>3, <1>4, <1>5, CapacityAssumption

(***************************************************************************)
(* The same after a step.                                                  *)
(***************************************************************************)
LEMMA WaitingPrime ==
  ASSUME IInv'
  PROVE  /\ Holding' => Waiting' = <<item'[me]>> \o buffer'
         /\ ~Holding' => Waiting' = buffer'
<1>1. buffer' \in Seq(Nat)
  BY DEF IInv, TypeOK
<1>2. Holding' => Waiting' = <<item'[me]>> \o buffer'
  BY DEF Holding, Waiting
<1>3. ~Holding' => Waiting' = buffer'
  BY <1>1, ConcatEmptySeq DEF Holding, Waiting
<1> QED BY <1>2, <1>3

(***************************************************************************)
(* An event that is emitted goes in; a full queue gives up its oldest,     *)
(* which is the second in line while a get task holds another.             *)
(***************************************************************************)
LEMMA EmitImplements ==
  ASSUME IInv, IInv', Emit
  PROVE  Fifo!Put \/ Fifo!PutLossy
<1>1. /\ UNCHANGED <<get, item, out>> /\ emitted' = emitted + 1 /\ emitted + 1 \in Nat
      /\ (Holding' <=> Holding) /\ item' = item
  BY WaitingFacts DEF Emit, Holding
<1>2. CASE Len(buffer) < Capacity
  <2>1. buffer' = Append(buffer, emitted + 1)
    BY <1>2, WaitingFacts DEF Emit
  <2>2. CASE Holding
    <3>1. Waiting' = <<item[me]>> \o Append(buffer, emitted + 1)
      BY <1>1, <2>1, <2>2, WaitingPrime
    <3>2. <<item[me]>> \o Append(buffer, emitted + 1) = Append(<<item[me]>> \o buffer, emitted + 1)
      <4>1. item[me] \in Nat /\ buffer \in Seq(Nat)
        BY WaitingFacts
      <4> QED BY <1>1, <4>1, ConsAppend
    <3>3. Waiting = <<item[me]>> \o buffer
      BY <2>2, WaitingFacts
    <3> QED BY <1>1, <3>1, <3>2, <3>3 DEF Fifo!Put
  <2>3. CASE ~Holding
    BY <1>1, <2>1, <2>3, WaitingFacts, WaitingPrime DEF Fifo!Put
  <2> QED BY <2>2, <2>3
<1>3. CASE Len(buffer) >= Capacity
  <2>1. buffer' = Append(Tail(buffer), emitted + 1)
    BY <1>3, WaitingFacts DEF Emit
  <2>2. Len(buffer) = Capacity /\ Len(buffer) >= 1 /\ buffer # <<>> /\ Tail(buffer) \in Seq(Nat)
    <3>1. Len(buffer) = Capacity /\ Len(buffer) >= 1 /\ buffer \in Seq(Nat)
      BY <1>3, WaitingFacts
    <3>2. buffer # <<>>
      BY <3>1
    <3> QED BY <3>1, <3>2, HeadTailProperties
  <2>3. CASE Holding
    <3>1. Waiting' = Append(<<item[me]>> \o Tail(buffer), emitted + 1)
      <4>1. item[me] \in Nat
        BY WaitingFacts
      <4>2. <<item[me]>> \o Append(Tail(buffer), emitted + 1)
              = Append(<<item[me]>> \o Tail(buffer), emitted + 1)
        BY <1>1, <2>2, <4>1, ConsAppend
      <4>3. Waiting' = <<item[me]>> \o Append(Tail(buffer), emitted + 1)
        BY <1>1, <2>1, <2>3, WaitingPrime
      <4> QED BY <4>2, <4>3
    <3>2. Waiting' = Append(RemoveAt(Waiting, 2), emitted + 1)
      BY <2>2, <2>3, <3>1, WaitingFacts, RemoveSecond
    <3>3. Waiting \in Seq(Nat) /\ Len(Waiting) = Len(buffer) + 1
      BY <2>3, WaitingFacts, ConsFacts
    <3>4. DOMAIN Waiting = 1 .. Len(buffer) + 1
      BY <3>3, LenProperties
    <3>5. 2 \in 1 .. Len(buffer) + 1 /\ Len(Waiting) >= Capacity
      BY <2>2, <3>3, WaitingFacts
    <3>6. 2 \in {1, 2} \cap DOMAIN Waiting
      BY <3>4, <3>5
    <3> QED BY <1>1, <3>2, <3>5, <3>6 DEF Fifo!PutLossy, Fifo!RemoveAt, RemoveAt
  <2>4. CASE ~Holding
    <3>1. Waiting = buffer /\ Waiting' = buffer' /\ buffer \in Seq(Nat)
      BY <1>1, <2>4, WaitingFacts, WaitingPrime
    <3>2. RemoveAt(buffer, 1) = Tail(buffer)
      BY <2>2, <3>1, RemoveFirst1
    <3>3. Waiting' = Append(RemoveAt(Waiting, 1), emitted + 1)
      BY <2>1, <3>1, <3>2
    <3>4. DOMAIN Waiting = 1 .. Len(buffer)
      BY <3>1, LenProperties
    <3>5. 1 \in 1 .. Len(buffer) /\ Len(Waiting) >= Capacity
      BY <2>2, <3>1, WaitingFacts
    <3>6. 1 \in {1, 2} \cap DOMAIN Waiting
      BY <3>4, <3>5
    <3> QED BY <1>1, <3>3, <3>5, <3>6 DEF Fifo!PutLossy, Fifo!RemoveAt, RemoveAt
  <2> QED BY <2>3, <2>4
<1> QED BY <1>2, <1>3, WaitingFacts

(***************************************************************************)
(* A get task that takes the first event leaves it first in line.          *)
(***************************************************************************)
LEMMA TakeImplements ==
  ASSUME IInv, IInv', Take(me)
  PROVE  UNCHANGED <<Waiting, out, emitted>>
<1>1. /\ ~Holding /\ buffer # <<>> /\ Holding'
      /\ buffer' = Tail(buffer) /\ item'[me] = Head(buffer)
      /\ UNCHANGED <<out, emitted>>
  BY WaitingFacts DEF Take, Holding, IInv, TypeOK
<1>2. Waiting' = <<Head(buffer)>> \o Tail(buffer)
  BY <1>1, WaitingPrime
<1> QED BY <1>1, <1>2, WaitingFacts, ConsHeadTail

(***************************************************************************)
(* A cancelled iterator puts the event back where it was, or gives up the  *)
(* newest one when the queue has filled in the meantime.                   *)
(***************************************************************************)
LEMMA RaiseImplements ==
  ASSUME IInv, IInv', RaiseCancelled(me)
  PROVE  Fifo!DropNewest \/ UNCHANGED <<Waiting, out, emitted>>
<1>1. ~Holding' /\ UNCHANGED <<out, emitted>>
  BY WaitingFacts DEF RaiseCancelled, Settle, Holding, IInv, TypeOK
<1>2. CASE ~Holding
  <2>1. buffer' = buffer
    BY <1>2 DEF RaiseCancelled, Holding
  <2> QED BY <1>1, <1>2, <2>1, WaitingFacts, WaitingPrime
<1>3. CASE Holding
  <2>1. /\ Waiting = <<item[me]>> \o buffer /\ Waiting \in Seq(Nat)
        /\ Len(Waiting) = Len(buffer) + 1
    BY <1>3, WaitingFacts, ConsFacts
  <2>2. Waiting' = IF Len(Waiting) <= Capacity THEN Waiting ELSE SubSeq(Waiting, 1, Capacity)
    BY <1>1, <1>3, <2>1, WaitingPrime DEF RaiseCancelled, Requeue, Holding
  <2>3. CASE Len(Waiting) <= Capacity
    BY <1>1, <2>2, <2>3
  <2>4. CASE ~(Len(Waiting) <= Capacity)
    <3>1. Len(Waiting) > Capacity /\ Capacity = Len(Waiting) - 1
      BY <2>1, <2>4, WaitingFacts
    <3>2. Waiting' = SubSeq(Waiting, 1, Capacity)
      BY <2>2, <2>4
    <3>3. Waiting' = Front(Waiting)
      BY <3>1, <3>2, Zenon DEF Front
    <3> QED BY <1>1, <3>1, <3>3 DEF Fifo!DropNewest, Fifo!Front, Front
  <2> QED BY <2>3, <2>4
<1> QED BY <1>2, <1>3

(***************************************************************************)
(* What is handed out is first in line, before and after the disconnection.*)
(***************************************************************************)
LEMMA YieldImplements ==
  ASSUME IInv, IInv', Yield(me)
  PROVE  Fifo!Get
<1>1. /\ Holding /\ ~Holding' /\ out' = Append(out, item[me])
      /\ UNCHANGED <<buffer, emitted>>
  BY WaitingFacts DEF Yield, Settle, Holding, IInv, TypeOK
<1>2. Waiting # <<>> /\ Head(Waiting) = item[me] /\ Tail(Waiting) = buffer
  BY <1>1, WaitingFacts, ConsFacts
<1>3. Waiting' = buffer
  BY <1>1, WaitingPrime
<1> QED BY <1>1, <1>2, <1>3 DEF Fifo!Get

LEMMA DrainImplements ==
  ASSUME IInv, IInv', Drain(me)
  PROVE  Fifo!Get \/ UNCHANGED <<Waiting, out, emitted>>
<1>1. ~Holding /\ UNCHANGED emitted
  BY WaitingFacts DEF Drain, Holding, IInv, PhaseInv
<1>2. ~Holding'
  BY WaitingFacts DEF Drain, Settle, Holding, IInv, TypeOK
<1>3. CASE buffer # <<>>
  <2>1. out' = Append(out, Head(buffer)) /\ buffer' = Tail(buffer)
    BY <1>3 DEF Drain
  <2> QED BY <1>1, <1>2, <1>3, <2>1, WaitingFacts, WaitingPrime DEF Fifo!Get
<1>4. CASE buffer = <<>>
  <2>1. UNCHANGED <<out, buffer>>
    BY <1>4 DEF Drain
  <2> QED BY <1>1, <1>2, <2>1, WaitingFacts, WaitingPrime
<1> QED BY <1>3, <1>4

(***************************************************************************)
(* Suspending, waking and cancelling the iterator do not show.             *)
(***************************************************************************)
LEMMA QuietImplements ==
  ASSUME IInv, IInv', Close \/ Pull(me) \/ Woken(me) \/ Cancel(me) \/ UNCHANGED vars
  PROVE  UNCHANGED <<Waiting, out, emitted>>
<1>1. UNCHANGED <<buffer, item, out, emitted>>
  BY DEF Close, Pull, Woken, Cancel, vars
<1>2. Holding' <=> Holding
  <2>1. CASE Close \/ Cancel(me) \/ UNCHANGED vars
    BY <2>1 DEF Close, Cancel, vars, Holding
  <2>2. CASE Pull(me)
    BY <2>2, WaitingFacts DEF Pull, Holding, IInv, TypeOK, PhaseInv
  <2>3. CASE Woken(me)
    BY <2>3, WaitingFacts DEF Woken, Holding, IInv, TypeOK
  <2> QED BY <2>1, <2>2, <2>3
<1> QED BY <1>1, <1>2, WaitingFacts, WaitingPrime

(***************************************************************************)
(* ImplementsFifo: whatever tasks it runs and wherever it is cancelled,    *)
(* events() gives its consumer the events in the order of their emission,  *)
(* each at most once, less those that a full queue gives up.               *)
(***************************************************************************)
THEOREM StreamImplementsFifo == Spec => ImplementsFifo
<1>1. Init => Fifo!Init
  <2> SUFFICES ASSUME Init PROVE Fifo!Init
    OBVIOUS
  <2>1. IInv
    BY InitInv
  <2>2. ~Holding /\ buffer = <<>> /\ out = <<>> /\ emitted = 0
    BY SingleConsumer DEF Init, Holding
  <2> QED BY <2>1, <2>2, WaitingFacts DEF Fifo!Init
<1>2. IInv /\ IInv' /\ [Next]_vars => [Fifo!Next]_<<Waiting, out, emitted>>
  <2> SUFFICES ASSUME IInv, IInv', [Next]_vars
               PROVE  Fifo!Next \/ UNCHANGED <<Waiting, out, emitted>>
    OBVIOUS
  <2>1. CASE Emit
    BY <2>1, EmitImplements DEF Fifo!Next
  <2>2. CASE Take(me)
    BY <2>2, TakeImplements
  <2>3. CASE RaiseCancelled(me)
    BY <2>3, RaiseImplements DEF Fifo!Next
  <2>4. CASE Yield(me)
    BY <2>4, YieldImplements DEF Fifo!Next
  <2>5. CASE Drain(me)
    BY <2>5, DrainImplements DEF Fifo!Next
  <2>6. CASE Close \/ Pull(me) \/ Woken(me) \/ Cancel(me) \/ UNCHANGED vars
    BY <2>6, QuietImplements
  <2> QED BY <2>1, <2>2, <2>3, <2>4, <2>5, <2>6, WaitingFacts DEF Next, Step, Finished
<1> QED BY Invariance, <1>1, <1>2, PTL DEF Spec, ImplementsFifo, Fifo!Spec

=============================================================================

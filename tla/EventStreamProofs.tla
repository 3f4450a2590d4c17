-------------------------- MODULE EventStreamProofs --------------------------
(***************************************************************************)
(* EventStream loses no event but by overflow and hands none out twice,    *)
(* for every set of consumers and every capacity.                          *)
(***************************************************************************)
EXTENDS EventStream, SequenceTheorems, TLAPS

In(e, s) == \E i \in 1 .. Len(s) : s[i] = e
Distinct(s) == \A i, j \in 1 .. Len(s) : s[i] = s[j] => i = j

\* Which tasks an iterator has at each of its awaits, and why it got there.
PhaseInv ==
  \A c \in Consumers :
    /\ pc[c] = "waiting" => get[c] \in {"running", "done"}
    /\ pc[c] = "reaping" => get[c] \in {"done", "cancelled"}
    /\ pc[c] \in {"out", "draining", "ended"} => get[c] = "none" /\ ~cancelled[c]
    /\ get[c] = "cancelled" => closed \/ cancelled[c]
    /\ pc[c] = "draining" => closed

\* The events in the queue, with the consumers and handed out are distinct.
Separate ==
  /\ Distinct(buffer)
  /\ Distinct(out)
  /\ \A e \in Nat : ~(In(e, buffer) /\ In(e, out))
  /\ \A c \in Consumers : get[c] = "done" => ~In(item[c], buffer) /\ ~In(item[c], out)
  /\ \A c, d \in Consumers :
       get[c] = "done" /\ get[d] = "done" /\ item[c] = item[d] => c = d

\* Every event in sight has been emitted, and every event emitted is in sight.
Numbered ==
  /\ \A e \in Nat : In(e, buffer) \/ In(e, out) => e \in 1 .. emitted
  /\ \A c \in Consumers : get[c] = "done" => item[c] \in 1 .. emitted

Accounted ==
  \A e \in 1 .. emitted :
    In(e, buffer) \/ In(e, out) \/ e \in lost
      \/ \E c \in Consumers : get[c] = "done" /\ item[c] = e

IInv == TypeOK /\ PhaseInv /\ Separate /\ Numbered /\ Accounted

-----------------------------------------------------------------------------
(***************************************************************************)
(* How the operations on sequences change what is in them.                 *)
(***************************************************************************)
LEMMA AppendIn ==
  ASSUME NEW s \in Seq(Nat), NEW x \in Nat
  PROVE  /\ Append(s, x) \in Seq(Nat) /\ Len(Append(s, x)) = Len(s) + 1
         /\ \A e : In(e, Append(s, x)) <=> In(e, s) \/ e = x
         /\ Distinct(s) /\ ~In(x, s) => Distinct(Append(s, x))
<1>1. /\ Append(s, x) \in Seq(Nat) /\ Len(Append(s, x)) = Len(s) + 1 /\ Len(s) \in Nat
      /\ \A i \in 1 .. Len(s) : Append(s, x)[i] = s[i]
      /\ Append(s, x)[Len(s) + 1] = x
  BY AppendProperties
<1>2. \A i \in 1 .. Len(s) + 1 : i \in 1 .. Len(s) \/ i = Len(s) + 1
  BY <1>1
<1>3. ASSUME NEW e PROVE In(e, Append(s, x)) <=> In(e, s) \/ e = x
  <2>1. ASSUME In(e, s) PROVE In(e, Append(s, x))
    <3>1. PICK i \in 1 .. Len(s) : s[i] = e
      BY <2>1 DEF In
    <3>2. i \in 1 .. Len(s) + 1
      BY <1>1
    <3> QED
      BY <3>1, <3>2, <1>1 DEF In
  <2>2. In(x, Append(s, x))
    <3>1. Len(s) + 1 \in 1 .. Len(s) + 1
      BY <1>1
    <3> QED
      BY <3>1, <1>1 DEF In
  <2>3. ASSUME In(e, Append(s, x)) PROVE In(e, s) \/ e = x
    BY <2>3, <1>1, <1>2 DEF In
  <2> QED
    BY <2>1, <2>2, <2>3
<1>4. ASSUME Distinct(s), ~In(x, s) PROVE Distinct(Append(s, x))
  BY <1>1, <1>2, <1>4 DEF In, Distinct
<1> QED
  BY <1>1, <1>3, <1>4

LEMMA TailIn ==
  ASSUME NEW s \in Seq(Nat), s # <<>>
  PROVE  /\ Tail(s) \in Seq(Nat) /\ Len(Tail(s)) = Len(s) - 1 /\ Head(s) \in Nat
         /\ In(Head(s), s)
         /\ \A e : In(e, s) <=> In(e, Tail(s)) \/ e = Head(s)
         /\ Distinct(s) => Distinct(Tail(s)) /\ ~In(Head(s), Tail(s))
<1>1. /\ Tail(s) \in Seq(Nat) /\ Len(s) \in Nat \ {0} /\ Len(Tail(s)) = Len(s) - 1
      /\ \A i \in 1 .. Len(s) - 1 : Tail(s)[i] = s[i + 1]
      /\ Head(s) = s[1] /\ s[1] \in Nat
  OBVIOUS
<1>2. In(Head(s), s)
  BY <1>1 DEF In
<1>3. ASSUME NEW e PROVE In(e, s) <=> In(e, Tail(s)) \/ e = Head(s)
  <2>1. ASSUME In(e, s) PROVE In(e, Tail(s)) \/ e = Head(s)
    <3>1. PICK i \in 1 .. Len(s) : s[i] = e
      BY <2>1 DEF In
    <3>2. CASE i = 1
      BY <3>1, <3>2, <1>1
    <3>3. CASE i # 1
      <4>1. i - 1 \in 1 .. Len(s) - 1 /\ Tail(s)[i - 1] = e
        BY <3>1, <3>3, <1>1
      <4> QED
        BY <4>1, <1>1 DEF In
    <3> QED
      BY <3>2, <3>3
  <2>2. ASSUME In(e, Tail(s)) PROVE In(e, s)
    <3>1. PICK i \in 1 .. Len(s) - 1 : s[i + 1] = e
      BY <2>2, <1>1 DEF In
    <3>2. i + 1 \in 1 .. Len(s)
      BY <1>1
    <3> QED
      BY <3>1, <3>2 DEF In
  <2> QED
    BY <2>1, <2>2, <1>2
<1>4. ASSUME Distinct(s) PROVE Distinct(Tail(s)) /\ ~In(Head(s), Tail(s))
  <2>1. \A i \in 1 .. Len(s) - 1 : i + 1 \in 1 .. Len(s) /\ i + 1 # 1
    BY <1>1
  <2>2. Distinct(Tail(s))
    BY <2>1, <1>1, <1>4 DEF Distinct
  <2>3. ~In(Head(s), Tail(s))
    BY <2>1, <1>1, <1>4 DEF Distinct, In
  <2> QED
    BY <2>2, <2>3
<1> QED
  BY <1>1, <1>2, <1>3, <1>4

\* The queue after _requeue_event, and what it drops.
LEMMA RequeueIn ==
  ASSUME IInv, NEW x \in Nat, ~In(x, buffer), Requeue(x)
  PROVE  /\ buffer' \in Seq(Nat) /\ Len(buffer') <= Capacity
         /\ Distinct(buffer')
         /\ \A e : In(e, buffer') => In(e, buffer) \/ e = x
         /\ \A e : In(e, buffer) \/ e = x => In(e, buffer') \/ e \in lost'
         /\ lost \subseteq lost' /\ lost' \subseteq Nat
         /\ lost' # lost => Len(buffer) = Capacity /\ Len(buffer') = Capacity
<1> DEFINE items == <<x>> \o buffer
<1>1. /\ buffer \in Seq(Nat) /\ Len(buffer) \in Nat /\ Len(buffer) <= Capacity
      /\ Distinct(buffer) /\ lost \subseteq Nat
  BY DEF IInv, TypeOK, Separate
<1>2. /\ items \in Seq(Nat) /\ Len(items) = Len(buffer) + 1
      /\ \A i \in 1 .. Len(buffer) + 1 : items[i] = IF i = 1 THEN x ELSE buffer[i - 1]
  <2>1. <<x>> \in Seq(Nat) /\ Len(<<x>>) = 1 /\ <<x>>[1] = x
    OBVIOUS
  <2>2. /\ items \in Seq(Nat) /\ Len(items) = 1 + Len(buffer)
        /\ \A i \in 1 .. 1 + Len(buffer) :
             items[i] = IF i <= 1 THEN <<x>>[i] ELSE buffer[i - 1]
    BY <2>1, <1>1, ConcatProperties
  <2> QED
    BY <2>1, <2>2, <1>1
<1>3. IF Len(items) <= Capacity
      THEN buffer' = items /\ lost' = lost
      ELSE /\ buffer' = SubSeq(items, 1, Capacity)
           /\ lost' = lost \cup {items[i] : i \in Capacity + 1 .. Len(items)}
  BY DEF Requeue
<1> HIDE DEF items
<1>4. \A e : In(e, items) <=> In(e, buffer) \/ e = x
  <2> SUFFICES ASSUME NEW e PROVE In(e, items) <=> In(e, buffer) \/ e = x
    OBVIOUS
  <2>1. In(x, items)
    <3>1. 1 \in 1 .. Len(items)
      BY <1>1, <1>2
    <3> QED
      BY <3>1, <1>2 DEF In
  <2>2. ASSUME In(e, buffer) PROVE In(e, items)
    <3>1. PICK i \in 1 .. Len(buffer) : buffer[i] = e
      BY <2>2 DEF In
    <3>2. i + 1 \in 1 .. Len(items) /\ items[i + 1] = e
      BY <3>1, <1>1, <1>2
    <3> QED
      BY <3>2 DEF In
  <2>3. ASSUME In(e, items) PROVE In(e, buffer) \/ e = x
    <3>1. PICK i \in 1 .. Len(buffer) + 1 : items[i] = e
      BY <2>3, <1>2 DEF In
    <3>2. i # 1 => i - 1 \in 1 .. Len(buffer)
      BY <1>1
    <3> QED
      BY <3>1, <3>2, <1>2 DEF In
  <2> QED
    BY <2>1, <2>2, <2>3
<1>5. Distinct(items)
  <2> SUFFICES ASSUME NEW i \in 1 .. Len(items), NEW j \in 1 .. Len(items), items[i] = items[j]
               PROVE  i = j
    BY DEF Distinct
  <2>1. /\ i # 1 => i - 1 \in 1 .. Len(buffer)
        /\ j # 1 => j - 1 \in 1 .. Len(buffer)
    BY <1>1, <1>2
  <2>2. CASE i = 1 \/ j = 1
    BY <2>1, <2>2, <1>2 DEF In
  <2>3. CASE i # 1 /\ j # 1
    <3>1. buffer[i - 1] = buffer[j - 1] /\ i - 1 = j - 1
      BY <2>1, <2>3, <1>1, <1>2 DEF Distinct
    <3> QED
      BY <3>1, <1>2
  <2> QED
    BY <2>2, <2>3
<1>6. CASE Len(items) <= Capacity
  BY <1>1, <1>2, <1>3, <1>4, <1>5, <1>6
<1>7. CASE ~(Len(items) <= Capacity)
  <2>1. /\ buffer' = SubSeq(items, 1, Capacity)
        /\ lost' = lost \cup {items[i] : i \in Capacity + 1 .. Len(items)}
        /\ Len(items) = Capacity + 1 /\ Len(buffer) = Capacity
    BY <1>1, <1>2, <1>3, <1>7, CapacityAssumption
  <2>2. /\ buffer' \in Seq(Nat) /\ Len(buffer') = Capacity
        /\ \A i \in 1 .. Capacity : buffer'[i] = items[i]
    <3>1. \A i \in 1 .. Capacity : items[i] \in Nat
      BY <1>2, <2>1, CapacityAssumption
    <3>2. /\ SubSeq(items, 1, Capacity) \in Seq(Nat)
          /\ Len(SubSeq(items, 1, Capacity)) = Capacity
          /\ \A i \in 1 .. Capacity - 1 + 1 : SubSeq(items, 1, Capacity)[i] = items[1 + i - 1]
      BY <3>1, SubSeqProperties, CapacityAssumption
    <3>3. Capacity - 1 + 1 = Capacity /\ \A i \in 1 .. Capacity : 1 + i - 1 = i
      BY CapacityAssumption
    <3> QED
      BY <2>1, <3>2, <3>3
  <2>3. \A i \in 1 .. Capacity : i \in 1 .. Len(items)
    BY <2>1, CapacityAssumption
  <2>4. Distinct(buffer')
    BY <1>5, <2>2, <2>3 DEF Distinct
  <2>5. \A e : In(e, buffer') => In(e, items)
    BY <2>2, <2>3 DEF In
  <2>6. ASSUME NEW e, In(e, items) PROVE In(e, buffer') \/ e \in lost'
    <3>1. PICK i \in 1 .. Len(items) : items[i] = e
      BY <2>6 DEF In
    <3>2. CASE i <= Capacity
      <4>1. i \in 1 .. Len(buffer') /\ buffer'[i] = e
        BY <3>1, <3>2, <2>2, CapacityAssumption
      <4> QED
        BY <4>1 DEF In
    <3>3. CASE ~(i <= Capacity)
      <4>1. i \in Capacity + 1 .. Len(items)
        BY <3>3, <2>1, CapacityAssumption
      <4> QED
        BY <4>1, <3>1, <2>1
    <3> QED
      BY <3>2, <3>3
  <2>7. lost' \subseteq Nat
    <3>1. \A i \in Capacity + 1 .. Len(items) : i \in 1 .. Len(items)
      BY CapacityAssumption, <1>2, <1>1
    <3>2. \A i \in Capacity + 1 .. Len(items) : items[i] \in Nat
      BY <3>1, <1>2, <1>1
    <3>3. {items[i] : i \in Capacity + 1 .. Len(items)} \subseteq Nat
      BY <3>2
    <3> QED
      BY <3>3, <2>1, <1>1
  <2> QED
    BY <1>4, <2>1, <2>2, <2>4, <2>5, <2>6, <2>7
<1> QED
  BY <1>6, <1>7

-----------------------------------------------------------------------------
(***************************************************************************)
(* IInv is an invariant, action by action.                                 *)
(***************************************************************************)
LEMMA InitInv == Init => IInv
<1> SUFFICES ASSUME Init PROVE IInv
  OBVIOUS
<1>1. TypeOK
  <2>1. buffer \in Seq(Nat) /\ Len(buffer) <= Capacity /\ out \in Seq(Nat)
    BY CapacityAssumption DEF Init
  <2>2. /\ pc \in [Consumers -> Places]
        /\ get \in [Consumers -> {"none", "running", "done", "cancelled"}]
        /\ item \in [Consumers -> Nat] /\ cancelled \in [Consumers -> BOOLEAN]
    BY DEF Init, Places, NoEvent
  <2>3. closed \in BOOLEAN /\ emitted \in Nat /\ lost \subseteq Nat /\ cancels \in Nat
    BY DEF Init
  <2> QED
    BY <2>1, <2>2, <2>3 DEF TypeOK
<1>2. \A e : ~In(e, <<>>)
  BY DEF In
<1>3. Distinct(<<>>)
  BY DEF Distinct
<1>4. PhaseInv
  BY DEF Init, PhaseInv
<1> QED
  BY <1>1, <1>2, <1>3, <1>4 DEF IInv, Init, Separate, Numbered, Accounted

\* The newest event has a number of its own.
LEMMA EmitInv == IInv /\ Emit => IInv'
<1> SUFFICES ASSUME IInv, Emit PROVE IInv'
  OBVIOUS
<1> DEFINE room == IF Len(buffer) < Capacity THEN buffer ELSE Tail(buffer)
<1> DEFINE gone == IF Len(buffer) < Capacity THEN {} ELSE {Head(buffer)}
<1>1. /\ emitted \in Nat /\ emitted' = emitted + 1 /\ buffer \in Seq(Nat)
      /\ Len(buffer) \in Nat /\ Len(buffer) <= Capacity /\ Distinct(buffer)
      /\ ~In(emitted + 1, buffer)
      /\ UNCHANGED <<closed, pc, get, item, cancelled, out, cancels>>
  BY DEF IInv, TypeOK, Separate, Numbered, Emit
<1>2. /\ room \in Seq(Nat) /\ Len(room) < Capacity /\ Distinct(room) /\ gone \subseteq Nat
      /\ \A e : In(e, buffer) <=> In(e, room) \/ e \in gone
  <2>1. CASE Len(buffer) < Capacity
    BY <2>1, <1>1
  <2>2. CASE ~(Len(buffer) < Capacity)
    <3>1. buffer # <<>> /\ Len(buffer) = Capacity
      BY <2>2, <1>1, CapacityAssumption
    <3> QED
      BY <3>1, <2>2, <1>1, TailIn, CapacityAssumption
  <2> QED
    BY <2>1, <2>2
<1>3. buffer' = Append(room, emitted + 1) /\ lost' = lost \cup gone
  <2>1. CASE Len(buffer) < Capacity
    BY <2>1, <1>1, CapacityAssumption DEF Emit
  <2>2. CASE ~(Len(buffer) < Capacity)
    BY <2>2, <1>1, CapacityAssumption DEF Emit
  <2> QED
    BY <2>1, <2>2
<1> HIDE DEF room, gone
<1>4. /\ buffer' \in Seq(Nat) /\ Len(buffer') = Len(room) + 1 /\ Distinct(buffer')
      /\ \A e : In(e, buffer') <=> In(e, room) \/ e = emitted + 1
  BY <1>1, <1>2, <1>3, AppendIn
<1>5. TypeOK'
  <2>1. Len(room) \in Nat
    BY <1>2
  <2> QED
    BY <2>1, <1>1, <1>2, <1>3, <1>4, CapacityAssumption DEF IInv, TypeOK
<1>6. PhaseInv'
  BY <1>1 DEF IInv, PhaseInv
<1>7. Separate'
  <2>1. ~In(emitted + 1, out) /\ \A c \in Consumers : get[c] = "done" => item[c] # emitted + 1
    BY <1>1 DEF IInv, Numbered
  <2> QED
    BY <2>1, <1>1, <1>2, <1>4 DEF IInv, Separate
<1>8. Numbered'
  <2>1. emitted' \in 1 .. emitted' /\ \A e \in 1 .. emitted : e \in 1 .. emitted'
    BY <1>1
  <2> QED
    BY <2>1, <1>1, <1>2, <1>4 DEF IInv, Numbered
<1>9. Accounted'
  <2>1. \A e \in 1 .. emitted' : e \in 1 .. emitted \/ e = emitted + 1
    BY <1>1
  <2> QED
    BY <2>1, <1>1, <1>2, <1>3, <1>4 DEF IInv, Accounted
<1> QED
  BY <1>5, <1>6, <1>7, <1>8, <1>9 DEF IInv

\* Steps that move no event.
LEMMA QuietInv ==
  ASSUME NEW c \in Consumers, IInv, Close \/ Pull(c) \/ Woken(c) \/ Cancel(c)
  PROVE  IInv'
<1>1. UNCHANGED <<buffer, item, emitted, out, lost>>
  BY DEF Close, Pull, Woken, Cancel
<1>2. TypeOK'
  <2>1. CASE Close
    BY <2>1 DEF IInv, TypeOK, Close
  <2>2. CASE Pull(c)
    BY <2>2 DEF IInv, TypeOK, Places, Pull
  <2>3. CASE Woken(c)
    BY <2>3 DEF IInv, TypeOK, Places, Woken
  <2>4. CASE Cancel(c)
    BY <2>4 DEF IInv, TypeOK, Cancel
  <2> QED
    BY <2>1, <2>2, <2>3, <2>4
<1>3. PhaseInv'
  BY DEF IInv, TypeOK, PhaseInv, Places, Close, Pull, Woken, Cancel
<1>4. \A d \in Consumers : get'[d] = "done" <=> get[d] = "done"
  BY DEF IInv, TypeOK, PhaseInv, Close, Pull, Woken, Cancel
<1>5. Separate' /\ Numbered' /\ Accounted'
  <2>1. Separate'
    BY <1>1, <1>4 DEF IInv, Separate
  <2>2. Numbered'
    BY <1>1, <1>4 DEF IInv, Numbered
  <2>3. Accounted'
    BY <1>1, <1>4 DEF IInv, Accounted
  <2> QED
    BY <2>1, <2>2, <2>3
<1> QED
  BY <1>2, <1>3, <1>5 DEF IInv

\* The oldest event moves from the queue to the get task.
LEMMA TakeInv == ASSUME NEW c \in Consumers, IInv, Take(c) PROVE IInv'
<1>1. /\ buffer \in Seq(Nat) /\ buffer # <<>> /\ buffer' = Tail(buffer)
      /\ get[c] = "running"
      /\ get' = [get EXCEPT ![c] = "done"] /\ item' = [item EXCEPT ![c] = Head(buffer)]
      /\ UNCHANGED <<closed, pc, cancelled, emitted, out, lost, cancels>>
  BY DEF IInv, TypeOK, Take
<1>2. /\ buffer' \in Seq(Nat) /\ Len(buffer') = Len(buffer) - 1 /\ Head(buffer) \in Nat
      /\ In(Head(buffer), buffer) /\ ~In(Head(buffer), buffer') /\ Distinct(buffer')
      /\ \A e : In(e, buffer) <=> In(e, buffer') \/ e = Head(buffer)
  BY <1>1, TailIn DEF IInv, Separate
<1>3. /\ \A d \in Consumers : d # c => get'[d] = get[d] /\ item'[d] = item[d]
      /\ get'[c] = "done" /\ item'[c] = Head(buffer)
  BY <1>1 DEF IInv, TypeOK
<1>4. TypeOK'
  <2>1. Len(buffer) \in Nat /\ Len(buffer) <= Capacity
    BY <1>1 DEF IInv, TypeOK
  <2> QED
    BY <2>1, <1>1, <1>2, CapacityAssumption DEF IInv, TypeOK
<1>5. PhaseInv'
  BY <1>1, <1>3 DEF IInv, PhaseInv, TypeOK, Places
<1>6. Separate'
  <2>1. \A d \in Consumers : get[d] = "done" => item[d] # Head(buffer)
    BY <1>2 DEF IInv, Separate
  <2>2. ~In(Head(buffer), out)
    BY <1>2 DEF IInv, Separate
  <2>3. \A e \in Nat : ~(In(e, buffer') /\ In(e, out'))
    BY <1>1, <1>2 DEF IInv, Separate
  <2>4. \A d \in Consumers : get'[d] = "done" => ~In(item'[d], buffer') /\ ~In(item'[d], out')
    BY <2>2, <1>1, <1>2, <1>3 DEF IInv, Separate
  <2>5. \A d, e \in Consumers :
          get'[d] = "done" /\ get'[e] = "done" /\ item'[d] = item'[e] => d = e
    BY <2>1, <1>3 DEF IInv, Separate
  <2> QED
    BY <2>3, <2>4, <2>5, <1>1, <1>2 DEF IInv, Separate
<1>7. Numbered'
  BY <1>1, <1>2, <1>3 DEF IInv, Numbered
<1>8. Accounted'
  <2> SUFFICES ASSUME NEW e \in 1 .. emitted
               PROVE  In(e, buffer') \/ In(e, out) \/ e \in lost
                        \/ \E d \in Consumers : get'[d] = "done" /\ item'[d] = e
    BY <1>1 DEF Accounted
  <2>1. CASE In(e, buffer)
    BY <2>1, <1>2, <1>3
  <2>2. CASE \E d \in Consumers : get[d] = "done" /\ item[d] = e
    BY <2>2, <1>1, <1>3
  <2> QED
    BY <2>1, <2>2 DEF IInv, Accounted
<1> QED
  BY <1>4, <1>5, <1>6, <1>7, <1>8 DEF IInv

\* What Settle leaves of a consumer.
LEMMA SettleFacts ==
  ASSUME NEW c \in Consumers, NEW p \in Places, IInv, Settle(c, p)
  PROVE  /\ pc' \in [Consumers -> Places]
         /\ get' \in [Consumers -> {"none", "running", "done", "cancelled"}]
         /\ item' \in [Consumers -> Nat]
         /\ cancelled' \in [Consumers -> BOOLEAN]
         /\ pc'[c] = p /\ get'[c] = "none" /\ cancelled'[c] = FALSE
         /\ \A d \in Consumers : d # c => /\ pc'[d] = pc[d] /\ get'[d] = get[d]
                                          /\ item'[d] = item[d]
                                          /\ cancelled'[d] = cancelled[d]
BY DEF IInv, TypeOK, Settle, NoEvent

\* A cancelled consumer gives its event back to the queue.
LEMMA RaiseInv == ASSUME NEW c \in Consumers, IInv, RaiseCancelled(c) PROVE IInv'
<1>1. /\ get[c] \in {"done", "cancelled"}
      /\ Settle(c, "out") /\ UNCHANGED <<closed, emitted, out, cancels>>
      /\ IF get[c] = "done" THEN Requeue(item[c]) ELSE UNCHANGED <<buffer, lost>>
  BY DEF IInv, PhaseInv, RaiseCancelled
<1>2. /\ item[c] \in Nat
      /\ get[c] = "done" => ~In(item[c], buffer) /\ ~In(item[c], out) /\ item[c] \in 1 .. emitted
  BY DEF IInv, TypeOK, Separate, Numbered
<1> DEFINE back(e) == get[c] = "done" /\ e = item[c]
<1>3. /\ buffer' \in Seq(Nat) /\ Len(buffer') <= Capacity /\ Distinct(buffer')
      /\ \A e : In(e, buffer') => In(e, buffer) \/ back(e)
      /\ \A e : In(e, buffer) \/ back(e) => In(e, buffer') \/ e \in lost'
      /\ lost \subseteq lost' /\ lost' \subseteq Nat
  <2>1. CASE get[c] = "done"
    BY <2>1, <1>1, <1>2, RequeueIn
  <2>2. CASE get[c] # "done"
    BY <2>2, <1>1 DEF IInv, TypeOK, Separate
  <2> QED
    BY <2>1, <2>2
<1> HIDE DEF back
<1>4. /\ pc' \in [Consumers -> Places]
      /\ get' \in [Consumers -> {"none", "running", "done", "cancelled"}]
      /\ item' \in [Consumers -> Nat]
      /\ cancelled' \in [Consumers -> BOOLEAN]
      /\ pc'[c] = "out" /\ get'[c] = "none" /\ cancelled'[c] = FALSE
      /\ \A d \in Consumers : d # c => /\ pc'[d] = pc[d] /\ get'[d] = get[d]
                                       /\ item'[d] = item[d] /\ cancelled'[d] = cancelled[d]
  BY <1>1, SettleFacts DEF Places
<1>5. TypeOK'
  BY <1>1, <1>3, <1>4 DEF IInv, TypeOK
<1>6. PhaseInv'
  BY <1>1, <1>4 DEF IInv, PhaseInv
<1>7. Separate'
  <2>1. \A e \in Nat : ~(In(e, buffer') /\ In(e, out'))
    BY <1>1, <1>2, <1>3 DEF IInv, Separate, back
  <2>2. \A d \in Consumers : get'[d] = "done" => ~In(item'[d], buffer') /\ ~In(item'[d], out')
    <3> SUFFICES ASSUME NEW d \in Consumers, get'[d] = "done"
                 PROVE  ~In(item'[d], buffer') /\ ~In(item'[d], out')
      OBVIOUS
    <3>1. d # c /\ get[d] = "done" /\ item'[d] = item[d]
      BY <1>4
    <3>2. ~back(item[d])
      BY <3>1 DEF IInv, Separate, back
    <3> QED
      BY <3>1, <3>2, <1>1, <1>3 DEF IInv, Separate
  <2>3. \A d, e \in Consumers :
          get'[d] = "done" /\ get'[e] = "done" /\ item'[d] = item'[e] => d = e
    BY <1>4 DEF IInv, Separate
  <2> QED
    BY <2>1, <2>2, <2>3, <1>1, <1>3 DEF IInv, Separate
<1>8. Numbered'
  BY <1>1, <1>2, <1>3, <1>4 DEF IInv, Numbered, back
<1>9. Accounted'
  <2> SUFFICES ASSUME NEW e \in 1 .. emitted
               PROVE  In(e, buffer') \/ In(e, out) \/ e \in lost'
                        \/ \E d \in Consumers : get'[d] = "done" /\ item'[d] = e
    BY <1>1 DEF Accounted
  <2>1. CASE \E d \in Consumers : get[d] = "done" /\ item[d] = e
    BY <2>1, <1>3, <1>4 DEF back
  <2> QED
    BY <2>1, <1>3 DEF IInv, Accounted
<1> QED
  BY <1>5, <1>6, <1>7, <1>8, <1>9 DEF IInv

\* The event of the get task is handed out.
LEMMA YieldInv == ASSUME NEW c \in Consumers, IInv, Yield(c) PROVE IInv'
<1>1. /\ get[c] = "done" /\ Settle(c, "out") /\ out' = Append(out, item[c])
      /\ UNCHANGED <<buffer, closed, emitted, lost, cancels>>
  BY DEF Yield
<1>2. /\ item[c] \in Nat /\ ~In(item[c], buffer) /\ ~In(item[c], out)
      /\ item[c] \in 1 .. emitted /\ out \in Seq(Nat) /\ Distinct(out)
  BY <1>1 DEF IInv, TypeOK, Separate, Numbered
<1>3. /\ out' \in Seq(Nat) /\ Distinct(out')
      /\ \A e : In(e, out') <=> In(e, out) \/ e = item[c]
  BY <1>1, <1>2, AppendIn
<1>4. /\ pc' \in [Consumers -> Places]
      /\ get' \in [Consumers -> {"none", "running", "done", "cancelled"}]
      /\ item' \in [Consumers -> Nat]
      /\ cancelled' \in [Consumers -> BOOLEAN]
      /\ pc'[c] = "out" /\ get'[c] = "none" /\ cancelled'[c] = FALSE
      /\ \A d \in Consumers : d # c => /\ pc'[d] = pc[d] /\ get'[d] = get[d]
                                       /\ item'[d] = item[d] /\ cancelled'[d] = cancelled[d]
  BY <1>1, SettleFacts DEF Places
<1>5. TypeOK'
  BY <1>1, <1>3, <1>4 DEF IInv, TypeOK
<1>6. PhaseInv'
  BY <1>1, <1>4 DEF IInv, PhaseInv
<1>7. Separate'
  <2>1. \A e \in Nat : ~(In(e, buffer') /\ In(e, out'))
    BY <1>1, <1>2, <1>3 DEF IInv, Separate
  <2>2. \A d \in Consumers : get'[d] = "done" => ~In(item'[d], buffer') /\ ~In(item'[d], out')
    <3> SUFFICES ASSUME NEW d \in Consumers, get'[d] = "done"
                 PROVE  ~In(item'[d], buffer') /\ ~In(item'[d], out')
      OBVIOUS
    <3>1. d # c /\ get[d] = "done" /\ item'[d] = item[d]
      BY <1>4
    <3>2. item[d] # item[c]
      BY <3>1, <1>1 DEF IInv, Separate
    <3> QED
      BY <3>1, <3>2, <1>1, <1>3 DEF IInv, Separate
  <2>3. \A d, e \in Consumers :
          get'[d] = "done" /\ get'[e] = "done" /\ item'[d] = item'[e] => d = e
    BY <1>4 DEF IInv, Separate
  <2> QED
    BY <2>1, <2>2, <2>3, <1>1, <1>3 DEF IInv, Separate
<1>8. Numbered'
  BY <1>1, <1>2, <1>3, <1>4 DEF IInv, Numbered
<1>9. Accounted'
  <2> SUFFICES ASSUME NEW e \in 1 .. emitted
               PROVE  In(e, buffer) \/ In(e, out') \/ e \in lost
                        \/ \E d \in Consumers : get'[d] = "done" /\ item'[d] = e
    BY <1>1 DEF Accounted
  <2>1. CASE \E d \in Consumers : get[d] = "done" /\ item[d] = e
    BY <2>1, <1>3, <1>4
  <2> QED
    BY <2>1, <1>3 DEF IInv, Accounted
<1> QED
  BY <1>5, <1>6, <1>7, <1>8, <1>9 DEF IInv

\* The oldest event of a closed session is handed out, or there is none.
LEMMA DrainInv == ASSUME NEW c \in Consumers, IInv, Drain(c) PROVE IInv'
<1>1. /\ get[c] # "done" /\ closed
      /\ UNCHANGED <<closed, emitted, lost, cancels>>
  BY DEF IInv, PhaseInv, Drain
<1>2. PICK p \in {"draining", "ended"} : Settle(c, p)
  BY DEF Drain
<1>3. /\ pc' \in [Consumers -> Places]
      /\ get' \in [Consumers -> {"none", "running", "done", "cancelled"}]
      /\ item' \in [Consumers -> Nat]
      /\ cancelled' \in [Consumers -> BOOLEAN]
      /\ pc'[c] = p /\ get'[c] = "none" /\ cancelled'[c] = FALSE
      /\ \A d \in Consumers : d # c => /\ pc'[d] = pc[d] /\ get'[d] = get[d]
                                       /\ item'[d] = item[d] /\ cancelled'[d] = cancelled[d]
  <2>1. p \in Places
    BY DEF Places
  <2> QED
    BY <2>1, <1>2, SettleFacts
<1>4. PhaseInv'
  BY <1>1, <1>3 DEF IInv, PhaseInv
<1>5. \A d \in Consumers : get'[d] = "done" <=> get[d] = "done"
  BY <1>1, <1>3
<1>6. \A d \in Consumers : get[d] = "done" => item'[d] = item[d]
  BY <1>1, <1>3
<1>7. CASE buffer = <<>>
  <2>1. UNCHANGED <<out, buffer>>
    BY <1>7 DEF Drain
  <2>2. TypeOK'
    BY <2>1, <1>1, <1>3 DEF IInv, TypeOK
  <2>3. Separate'
    BY <2>1, <1>5, <1>6 DEF IInv, Separate
  <2>4. Numbered'
    BY <2>1, <1>1, <1>5, <1>6 DEF IInv, Numbered
  <2>5. Accounted'
    BY <2>1, <1>1, <1>5, <1>6 DEF IInv, Accounted
  <2> QED
    BY <2>2, <2>3, <2>4, <2>5, <1>4 DEF IInv
<1>8. CASE buffer # <<>>
  <2>1. /\ buffer \in Seq(Nat) /\ out \in Seq(Nat) /\ Len(buffer) \in Nat
        /\ Len(buffer) <= Capacity
        /\ out' = Append(out, Head(buffer)) /\ buffer' = Tail(buffer)
    BY <1>8 DEF IInv, TypeOK, Drain
  <2>2. /\ buffer' \in Seq(Nat) /\ Len(buffer') = Len(buffer) - 1 /\ Head(buffer) \in Nat
        /\ In(Head(buffer), buffer) /\ ~In(Head(buffer), buffer') /\ Distinct(buffer')
        /\ \A e : In(e, buffer) <=> In(e, buffer') \/ e = Head(buffer)
    BY <2>1, <1>8, TailIn DEF IInv, Separate
  <2>3. ~In(Head(buffer), out)
    BY <2>2 DEF IInv, Separate
  <2>4. /\ out' \in Seq(Nat) /\ Distinct(out')
        /\ \A e : In(e, out') <=> In(e, out) \/ e = Head(buffer)
    BY <2>1, <2>2, <2>3, AppendIn DEF IInv, Separate
  <2>5. TypeOK'
    <3>1. Len(buffer') <= Capacity
      BY <2>1, <2>2, CapacityAssumption
    <3> QED
      BY <3>1, <2>2, <2>4, <1>1, <1>3 DEF IInv, TypeOK
  <2>6. Separate'
    <3>1. \A e \in Nat : ~(In(e, buffer') /\ In(e, out'))
      BY <2>2, <2>4 DEF IInv, Separate
    <3>2. \A d \in Consumers :
            get'[d] = "done" => ~In(item'[d], buffer') /\ ~In(item'[d], out')
      BY <2>2, <2>4, <1>5, <1>6 DEF IInv, Separate
    <3>3. \A d, e \in Consumers :
            get'[d] = "done" /\ get'[e] = "done" /\ item'[d] = item'[e] => d = e
      BY <1>5, <1>6 DEF IInv, Separate
    <3> QED
      BY <3>1, <3>2, <3>3, <2>2, <2>4 DEF Separate
  <2>7. Numbered'
    BY <2>2, <2>4, <1>1, <1>5, <1>6 DEF IInv, Numbered
  <2>8. Accounted'
    <3> SUFFICES ASSUME NEW e \in 1 .. emitted
                 PROVE  In(e, buffer') \/ In(e, out') \/ e \in lost
                          \/ \E d \in Consumers : get'[d] = "done" /\ item'[d] = e
      BY <1>1 DEF Accounted
    <3>1. CASE \E d \in Consumers : get[d] = "done" /\ item[d] = e
      BY <3>1, <1>5, <1>6
    <3> QED
      BY <3>1, <2>2, <2>4 DEF IInv, Accounted
  <2> QED
    BY <2>5, <2>6, <2>7, <2>8, <1>4 DEF IInv
<1> QED
  BY <1>7, <1>8

LEMMA StutterInv == IInv /\ UNCHANGED vars => IInv'
BY DEF IInv, TypeOK, PhaseInv, Separate, Numbered, Accounted, vars

LEMMA NextInv == IInv /\ [Next]_vars => IInv'
<1> SUFFICES ASSUME IInv, [Next]_vars PROVE IInv'
  OBVIOUS
<1>1. CASE Emit
  BY <1>1, EmitInv
<1>2. CASE Close
  <2>1. TypeOK' /\ PhaseInv'
    BY <1>2 DEF IInv, TypeOK, PhaseInv, Close
  <2>2. Separate' /\ Numbered' /\ Accounted'
    BY <1>2 DEF IInv, Separate, Numbered, Accounted, Close
  <2> QED
    BY <2>1, <2>2 DEF IInv
<1>3. ASSUME NEW c \in Consumers, Step(c) \/ Cancel(c) PROVE IInv'
  BY <1>3, QuietInv, TakeInv, RaiseInv, YieldInv, DrainInv DEF Step
<1>4. CASE UNCHANGED vars
  BY <1>4, StutterInv
<1> QED
  BY <1>1, <1>2, <1>3, <1>4 DEF Next, Finished

-----------------------------------------------------------------------------
(***************************************************************************)
(* The strengthened invariant is an invariant.                             *)
(***************************************************************************)
THEOREM Invariance == Spec => []IInv
<1>1. Init => IInv
  BY InitInv
<1>2. IInv /\ [Next]_vars => IInv'
  BY NextInv
<1> QED
  BY <1>1, <1>2, PTL DEF Spec

(***************************************************************************)
(* TypeOK holds; in particular the queue never exceeds its capacity.       *)
(***************************************************************************)
THEOREM TypeCorrect == Spec => []TypeOK
<1>1. IInv => TypeOK
  BY DEF IInv
<1> QED
  BY <1>1, Invariance, PTL

\* The members of a sequence are what is in it.
LEMMA ToSetIn == ASSUME NEW s \in Seq(Nat), NEW e PROVE e \in ToSet(s) <=> In(e, s)
BY DEF ToSet, In

(***************************************************************************)
(* NothingVanishes: whatever is cancelled or disconnected in between, an   *)
(* emitted event is queued, held by a get task, handed out, or dropped by  *)
(* a full queue.                                                           *)
(***************************************************************************)
THEOREM EventsAreAccountedFor == Spec => []NothingVanishes
<1>1. IInv => NothingVanishes
  <2> SUFFICES ASSUME IInv, NEW e \in 1 .. emitted
               PROVE  e \in ToSet(buffer) \cup Held \cup ToSet(out) \cup lost
    BY DEF NothingVanishes
  <2>1. buffer \in Seq(Nat) /\ out \in Seq(Nat)
    BY DEF IInv, TypeOK
  <2>2. (\E c \in Consumers : get[c] = "done" /\ item[c] = e) => e \in Held
    BY DEF Held
  <2> QED
    BY <2>1, <2>2, ToSetIn DEF IInv, Accounted
<1> QED
  BY <1>1, Invariance, PTL

(***************************************************************************)
(* HandedOutOnce: no event reaches the consumers twice.                    *)
(***************************************************************************)
THEOREM EventsAreHandedOutOnce == Spec => []HandedOutOnce
<1>1. IInv => HandedOutOnce
  <2> SUFFICES ASSUME IInv PROVE HandedOutOnce
    OBVIOUS
  <2>1. buffer \in Seq(Nat) /\ out \in Seq(Nat)
    BY DEF IInv, TypeOK
  <2>2. IsInjective(out)
    <3>1. DOMAIN out = 1 .. Len(out)
      BY <2>1
    <3> QED
      BY <3>1 DEF IInv, Separate, Distinct, IsInjective
  <2>3. ASSUME NEW e \in ToSet(out) PROVE e \notin ToSet(buffer) \cup Held
    <3>1. e \in Nat /\ In(e, out)
      BY <2>1, ToSetIn DEF ToSet
    <3>2. ~In(e, buffer)
      BY <3>1 DEF IInv, Separate
    <3>3. e \notin Held
      BY <3>1 DEF IInv, Separate, Held
    <3> QED
      BY <2>1, <3>2, <3>3, ToSetIn
  <2> QED
    BY <2>2, <2>3 DEF HandedOutOnce
<1> QED
  BY <1>1, Invariance, PTL

(***************************************************************************)
(* LossOnlyWhenFull: an event is dropped only by a queue that is full.     *)
(***************************************************************************)
THEOREM OnlyFullQueuesDrop == Spec => LossOnlyWhenFull
<1>1. IInv /\ [Next]_vars =>
        [lost' # lost => Len(buffer) = Capacity /\ Len(buffer') = Capacity]_vars
  <2> SUFFICES ASSUME IInv, Next, lost' # lost
               PROVE  Len(buffer) = Capacity /\ Len(buffer') = Capacity
    BY DEF vars
  <2>1. CASE Emit
    <3>1. /\ buffer \in Seq(Nat) /\ Len(buffer) = Capacity /\ emitted + 1 \in Nat
          /\ buffer' = Append(Tail(buffer), emitted + 1)
      BY <2>1, CapacityAssumption DEF IInv, TypeOK, Emit
    <3> QED
      BY <3>1, CapacityAssumption
  <2>2. ASSUME NEW c \in Consumers, RaiseCancelled(c)
        PROVE  Len(buffer) = Capacity /\ Len(buffer') = Capacity
    <3>1. get[c] = "done" /\ Requeue(item[c])
      BY <2>2 DEF RaiseCancelled
    <3>2. item[c] \in Nat /\ ~In(item[c], buffer)
      BY <3>1 DEF IInv, TypeOK, Separate
    <3> QED
      BY <3>1, <3>2, RequeueIn
  <2>3. Emit \/ \E c \in Consumers : RaiseCancelled(c)
    BY DEF Next, Step, Close, Pull, Take, Woken, Cancel, Yield, Drain, Finished, vars
  <2> QED
    BY <2>1, <2>2, <2>3
<1> QED
  BY <1>1, Invariance, PTL DEF Spec, LossOnlyWhenFull

(***************************************************************************)
(* EndsWhenDrained: a stream ends on a closed session with nothing left.   *)
(***************************************************************************)
THEOREM StreamsEndDrained == Spec => EndsWhenDrained
<1> DEFINE Goal == \A c \in Consumers :
                     pc'[c] = "ended" /\ pc[c] # "ended" =>
                       closed /\ buffer = <<>> /\ get[c] # "done"
<1>1. IInv /\ [Next]_vars => [Goal]_vars
  <2> SUFFICES ASSUME IInv, Next, NEW c \in Consumers, pc'[c] = "ended", pc[c] # "ended"
               PROVE  closed /\ buffer = <<>> /\ get[c] # "done"
    BY DEF vars
  <2>1. PICK d \in Consumers : Drain(d)
    BY DEF Next, Step, Emit, Close, Pull, Take, Woken, Cancel, RaiseCancelled, Settle, Yield,
           Finished, vars, IInv, TypeOK, Places
  <2>2. c = d /\ buffer = <<>>
    BY <2>1 DEF Drain, Settle, IInv, TypeOK
  <2> QED
    BY <2>1, <2>2 DEF Drain, IInv, PhaseInv
<1> QED
  BY <1>1, Invariance, PTL DEF Spec, EndsWhenDrained

=============================================================================

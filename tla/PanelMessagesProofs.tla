------------------------ MODULE PanelMessagesProofs ------------------------
(***************************************************************************)
(* The safety properties of PanelMessages, proved for every key, every     *)
(* character set, text length and set of replies, and the theorems about   *)
(* the message formats that they rest on:                                  *)
(*                                                                         *)
(*   RoundTrip       a frame is decoded to itself,                         *)
(*   KeyIsNeeded     or refused without the key,                           *)
(*   DamagedFrame    or when a byte of it has changed;                     *)
(*   EventIsParsed   an event is parsed to what it was sent as,            *)
(*   ReplyIsParsed   and so is a reply;                                    *)
(*   Inductive       where a message is, frame by frame.                   *)
(*                                                                         *)
(* Joining, checksums and parsing are recursive: what they compute is      *)
(* proved by induction over the length, which SetInduction states about a  *)
(* set of numbers.                                                         *)
(***************************************************************************)
EXTENDS PanelMessages, SequenceTheorems, WellFoundedInduction, FiniteSetTheorems, TLAPS

-----------------------------------------------------------------------------
(***************************************************************************)
(* Induction, and sequences that are joined.                               *)
(***************************************************************************)

\* A set of numbers that is not empty has a least one.
LEMMA LeastNumber ==
  ASSUME NEW T \in SUBSET Nat, T # {}
  PROVE  \E m \in T : \A n \in T : m <= n
<1>1. IsWellFoundedOn(OpToRel(<, Nat), Nat)
  BY NatLessThanWellFounded
<1>2. PICK m \in T : \A n \in T : ~ (<<n, m>> \in OpToRel(<, Nat))
  BY <1>1, WFMin
<1>3. \A m_1, n \in Nat : n < m_1 => <<n, m_1>> \in OpToRel(<, Nat)
  BY DEF OpToRel
<1>4. \A n \in T : ~ (n < m)
  BY <1>2, <1>3, Zenon
<1>5. QED
  BY <1>4

\* A set that has 0 and with a number the next one has all: induction, over a set so
\* that no operator needs to be a parameter.
LEMMA SetInduction ==
  ASSUME NEW S, 0 \in S, \A n \in Nat : n \in S => n + 1 \in S
  PROVE  \A n \in Nat : n \in S
<1>1. SUFFICES ASSUME Nat \ S # {} PROVE FALSE
  OBVIOUS
<1>2. PICK m \in Nat \ S : \A n \in Nat \ S : m <= n
  BY <1>1, LeastNumber
<1>3. m # 0 /\ m - 1 \in Nat /\ m - 1 \in S
  BY <1>2
<1>4. QED
  BY <1>2, <1>3

-----------------------------------------------------------------------------
\* A function on 1 .. n is a sequence.
LEMMA FunctionIsSeq ==
  ASSUME NEW T, NEW n \in Nat, NEW f \in [1 .. n -> T]
  PROVE  f \in Seq(T) /\ Len(f) = n /\ DOMAIN f = 1 .. n
<1>1. f \in Seq(T)
  BY SeqDef
<1>2. QED
  BY <1>1, LenProperties

Regrouped(x, y, z) == (x \o y) \o z = x \o (y \o z)

\* Concatenation is associative.
LEMMA Regroup ==
  ASSUME NEW T, NEW x \in Seq(T), NEW y \in Seq(T), NEW z \in Seq(T)
  PROVE  Regrouped(x, y, z)
BY ConcatAssociative, SMTT(30) DEF Regrouped

\* What the fold behind FlattenSeq computes, as a function of how many were joined.
Joining(T, s, f) ==
  /\ f \in [1 .. Len(s) -> Seq(T)]
  /\ FlattenSeq(s) = f[Len(s)]
  /\ \A i \in 1 .. Len(s) : f[i] = IF i = 1 THEN s[i] ELSE f[i - 1] \o s[i]

\* The fold has such a function.
LEMMA FlattenDef ==
  ASSUME NEW T, NEW s \in Seq(Seq(T)), s # <<>>
  PROVE  \E f : Joining(T, s, f)
<1> DEFINE Works(f, n) == \A i \in 1 .. n : f[i] = IF i = 1 THEN s[i] ELSE f[i - 1] \o s[i]
           Has(n) == \E f \in [1 .. n -> Seq(T)] : Works(f, n)
           Q == {n \in Nat : n <= Len(s) => Has(n)}
<1>0. Len(s) \in Nat /\ Len(s) # 0 /\ \A i \in 1 .. Len(s) : s[i] \in Seq(T)
  BY EmptySeq, ElementOfSeq
<1>1. Has(0)
  <2>1. [i \in 1 .. 0 |-> s] \in [1 .. 0 -> Seq(T)]
    OBVIOUS
  <2>2. Works([i \in 1 .. 0 |-> s], 0)
    OBVIOUS
  <2>3. QED
    BY <2>1, <2>2
<1>2. ASSUME NEW n \in Nat, Has(n), n + 1 <= Len(s)
      PROVE  Has(n + 1)
  <2>1. PICK f \in [1 .. n -> Seq(T)] : Works(f, n)
    BY <1>2
  <2> DEFINE last == IF n = 0 THEN s[1] ELSE f[n] \o s[n + 1]
             g == [i \in 1 .. n + 1 |-> IF i = n + 1 THEN last ELSE f[i]]
  <2>2. last \in Seq(T)
    <3>1. CASE n = 0
      BY <1>0, <3>1
    <3>2. CASE n # 0
      <4>1. f[n] \in Seq(T) /\ s[n + 1] \in Seq(T)
        BY <1>0, <1>2, <3>2
      <4>2. QED
        BY <3>2, <4>1, ConcatProperties
    <3>3. QED
      BY <3>1, <3>2
  <2> HIDE DEF last
  <2>3. /\ g \in [1 .. n + 1 -> Seq(T)]
        /\ g[n + 1] = last
        /\ \A j \in 1 .. n : g[j] = f[j]
    BY <2>2
  <2> HIDE DEF g
  <2>4. ASSUME NEW i \in 1 .. n + 1
        PROVE  g[i] = IF i = 1 THEN s[i] ELSE g[i - 1] \o s[i]
    <3>1. CASE i = n + 1
      <4>1. g[i] = last /\ (n # 0 => g[n] = f[n])
        BY <2>3, <3>1
      <4>2. i - 1 = n /\ (i = 1 <=> n = 0)
        BY <3>1
      <4>3. CASE n = 0
        BY <4>1, <4>2, <4>3 DEF last
      <4>4. CASE n # 0
        <5>1. g[i] = f[n] \o s[n + 1] /\ g[n] = f[n]
          BY <4>1, <4>4 DEF last
        <5>2. g[i] = g[i - 1] \o s[i]
          BY <3>1, <4>2, <5>1
        <5>3. QED
          BY <4>2, <4>4, <5>2
      <4>5. QED
        BY <4>3, <4>4
    <3>2. CASE i # n + 1
      <4>1. i \in 1 .. n /\ (i # 1 => i - 1 \in 1 .. n) /\ i - 1 # n + 1
        BY <3>2
      <4>2. QED
        BY <2>1, <2>3, <4>1
    <3>3. QED
      BY <3>1, <3>2
  <2>5. QED
    BY <2>3, <2>4
<1>3. Has(Len(s))
  <2> HIDE DEF Has
  <2>1. 0 \in Q
    BY <1>1
  <2>2. \A n \in Nat : n \in Q => n + 1 \in Q
    BY <1>2
  <2> HIDE DEF Q
  <2>3. \A n \in Nat : n \in Q
    BY <2>1, <2>2, SetInduction
  <2>4. QED
    BY <1>0, <2>3 DEF Q
<1>4. PICK f \in [1 .. Len(s) -> Seq(T)] : Works(f, Len(s))
  BY <1>3
<1>5. f = [i \in 1 .. Len(s) |-> IF i = 1 THEN s[i] ELSE f[i - 1] \o s[i]]
  BY <1>4
<1> DEFINE h == CHOOSE h : h = [i \in 1 .. Len(s) |-> IF i = 1 THEN s[i] ELSE h[i - 1] \o s[i]]
<1>6. h = [i \in 1 .. Len(s) |-> IF i = 1 THEN s[i] ELSE h[i - 1] \o s[i]]
  <2> DEFINE Solves(x) == x = [i \in 1 .. Len(s) |-> IF i = 1 THEN s[i] ELSE x[i - 1] \o s[i]]
  <2>1. \E x : Solves(x)
    BY <1>5
  <2>2. Solves(CHOOSE x : Solves(x))
    BY <2>1, Zenon
  <2>3. QED
    BY <2>2, Zenon
<1>7. FlattenSeq(s) = h[Len(s)]
  BY <1>0 DEF FlattenSeq
<1>8. \A i \in 1 .. Len(s) : h[i] = f[i]
  <2> DEFINE Differ == {i \in 1 .. Len(s) : h[i] # f[i]}
  <2> HIDE DEF h
  <2>1. SUFFICES ASSUME Differ # {} PROVE FALSE
    OBVIOUS
  <2>2. PICK m \in Differ : \A n \in Differ : m <= n
    <3>1. Differ \in SUBSET Nat
      BY <1>0
    <3>2. QED
      BY <2>1, <3>1, LeastNumber
  <2>3. m # 1 => m - 1 \in 1 .. Len(s) /\ h[m - 1] = f[m - 1]
    BY <1>0, <2>2
  <2>4. h[m] = IF m = 1 THEN s[m] ELSE h[m - 1] \o s[m]
    BY <1>6, <2>2
  <2>5. QED
    BY <1>4, <2>2, <2>3, <2>4
<1> HIDE DEF h
<1>9. FlattenSeq(s) = f[Len(s)]
  BY <1>0, <1>7, <1>8
<1>10. Joining(T, s, f)
  BY <1>4, <1>9 DEF Joining
<1>11. QED
  BY <1>10

\* No sequences are joined to none.
LEMMA FlattenEmpty == FlattenSeq(<<>>) = <<>>
BY DEF FlattenSeq

\* FlattenSeq of sequences over T is one.
LEMMA FlattenType ==
  ASSUME NEW T, NEW s \in Seq(Seq(T))
  PROVE  FlattenSeq(s) \in Seq(T)
<1>1. CASE s = <<>>
  BY <1>1, FlattenEmpty, EmptySeq
<1>2. CASE s # <<>>
  <2>1. PICK f : Joining(T, s, f)
    BY <1>2, FlattenDef, Zenon
  <2>2. f \in [1 .. Len(s) -> Seq(T)] /\ FlattenSeq(s) = f[Len(s)]
    BY <2>1 DEF Joining
  <2>3. Len(s) \in Nat /\ Len(s) # 0
    BY <1>2, EmptySeq
  <2>4. Len(s) \in 1 .. Len(s)
    BY <2>3
  <2>5. QED
    BY <2>2, <2>4
<1>3. QED
  BY <1>1, <1>2

\* One more sequence is joined at the end.
LEMMA FlattenAppend ==
  ASSUME NEW T, NEW s \in Seq(Seq(T)), NEW e \in Seq(T)
  PROVE  FlattenSeq(Append(s, e)) = FlattenSeq(s) \o e
<1> DEFINE t == Append(s, e)
<1>1. /\ t \in Seq(Seq(T)) /\ t # <<>> /\ Len(t) = Len(s) + 1
      /\ \A i \in 1 .. Len(s) : t[i] = s[i]
      /\ t[Len(s) + 1] = e
  BY AppendProperties
<1> HIDE DEF t
<1>2. Len(s) \in Nat
  BY LenProperties
<1>a. PICK g : Joining(T, t, g)
  BY <1>1, FlattenDef, Zenon
<1>3. /\ FlattenSeq(t) = g[Len(t)]
      /\ \A i \in 1 .. Len(t) : g[i] = IF i = 1 THEN t[i] ELSE g[i - 1] \o t[i]
  BY <1>a DEF Joining
<1>4. FlattenSeq(t) = IF Len(s) = 0 THEN e ELSE g[Len(s)] \o e
  <2>1. /\ Len(t) \in 1 .. Len(t) /\ Len(t) - 1 = Len(s) /\ t[Len(t)] = e
        /\ (Len(t) = 1 <=> Len(s) = 0)
    BY <1>1, <1>2
  <2>2. FlattenSeq(t) = IF Len(t) = 1 THEN t[Len(t)] ELSE g[Len(t) - 1] \o t[Len(t)]
    BY <1>3, <2>1, Zenon
  <2>3. QED
    BY <2>1, <2>2, Zenon
<1>5. CASE s = <<>>
  <2>1. Len(s) = 0
    BY <1>5, EmptySeq
  <2>2. FlattenSeq(s) \o e = e
    BY <1>5, FlattenEmpty, ConcatEmptySeq
  <2>3. QED
    BY <1>4, <2>1, <2>2 DEF t
<1>6. CASE s # <<>>
  <2>1. Len(s) # 0
    BY <1>6, EmptySeq
  <2>a. PICK f : Joining(T, s, f)
    BY <1>6, FlattenDef, Zenon
  <2>2. /\ FlattenSeq(s) = f[Len(s)]
        /\ \A i \in 1 .. Len(s) : f[i] = IF i = 1 THEN s[i] ELSE f[i - 1] \o s[i]
    BY <2>a DEF Joining
  <2> DEFINE Differ == {i \in 1 .. Len(s) : f[i] # g[i]}
  <2>3. ASSUME Differ # {} PROVE FALSE
    <3>1. PICK m \in Differ : \A n \in Differ : m <= n
      <4>1. Differ \in SUBSET Nat
        BY <1>2
      <4>2. QED
        BY <2>3, <4>1, LeastNumber
    <3>2. m # 1 => m - 1 \in 1 .. Len(s) /\ f[m - 1] = g[m - 1]
      <4>1. m \in 1 .. Len(s) /\ (m # 1 => m - 1 \in 1 .. Len(s) /\ ~ (m <= m - 1))
        BY <1>2, <3>1
      <4>2. QED
        BY <3>1, <4>1, Zenon
    <3>3. m \in 1 .. Len(s) /\ m \in 1 .. Len(t) /\ t[m] = s[m]
      BY <1>1, <1>2, <3>1
    <3>4. f[m] = IF m = 1 THEN s[m] ELSE f[m - 1] \o s[m]
      BY <2>2, <3>3
    <3>5. g[m] = IF m = 1 THEN s[m] ELSE g[m - 1] \o s[m]
      BY <1>3, <3>3
    <3>6. f[m] # g[m]
      BY <3>1
    <3>7. QED
      BY <3>2, <3>4, <3>5, <3>6, Zenon
  <2>4. f[Len(s)] = g[Len(s)]
    <3>1. Len(s) \in 1 .. Len(s)
      BY <1>2, <2>1
    <3>2. QED
      BY <2>3, <3>1
  <2>5. QED
    BY <1>4, <2>1, <2>2, <2>4 DEF t
<1>7. QED
  BY <1>5, <1>6

\* Appending element by element is all that a sequence is made by.
LEMMA FlattenConcat ==
  ASSUME NEW T, NEW s \in Seq(Seq(T)), NEW t \in Seq(Seq(T))
  PROVE  FlattenSeq(s \o t) = FlattenSeq(s) \o FlattenSeq(t)
<1> DEFINE Holds(u) == FlattenSeq(s \o u) = FlattenSeq(s) \o FlattenSeq(u)
           All(n) == \A u \in Seq(Seq(T)) : Len(u) = n => Holds(u)
           Q == {n \in Nat : All(n)}
<1>1. ASSUME NEW u \in Seq(Seq(T)), Len(u) = 0
      PROVE  Holds(u)
  <2>1. u = <<>>
    BY <1>1, EmptySeq
  <2>2. s \o u = s /\ FlattenSeq(u) = <<>>
    BY <2>1, FlattenEmpty, ConcatEmptySeq
  <2>3. FlattenSeq(s) \o <<>> = FlattenSeq(s)
    BY FlattenType, ConcatEmptySeq
  <2>4. QED
    BY <2>2, <2>3
<1>2. ASSUME NEW n \in Nat, All(n), NEW u \in Seq(Seq(T)), Len(u) = n + 1
      PROVE  Holds(u)
  <2>1. u # <<>>
    BY <1>2, EmptySeq
  <2>2. PICK v \in Seq(Seq(T)), e \in Seq(T) : u = Append(v, e)
    BY <2>1, SequenceEmptyOrAppend
  <2>3. Len(v) = n /\ Len(v) \in Nat
    BY <1>2, <2>2, AppendProperties, LenProperties
  <2>4. Holds(v)
    BY <1>2, <2>3
  <2>5. s \o u = Append(s \o v, e) /\ s \o v \in Seq(Seq(T))
    <3>1. u = v \o <<e>> /\ <<e>> \in Seq(Seq(T))
      BY <2>2, AppendIsConcat
    <3>2. s \o v \in Seq(Seq(T))
      BY ConcatProperties
    <3>3. s \o (v \o <<e>>) = (s \o v) \o <<e>>
      <4>1. Regrouped(s, v, <<e>>)
        BY <3>1, Regroup, Zenon
      <4>2. QED
        BY <4>1, Zenon DEF Regrouped
    <3>4. Append(s \o v, e) = (s \o v) \o <<e>>
      BY <3>2, AppendIsConcat
    <3>5. QED
      BY <3>1, <3>2, <3>3, <3>4, Zenon
  <2>6. FlattenSeq(s \o u) = FlattenSeq(s \o v) \o e
    BY <2>5, FlattenAppend
  <2>7. FlattenSeq(u) = FlattenSeq(v) \o e
    BY <2>2, FlattenAppend
  <2>8. (FlattenSeq(s) \o FlattenSeq(v)) \o e = FlattenSeq(s) \o (FlattenSeq(v) \o e)
    <3>1. FlattenSeq(s) \in Seq(T) /\ FlattenSeq(v) \in Seq(T)
      BY FlattenType
    <3>2. Regrouped(FlattenSeq(s), FlattenSeq(v), e)
      BY <3>1, Regroup, Zenon
    <3>3. QED
      BY <3>2, Zenon DEF Regrouped
  <2>9. QED
    BY <2>4, <2>6, <2>7, <2>8, Zenon
<1> HIDE DEF Holds
<1>3. 0 \in Q
  BY <1>1
<1>4. \A n \in Nat : n \in Q => n + 1 \in Q
  <2>1. \A n \in Nat : All(n) => All(n + 1)
    BY <1>2
  <2> HIDE DEF All
  <2>2. QED
    BY <2>1
<1>5. Len(t) \in Q
  <2> HIDE DEF Q
  <2>1. \A n \in Nat : n \in Q
    BY <1>3, <1>4, SetInduction
  <2>2. Len(t) \in Nat
    BY LenProperties
  <2>3. QED
    BY <2>1, <2>2
<1>6. Holds(t)
  BY <1>5
<1>7. QED
  BY <1>6 DEF Holds
-----------------------------------------------------------------------------
(***************************************************************************)
(* The checksum.  A register of 16 bits tells apart what differs in one byte: *)
(* each step of it, by the register or by the byte, can be undone.         *)
(***************************************************************************)

\* Between which multiples of b a number lies.
LEMMA Quotient ==
  ASSUME NEW n \in Nat, NEW b \in Nat \ {0}
  PROVE  n \div b \in Nat /\ b * (n \div b) <= n /\ n < b * (n \div b) + b
<1>1. n % b \in 0 .. b - 1 /\ n = b * (n \div b) + (n % b) /\ n \div b \in Nat
  OBVIOUS
<1>2. QED
  BY <1>1

\* The quotient is the only number that puts it there.
LEMMA QuotientIs ==
  ASSUME NEW n \in Nat, NEW b \in Nat \ {0}, NEW q \in Nat, b * q <= n, n < b * q + b
  PROVE  n \div b = q
<1>1. n \div b \in Nat /\ b * (n \div b) <= n /\ n < b * (n \div b) + b
  BY Quotient
<1>2. \A x, y \in Nat : x >= y + 1 => b * x >= b * y + b
  OBVIOUS
<1>3. QED
  BY <1>1, <1>2

\* Adding the divisor adds one to the quotient.
LEMMA QuotientUp ==
  ASSUME NEW n \in Nat, NEW b \in Nat \ {0}
  PROVE  (n + b) \div b = n \div b + 1
<1> DEFINE q == n \div b
           p == q + 1
<1>1. q \in Nat /\ b * q <= n /\ n < b * q + b
  BY Quotient
<1> HIDE DEF q
<1>2. p \in Nat /\ b * p = b * q + b
  BY <1>1
<1> HIDE DEF p
<1>3. n + b \in Nat /\ b * p <= n + b /\ n + b < b * p + b
  BY <1>1, <1>2
<1>4. (n + b) \div b = p
  BY <1>2, <1>3, QuotientIs
<1>5. QED
  BY <1>4 DEF p, q

\* Taking it away takes one.
LEMMA QuotientDown ==
  ASSUME NEW n \in Nat, NEW b \in Nat \ {0}, n >= b
  PROVE  (n - b) \div b = n \div b - 1
<1>1. n - b \in Nat /\ (n - b) + b = n
  OBVIOUS
<1>2. ((n - b) + b) \div b = ((n - b) \div b) + 1
  BY <1>1, QuotientUp
<1>3. (n - b) \div b \in Nat
  BY <1>1, Quotient
<1>4. QED
  BY <1>1, <1>2, <1>3

\* A number with a bit set is at least that bit.
LEMMA OddQuotient ==
  ASSUME NEW n \in Nat, NEW b \in Nat \ {0}, (n \div b) % 2 = 1
  PROVE  n >= b
<1>1. n < b => n \div b = 0
  BY QuotientIs
<1>2. QED
  BY <1>1

\* Flipping a bit twice changes nothing.
LEMMA FlipTwice ==
  ASSUME NEW n \in Nat, NEW b \in Nat \ {0}
  PROVE  Flip(n, b) \in Nat /\ Flip(Flip(n, b), b) = n
<1> DEFINE q == n \div b
<1>1. q \in Nat /\ (n + b) \div b = q + 1
  BY Quotient, QuotientUp
<1>2. q % 2 = 1 => n >= b /\ (n - b) \div b = q - 1
  BY OddQuotient, QuotientDown
<1>3. Flip(n, b) = IF q % 2 = 1 THEN n - b ELSE n + b
  BY DEF Flip
<1> HIDE DEF q
<1>4. CASE q % 2 = 1
  <2>1. (q - 1) % 2 # 1
    BY <1>1, <1>4
  <2>2. n - b \in Nat /\ Flip(n, b) = n - b
    BY <1>2, <1>3, <1>4
  <2>3. ((n - b) \div b) % 2 # 1
    BY <1>2, <1>4, <2>1
  <2>4. Flip(n - b, b) = (n - b) + b
    BY <2>3 DEF Flip
  <2>5. QED
    BY <2>2, <2>4
<1>5. CASE q % 2 # 1
  <2>1. (q + 1) % 2 = 1
    BY <1>1, <1>5
  <2>2. n + b \in Nat /\ Flip(n, b) = n + b
    BY <1>3, <1>5
  <2>3. ((n + b) \div b) % 2 = 1
    BY <1>1, <2>1
  <2>4. Flip(n + b, b) = (n + b) - b
    BY <2>3 DEF Flip
  <2>5. QED
    BY <2>2, <2>4
<1>6. QED
  BY <1>4, <1>5

\* A register is 16 bits wide.
Wide == {n \in Nat : n < 65536}

Divides(b) == \E top \in Nat : top % 2 = 0 /\ b * top = 65536

\* Flipping a bit of 16 leaves 16.
LEMMA FlipType ==
  ASSUME NEW n \in Wide, NEW b \in Nat \ {0}, Divides(b)
  PROVE  Flip(n, b) \in Wide
<1> DEFINE q == n \div b
<1>1. n \in Nat /\ n < 65536
  BY DEF Wide
<1>2. q \in Nat /\ b * q <= n /\ n < b * q + b
  BY <1>1, Quotient
<1>3. q % 2 = 1 => n >= b
  BY <1>1, OddQuotient
<1>4. Flip(n, b) = IF q % 2 = 1 THEN n - b ELSE n + b
  BY DEF Flip
<1> HIDE DEF q
<1>5. CASE q % 2 = 1
  BY <1>1, <1>3, <1>4, <1>5 DEF Wide
<1>6. CASE q % 2 # 1
  <2>1. \A x, y \in Nat : x >= y => b * x >= b * y
    OBVIOUS
  <2>2. PICK top \in Nat : top % 2 = 0 /\ b * top = 65536
    BY DEF Divides
  <2>3. b * q < b * top
    BY <1>1, <1>2, <2>2
  <2>4. q < top
    BY <1>2, <2>1, <2>2, <2>3
  <2>5. q + 2 <= top
    BY <1>2, <1>6, <2>2, <2>4
  <2>6. b * (q + 2) <= b * top
    BY <1>2, <2>1, <2>2, <2>5
  <2>7. b * (q + 2) = b * q + b + b
    BY <1>2
  <2>8. n + b < 65536
    BY <1>1, <1>2, <2>2, <2>6, <2>7
  <2>9. QED
    BY <1>1, <1>4, <1>6, <2>8 DEF Wide
<1>7. QED
  BY <1>5, <1>6

\* Only the lowest bit says whether a number is odd.
LEMMA FlipParity ==
  ASSUME NEW n \in Nat, NEW b \in Nat \ {0}
  PROVE  /\ b % 2 = 0 => Flip(n, b) % 2 = n % 2
         /\ b % 2 = 1 => Flip(n, b) % 2 # n % 2
BY DEF Flip

\* The bits of the polynomial.
LEMMA FlipFacts ==
  ASSUME NEW b \in {32768, 8192, 128, 16, 4, 2, 1}, NEW n \in Wide
  PROVE  /\ Flip(n, b) \in Wide /\ Flip(Flip(n, b), b) = n
         /\ b # 1 => Flip(n, b) % 2 = n % 2
         /\ b = 1 => Flip(n, b) % 2 # n % 2
<1>1. Divides(b)
  <2>1. /\ 65536 = 32768 * 2 /\ 65536 = 8192 * 8 /\ 65536 = 128 * 512 /\ 65536 = 16 * 4096
        /\ 65536 = 4 * 16384 /\ 65536 = 2 * 32768 /\ 65536 = 1 * 65536
        /\ \A top \in {2, 8, 512, 4096, 16384, 32768, 65536} : top \in Nat /\ top % 2 = 0
    OBVIOUS
  <2>2. Divides(32768) /\ Divides(8192) /\ Divides(128) /\ Divides(16)
    BY <2>1 DEF Divides
  <2>3. Divides(4) /\ Divides(2) /\ Divides(1)
    BY <2>1 DEF Divides
  <2>4. QED
    BY <2>2, <2>3
<1>2. b \in Nat \ {0} /\ (b # 1 => b % 2 = 0) /\ (b = 1 => b % 2 = 1)
  OBVIOUS
<1>3. n \in Nat
  BY DEF Wide
<1>4. Flip(n, b) \in Wide
  BY <1>1, <1>2, FlipType
<1>5. Flip(Flip(n, b), b) = n
  BY <1>2, <1>3, FlipTwice
<1>6. /\ b % 2 = 0 => Flip(n, b) % 2 = n % 2
      /\ b % 2 = 1 => Flip(n, b) % 2 # n % 2
  BY <1>2, <1>3, FlipParity
<1>7. QED
  BY <1>2, <1>4, <1>5, <1>6

\* The polynomial turns even into odd: it has the lowest bit.
LEMMA PolyFacts ==
  ASSUME NEW n \in Wide
  PROVE  Poly(n) \in Wide /\ Poly(n) % 2 # n % 2
<1>1. \A b \in {32768, 8192, 128, 16, 4, 2} : \A k \in Wide :
        Flip(k, b) \in Wide /\ Flip(k, b) % 2 = k % 2
  BY FlipFacts
<1>2. \A k \in Wide : Flip(k, 1) \in Wide /\ Flip(k, 1) % 2 # k % 2
  BY FlipFacts
<1>3. QED
  BY <1>1, <1>2 DEF Poly

\* Adding the polynomial can be undone.
LEMMA PolyInjective ==
  ASSUME NEW m \in Wide, NEW n \in Wide, Poly(m) = Poly(n)
  PROVE  m = n
<1>1. \A b \in {32768, 8192, 128, 16, 4, 2, 1} : \A k \in Wide :
        Flip(k, b) \in Wide /\ Flip(Flip(k, b), b) = k
  BY FlipFacts
<1>2. QED
  BY <1>1 DEF Poly

\* Byte without an interval.
LEMMA ByteIs == \A n : n \in Byte <=> n \in Nat /\ n < 256
BY DEF Byte

\* A byte added to the low half of a register.
Mixed(shifted, byte) == 256 * (shifted \div 256) + ((shifted + byte) % 256)

\* Of the register, the byte and the result any two determine the third.
LEMMA MixedFacts ==
  ASSUME NEW s \in Wide, NEW b \in Byte
  PROVE  /\ Mixed(s, b) \in Wide /\ Mixed(s, b) % 2 = (s + b) % 2
         /\ \A t \in Wide : Mixed(t, b) = Mixed(s, b) => t = s
         /\ \A c \in Byte : Mixed(s, c) = Mixed(s, b) => c = b
<1>1. s \in Nat /\ s < 65536 /\ b \in Nat /\ b < 256
  BY ByteIs DEF Wide
<1>2. Mixed(s, b) \in Wide
  BY <1>1 DEF Mixed, Wide
<1>3. Mixed(s, b) % 2 = (s + b) % 2
  BY <1>1 DEF Mixed
<1>4. ASSUME NEW t \in Wide, Mixed(t, b) = Mixed(s, b)
      PROVE  t = s
  <2>1. t \in Nat /\ t < 65536
    BY DEF Wide
  <2>2. t \div 256 = s \div 256 /\ (t + b) % 256 = (s + b) % 256
    BY <1>1, <1>4, <2>1 DEF Mixed
  <2>3. QED
    BY <1>1, <2>1, <2>2
<1>5. ASSUME NEW c \in Byte, Mixed(s, c) = Mixed(s, b)
      PROVE  c = b
  <2>1. c \in Nat /\ c < 256
    BY ByteIs
  <2>2. (s + c) % 256 = (s + b) % 256
    BY <1>1, <1>5, <2>1 DEF Mixed
  <2>3. QED
    BY <1>1, <2>1, <2>2
<1>6. QED
  BY <1>2, <1>3, <1>4, <1>5

\* A register shifted left.
LEMMA LeftFacts ==
  ASSUME NEW state \in Wide
  PROVE  /\ (2 * state) % 65536 \in Wide
         /\ (2 * state) % 65536 = IF state >= 32768 THEN 2 * state - 65536 ELSE 2 * state
BY DEF Wide

\* One byte enters the register, in the terms above.
LEMMA ShiftIs ==
  ASSUME NEW state \in Wide, NEW byte \in Byte
  PROVE  /\ Shift(state, byte) = IF state >= 32768 THEN Poly(Mixed(2 * state - 65536, byte))
                                 ELSE Mixed(2 * state, byte)
         /\ state >= 32768 => 2 * state - 65536 \in Wide
         /\ ~ (state >= 32768) => 2 * state \in Wide
<1>1. (2 * state) % 65536 = IF state >= 32768 THEN 2 * state - 65536 ELSE 2 * state
  BY LeftFacts
<1>2. (2 * state) % 65536 \in Wide
  BY LeftFacts
<1>3. QED
  BY <1>1, <1>2 DEF Shift, Mixed

\* The register keeps its 16 bits.
LEMMA ShiftType ==
  ASSUME NEW state \in Wide, NEW byte \in Byte
  PROVE  Shift(state, byte) \in Wide
<1>1. CASE state >= 32768
  <2> DEFINE s == 2 * state - 65536
  <2>1. s \in Wide /\ Shift(state, byte) = Poly(Mixed(s, byte))
    BY <1>1, ShiftIs
  <2> HIDE DEF s
  <2>2. QED
    BY <2>1, MixedFacts, PolyFacts
<1>2. CASE ~ (state >= 32768)
  <2> DEFINE s == 2 * state
  <2>1. s \in Wide /\ Shift(state, byte) = Mixed(s, byte)
    BY <1>2, ShiftIs
  <2> HIDE DEF s
  <2>2. QED
    BY <2>1, MixedFacts
<1>3. QED
  BY <1>1, <1>2

\* Different bytes leave different registers.
LEMMA ShiftTellsBytes ==
  ASSUME NEW state \in Wide, NEW b \in Byte, NEW c \in Byte,
         Shift(state, b) = Shift(state, c)
  PROVE  b = c
<1>1. CASE state >= 32768
  <2> DEFINE s == 2 * state - 65536
  <2>1. s \in Wide /\ Poly(Mixed(s, b)) = Poly(Mixed(s, c))
    BY <1>1, ShiftIs
  <2> HIDE DEF s
  <2>2. Mixed(s, b) = Mixed(s, c)
    BY <2>1, MixedFacts, PolyInjective
  <2>3. QED
    BY <2>1, <2>2, MixedFacts
<1>2. CASE ~ (state >= 32768)
  <2> DEFINE s == 2 * state
  <2>1. s \in Wide /\ Mixed(s, b) = Mixed(s, c)
    BY <1>2, ShiftIs
  <2> HIDE DEF s
  <2>2. QED
    BY <2>1, MixedFacts
<1>3. QED
  BY <1>1, <1>2

\* A byte keeps different registers apart: of two that agree in all bits but the one
\* shifted out, one has its lowest bit flipped and the other has not.
LEMMA ShiftKeepsApart ==
  ASSUME NEW s \in Wide, NEW t \in Wide, NEW byte \in Byte,
         Shift(s, byte) = Shift(t, byte)
  PROVE  s = t
<1>1. ASSUME NEW u \in Wide, NEW v \in Wide, u >= 32768, ~ (v >= 32768)
      PROVE  Shift(u, byte) # Shift(v, byte)
  <2> DEFINE uu == 2 * u - 65536
             vv == 2 * v
  <2>1. /\ uu \in Wide /\ Shift(u, byte) = Poly(Mixed(uu, byte))
        /\ vv \in Wide /\ Shift(v, byte) = Mixed(vv, byte)
    BY <1>1, ShiftIs
  <2>2. byte \in Nat
    BY ByteIs
  <2>3. (uu + byte) % 2 = (vv + byte) % 2
    BY <2>2 DEF Wide
  <2> HIDE DEF uu, vv
  <2>4. Mixed(uu, byte) % 2 = Mixed(vv, byte) % 2
    BY <2>1, <2>3, MixedFacts
  <2>5. Poly(Mixed(uu, byte)) % 2 # Mixed(uu, byte) % 2
    BY <2>1, MixedFacts, PolyFacts
  <2>6. QED
    BY <2>1, <2>4, <2>5
<1>2. CASE s >= 32768 /\ t >= 32768
  <2> DEFINE ss == 2 * s - 65536
             tt == 2 * t - 65536
  <2>1. ss \in Wide /\ tt \in Wide /\ Poly(Mixed(ss, byte)) = Poly(Mixed(tt, byte))
    BY <1>2, ShiftIs
  <2>2. ss = tt => s = t
    BY DEF Wide
  <2> HIDE DEF ss, tt
  <2>3. Mixed(ss, byte) = Mixed(tt, byte)
    BY <2>1, MixedFacts, PolyInjective
  <2>4. QED
    BY <2>1, <2>2, <2>3, MixedFacts
<1>3. CASE ~ (s >= 32768) /\ ~ (t >= 32768)
  <2> DEFINE ss == 2 * s
             tt == 2 * t
  <2>1. ss \in Wide /\ tt \in Wide /\ Mixed(ss, byte) = Mixed(tt, byte)
    BY <1>3, ShiftIs
  <2>2. ss = tt => s = t
    BY DEF Wide
  <2> HIDE DEF ss, tt
  <2>3. QED
    BY <2>1, <2>2, MixedFacts
<1>4. QED
  BY <1>1, <1>2, <1>3

-----------------------------------------------------------------------------
\* f is the register after so many bytes.
Shifting(bytes, f) ==
  /\ f \in [0 .. Len(bytes) -> Wide]
  /\ Register(bytes) = f[Len(bytes)]
  /\ f[0] = 65535
  /\ \A i \in 1 .. Len(bytes) : f[i] = Shift(f[i - 1], bytes[i])

\* The recursion of Register has a solution, and Register is its last value.
LEMMA RegisterDef ==
  ASSUME NEW bytes \in Seq(Byte)
  PROVE  \E f : Shifting(bytes, f)
<1> DEFINE Works(f, n) == f[0] = 65535 /\ \A i \in 1 .. n : f[i] = Shift(f[i - 1], bytes[i])
           Has(n) == \E f \in [0 .. n -> Wide] : Works(f, n)
           Q == {n \in Nat : n <= Len(bytes) => Has(n)}
<1>0. Len(bytes) \in Nat /\ \A i \in 1 .. Len(bytes) : bytes[i] \in Byte
  BY ElementOfSeq, LenProperties
<1>1. Has(0)
  <2> DEFINE start == 65535
             first == [i \in {0} |-> start]
  <2>1. start \in Wide
    BY SMT DEF Wide
  <2> HIDE DEF start
  <2>2. first \in [{0} -> Wide] /\ first[0] = start /\ 0 .. 0 = {0}
    BY <2>1
  <2> HIDE DEF first
  <2>3. first \in [0 .. 0 -> Wide]
    BY <2>2
  <2>4. Works(first, 0)
    BY <2>2, SMT DEF start
  <2>5. QED
    BY <2>3, <2>4, SMT
<1>2. ASSUME NEW n \in Nat, Has(n), n + 1 <= Len(bytes)
      PROVE  Has(n + 1)
  <2> HIDE DEF Works
  <2>1. PICK f \in [0 .. n -> Wide] : Works(f, n)
    BY <1>2
  <2> USE DEF Works
  <2> DEFINE last == Shift(f[n], bytes[n + 1])
             g == [i \in 0 .. n + 1 |-> IF i = n + 1 THEN last ELSE f[i]]
  <2>2. last \in Wide
    <3>1. f[n] \in Wide /\ bytes[n + 1] \in Byte
      BY <1>0, <1>2
    <3>2. QED
      BY <3>1, ShiftType
  <2> HIDE DEF last
  <2>3. /\ g \in [0 .. n + 1 -> Wide]
        /\ g[n + 1] = last
        /\ \A j \in 0 .. n : g[j] = f[j]
    BY <2>2
  <2> HIDE DEF g
  <2>4. g[0] = 65535
    BY <2>1, <2>3
  <2>5. ASSUME NEW i \in 1 .. n + 1
        PROVE  g[i] = Shift(g[i - 1], bytes[i])
    <3>1. CASE i = n + 1
      <4>1. g[i] = last /\ i - 1 = n /\ g[n] = f[n]
        BY <2>3, <3>1
      <4>2. QED
        BY <3>1, <4>1 DEF last
    <3>2. CASE i # n + 1
      <4>1. i \in 1 .. n /\ i \in 0 .. n /\ i - 1 \in 0 .. n
        BY <3>2
      <4>2. QED
        BY <2>1, <2>3, <4>1
    <3>3. QED
      BY <3>1, <3>2
  <2>6. QED
    BY <2>3, <2>4, <2>5
<1>3. Has(Len(bytes))
  <2> HIDE DEF Has
  <2>1. 0 \in Q
    BY <1>1
  <2>2. \A n \in Nat : n \in Q => n + 1 \in Q
    BY <1>2
  <2> HIDE DEF Q
  <2>3. \A n \in Nat : n \in Q
    BY <2>1, <2>2, SetInduction
  <2>4. QED
    BY <1>0, <2>3 DEF Q
<1>4. PICK f \in [0 .. Len(bytes) -> Wide] : Works(f, Len(bytes))
  BY <1>3
<1>5. f = [i \in 0 .. Len(bytes) |-> IF i = 0 THEN 65535 ELSE Shift(f[i - 1], bytes[i])]
  BY <1>4
<1> DEFINE Solves(x) == x = [i \in 0 .. Len(bytes) |->
                               IF i = 0 THEN 65535 ELSE Shift(x[i - 1], bytes[i])]
           h == CHOOSE x : Solves(x)
<1>6. Solves(h)
  <2>1. \E x : Solves(x)
    BY <1>5
  <2> HIDE DEF Solves
  <2>2. QED
    BY <2>1, Zenon
<1>7. Register(bytes) = h[Len(bytes)]
  BY DEF Register
<1> HIDE DEF h
<1>8. \A n \in 0 .. Len(bytes) : h[n] = f[n]
  <2> DEFINE Q2 == {n \in Nat : n <= Len(bytes) => h[n] = f[n]}
  <2>1. 0 \in Q2
    BY <1>0, <1>4, <1>6
  <2>2. \A n \in Nat : n \in Q2 => n + 1 \in Q2
    BY <1>0, <1>4, <1>6
  <2> HIDE DEF Q2
  <2>3. \A n \in Nat : n \in Q2
    BY <2>1, <2>2, SetInduction
  <2>4. QED
    BY <1>0, <2>3 DEF Q2
<1>9. Register(bytes) = f[Len(bytes)]
  BY <1>0, <1>7, <1>8
<1>10. Shifting(bytes, f)
  BY <1>4, <1>9 DEF Shifting
<1>11. QED
  BY <1>10

\* The checksum has 16 bits.
LEMMA RegisterType ==
  ASSUME NEW bytes \in Seq(Byte)
  PROVE  Register(bytes) \in Wide
<1>1. PICK f : Shifting(bytes, f)
  BY RegisterDef, Zenon
<1>2. f \in [0 .. Len(bytes) -> Wide] /\ Register(bytes) = f[Len(bytes)]
  BY <1>1 DEF Shifting
<1>3. Len(bytes) \in 0 .. Len(bytes)
  BY LenProperties
<1>4. QED
  BY <1>2, <1>3

(***************************************************************************)
(* One byte makes a difference to the checksum.                            *)
(***************************************************************************)
LEMMA RegisterTells ==
  ASSUME NEW x \in Seq(Byte), NEW y \in Seq(Byte), Len(x) = Len(y),
         NEW p \in 1 .. Len(x), x[p] # y[p], \A i \in 1 .. Len(x) : i # p => x[i] = y[i]
  PROVE  Register(x) # Register(y)
<1>a. PICK f : Shifting(x, f)
  BY RegisterDef, Zenon
<1>b. PICK g : Shifting(y, g)
  BY RegisterDef, Zenon
<1>1. /\ f \in [0 .. Len(x) -> Wide]
      /\ Register(x) = f[Len(x)]
      /\ f[0] = 65535
      /\ \A i \in 1 .. Len(x) : f[i] = Shift(f[i - 1], x[i])
  BY <1>a DEF Shifting
<1>2. /\ g \in [0 .. Len(x) -> Wide]
      /\ Register(y) = g[Len(x)]
      /\ g[0] = 65535
      /\ \A i \in 1 .. Len(x) : g[i] = Shift(g[i - 1], y[i])
  BY <1>b DEF Shifting
<1>3. Len(x) \in Nat /\ \A i \in 1 .. Len(x) : x[i] \in Byte /\ y[i] \in Byte
  BY ElementOfSeq, LenProperties
<1> DEFINE Good(n) == (f[n] = g[n]) <=> (n < p)
           Q == {n \in Nat : n <= Len(x) => Good(n)}
<1>4. 0 \in Q
  BY <1>1, <1>2
<1>5. ASSUME NEW n \in Nat, n \in Q, n + 1 <= Len(x)
      PROVE  Good(n + 1)
  <2>a. n <= Len(x) /\ n + 1 \in 1 .. Len(x) /\ n \in 0 .. Len(x)
    BY <1>3, <1>5
  <2>b. Good(n)
    <3> HIDE DEF Good
    <3>1. QED
      BY <1>5, <2>a
  <2>1. Good(n) /\ n + 1 \in 1 .. Len(x) /\ n \in 0 .. Len(x)
    BY <2>a, <2>b
  <2>2. f[n] \in Wide /\ g[n] \in Wide /\ x[n + 1] \in Byte /\ y[n + 1] \in Byte
    <3>1. f \in [0 .. Len(x) -> Wide] /\ g \in [0 .. Len(x) -> Wide]
      BY <1>1, <1>2
    <3>2. QED
      BY <1>3, <2>1, <3>1
  <2>3. f[n + 1] = Shift(f[n], x[n + 1]) /\ g[n + 1] = Shift(g[n], y[n + 1])
    BY <1>1, <1>2, <2>1
  <2>4. CASE n + 1 < p
    BY <2>1, <2>3, <2>4
  <2>5. CASE n + 1 = p
    <3>1. f[n] = g[n] /\ x[n + 1] # y[n + 1]
      BY <2>1, <2>5
    <3>2. f[n + 1] # g[n + 1]
      BY <2>2, <2>3, <3>1, ShiftTellsBytes
    <3>3. QED
      BY <2>5, <3>2
  <2>6. CASE n + 1 > p
    <3>1. f[n] # g[n] /\ x[n + 1] = y[n + 1]
      BY <2>1, <2>6
    <3>2. f[n + 1] # g[n + 1]
      BY <2>2, <2>3, <3>1, ShiftKeepsApart
    <3>3. QED
      BY <2>6, <3>2
  <2>7. QED
    BY <2>4, <2>5, <2>6
<1> HIDE DEF Good
<1>6. \A n \in Nat : n \in Q => n + 1 \in Q
  <2> SUFFICES ASSUME NEW n \in Nat, n \in Q
      PROVE  n + 1 \in Q
    OBVIOUS
  <2>1. n + 1 <= Len(x) => Good(n + 1)
    BY <1>5, Zenon
  <2>2. n + 1 \in Nat
    OBVIOUS
  <2>3. QED
    BY <2>1, <2>2
<1> HIDE DEF Q
<1>7. \A n \in Nat : n \in Q
  BY <1>4, <1>6, SetInduction
<1>8. Good(Len(x))
  BY <1>3, <1>7 DEF Q
<1>9. f[Len(x)] # g[Len(x)]
  BY <1>3, <1>8 DEF Good
<1>10. QED
  BY <1>1, <1>2, <1>9
-----------------------------------------------------------------------------
(***************************************************************************)
(* Frames: their struct, byte by byte.                                     *)
(***************************************************************************)

\* A concatenation, element by element.
LEMMA Joined ==
  ASSUME NEW T, NEW x \in Seq(T), NEW y \in Seq(T)
  PROVE  /\ x \o y \in Seq(T) /\ Len(x \o y) = Len(x) + Len(y)
         /\ \A i \in 1 .. Len(x) : (x \o y)[i] = x[i]
         /\ \A i \in 1 .. Len(y) : (x \o y)[Len(x) + i] = y[i]
<1>1. /\ x \o y \in Seq(T)
      /\ Len(x \o y) = Len(x) + Len(y)
      /\ \A i \in 1 .. Len(x) + Len(y) : (x \o y)[i] = IF i <= Len(x) THEN x[i] ELSE y[i - Len(x)]
  BY ConcatProperties
<1>2. Len(x) \in Nat /\ Len(y) \in Nat
  BY LenProperties
<1>3. ASSUME NEW i \in 1 .. Len(x)
      PROVE  (x \o y)[i] = x[i]
  BY <1>1, <1>2
<1>4. ASSUME NEW i \in 1 .. Len(y)
      PROVE  (x \o y)[Len(x) + i] = y[i]
  <2>1. /\ Len(x) + i \in 1 .. Len(x) + Len(y) /\ ~ (Len(x) + i <= Len(x))
        /\ (Len(x) + i) - Len(x) = i
    BY <1>2
  <2>2. QED
    BY <1>1, <2>1
<1>5. QED
  BY <1>1, <1>3, <1>4

\* z is y after x.
Joins(z, x, y) ==
  /\ Len(z) = Len(x) + Len(y)
  /\ \A i \in 1 .. Len(x) : z[i] = x[i]
  /\ \A i \in 1 .. Len(y) : z[Len(x) + i] = y[i]

\* The same, of bytes, without the quantifiers.
LEMMA JoinedBytes ==
  ASSUME NEW x \in Seq(Byte), NEW y \in Seq(Byte)
  PROVE  x \o y \in Seq(Byte) /\ Joins(x \o y, x, y)
BY Joined DEF Joins

\* A number is put into two bytes.
LEMMA Bytes2Type ==
  ASSUME NEW n \in Nat
  PROVE  Bytes2(n) \in Seq(Byte) /\ Len(Bytes2(n)) = 2
<1>1. n % 256 \in Byte /\ (n \div 256) % 256 \in Byte
  BY ByteIs
<1>2. Bytes2(n) = <<n % 256, (n \div 256) % 256>>
  BY DEF Bytes2
<1>3. QED
  BY <1>1, <1>2

\* Two bytes hold 16 bits.
LEMMA Bytes2Facts ==
  ASSUME NEW n \in Wide
  PROVE  Bytes2(n)[1] + 256 * Bytes2(n)[2] = n
<1>1. (n % 256) + 256 * ((n \div 256) % 256) = n
  BY DEF Wide
<1>2. Bytes2(n)[1] = n % 256 /\ Bytes2(n)[2] = (n \div 256) % 256
  BY DEF Bytes2
<1>3. QED
  BY <1>1, <1>2

\* What fits in 4 bytes.
Numbers == {n \in Nat : n \div 65536 \in Wide}

\* Four bytes hold 32.
LEMMA Bytes4Facts ==
  ASSUME NEW n \in Nat
  PROVE  /\ Bytes4(n) \in Seq(Byte) /\ Len(Bytes4(n)) = 4
         /\ n \in Numbers => Number(Bytes4(n), 1) = n
<1>1. n \div 65536 \in Nat
  OBVIOUS
<1> DEFINE x == Bytes2(n)
           y == Bytes2(n \div 65536)
           m == n \div 65536
<1>2. x[1] = n % 256 /\ x[2] = (n \div 256) % 256
  BY DEF Bytes2
<1>a. y = Bytes2(m) /\ m \in Nat
  BY <1>1
<1> HIDE DEF m
<1>b. x \in Seq(Byte) /\ Len(x) = 2
  BY Bytes2Type
<1>c. y \in Seq(Byte) /\ Len(y) = 2
  BY <1>a, Bytes2Type
<1>3. m \in Wide => y[1] + 256 * y[2] = m
  BY <1>a, Bytes2Facts
<1>4. Bytes4(n) = x \o y
  BY DEF Bytes4
<1> HIDE DEF x, y
<1>5. /\ x \o y \in Seq(Byte) /\ Len(x \o y) = 4
      /\ (x \o y)[1] = x[1] /\ (x \o y)[2] = x[2] /\ (x \o y)[3] = y[1] /\ (x \o y)[4] = y[2]
  <2>1. x \o y \in Seq(Byte) /\ Joins(x \o y, x, y)
    BY <1>b, <1>c, JoinedBytes
  <2>2. QED
    BY <1>b, <1>c, <2>1 DEF Joins
<1>6. ASSUME n \in Numbers
      PROVE  Number(Bytes4(n), 1) = n
  <2>1. m \in Wide
    BY <1>6 DEF Numbers, m
  <2>2. Number(Bytes4(n), 1) = x[1] + 256 * x[2] + 65536 * (y[1] + 256 * y[2])
    BY <1>4, <1>5, SMTT(30) DEF Number, Word
  <2>3. Number(Bytes4(n), 1) = (n % 256) + 256 * ((n \div 256) % 256) + 65536 * m
    BY <1>2, <1>3, <2>1, <2>2, SMT
  <2>4. (n % 256) + 256 * ((n \div 256) % 256) + 65536 * m = n
    <3>1. n = 256 * (n \div 256) + (n % 256)
      OBVIOUS
    <3> DEFINE q == n \div 256
    <3>2. m = q \div 256 /\ q \in Nat
      BY SMTT(30) DEF m
    <3> HIDE DEF q
    <3>3. q = 256 * m + (q % 256)
      BY <3>2
    <3>4. n = 256 * q + (n % 256)
      BY <3>1 DEF q
    <3> DEFINE l == n % 256
               h == q % 256
    <3>5. n = 256 * q + l /\ q = 256 * m + h /\ l \in Nat /\ h \in Nat
      BY <3>2, <3>3, <3>4
    <3> HIDE DEF l, h
    <3>6. l + 256 * h + 65536 * m = n
      BY <1>a, <3>2, <3>5
    <3>7. QED
      BY <3>6 DEF l, h, q
  <2>5. QED
    BY <2>3, <2>4, SMT
<1>7. QED
  BY <1>4, <1>5, <1>6

-----------------------------------------------------------------------------
\* The frames that the program sends and receives: the encrypted flag is not part of
\* a frame but of the way it is sent.
Flags == {flag \in Byte : ~ IsMarked(flag)}
Frames ==
  [flag : Flags, seq : Numbers, src : Numbers, dst : Numbers, major : Byte, minor : Byte,
   payload : Seq(Byte)]

\* Four bytes of x, from position i on, are those of n.
Holds4(x, i, n) ==
  LET b == Bytes4(n) IN x[i] = b[1] /\ x[i + 1] = b[2] /\ x[i + 2] = b[3] /\ x[i + 3] = b[4]

Holds2(x, i, n) == LET b == Bytes2(n) IN x[i] = b[1] /\ x[i + 1] = b[2]

\* The fields of a struct, each at its place.
Layout(x, f, flag, checksum) ==
  /\ x[1] = Protocol /\ x[2] = Version /\ x[3] = flag
  /\ Holds4(x, 4, f.seq) /\ Holds4(x, 8, f.src) /\ Holds4(x, 12, f.dst)
  /\ x[16] = f.major /\ x[17] = f.minor
  /\ Holds2(x, 18, checksum) /\ Holds2(x, 20, Len(f.payload))
  /\ \A i \in 1 .. Len(f.payload) : x[21 + i] = f.payload[i]

\* A struct has its fields where Layout says.
LEMMA StructFacts ==
  ASSUME NEW f \in Frames, NEW flag \in Byte, NEW checksum \in Nat
  PROVE  /\ Struct(f, flag, checksum) \in Seq(Byte)
         /\ Len(Struct(f, flag, checksum)) = 21 + Len(f.payload)
         /\ Layout(Struct(f, flag, checksum), f, flag, checksum)
<1> DEFINE n == Len(f.payload)
           a == <<Protocol, Version, flag>>
           b == Bytes4(f.seq)
           c == Bytes4(f.src)
           d == Bytes4(f.dst)
           e == <<f.major, f.minor>>
           g == Bytes2(checksum)
           h == Bytes2(n)
           p == f.payload
           ab == a \o b
           abc == ab \o c
           abcd == abc \o d
           abcde == abcd \o e
           all == abcde \o g
           head == all \o h
<1>1. /\ f.seq \in Nat /\ f.src \in Nat /\ f.dst \in Nat
      /\ f.major \in Byte /\ f.minor \in Byte /\ p \in Seq(Byte)
  BY DEF Frames, Numbers
<1>2. n \in Nat
  BY <1>1, LenProperties
<1>3. Len(a) = 3 /\ a[1] = Protocol /\ a[2] = Version /\ a[3] = flag
  OBVIOUS
<1>4. Len(e) = 2 /\ e[1] = f.major /\ e[2] = f.minor
  OBVIOUS
<1>5. Len(b) = 4 /\ Len(c) = 4 /\ Len(d) = 4 /\ Len(g) = 2 /\ Len(h) = 2
  <2>1. \A k \in Nat : Len(Bytes2(k)) = 2
    BY Bytes2Type
  <2>2. \A k \in Nat : Len(Bytes4(k)) = 4
    BY Bytes4Facts
  <2>3. QED
    BY <1>1, <1>2, <2>1, <2>2
<1>6. a \in Seq(Byte) /\ b \in Seq(Byte) /\ c \in Seq(Byte) /\ d \in Seq(Byte) /\ e \in Seq(Byte)
  BY <1>1, ProtocolAssumption, Bytes4Facts
<1>7. g \in Seq(Byte) /\ h \in Seq(Byte) /\ p \in Seq(Byte)
  BY <1>1, <1>2, Bytes2Type
<1> HIDE DEF n, a, b, c, d, e, g, h, p
<1>8. /\ ab \in Seq(Byte) /\ Joins(ab, a, b)
      /\ abc \in Seq(Byte) /\ Joins(abc, ab, c)
      /\ abcd \in Seq(Byte) /\ Joins(abcd, abc, d)
  BY <1>6, JoinedBytes
<1> HIDE DEF ab, abc, abcd
<1>9. /\ abcde \in Seq(Byte) /\ Joins(abcde, abcd, e)
      /\ all \in Seq(Byte) /\ Joins(all, abcde, g)
      /\ head \in Seq(Byte) /\ Joins(head, all, h)
  BY <1>6, <1>7, <1>8, JoinedBytes
<1> HIDE DEF abcde, all, head
<1> DEFINE s == head \o p
<1>10. s \in Seq(Byte) /\ Joins(s, head, p)
  BY <1>7, <1>9, JoinedBytes
<1>11. s = Struct(f, flag, checksum)
  BY DEF Struct, n, a, b, c, d, e, g, h, p, ab, abc, abcd, abcde, all, head
<1> HIDE DEF s
<1>12. /\ Len(ab) = 7 /\ Len(abc) = 11 /\ Len(abcd) = 15 /\ Len(abcde) = 17 /\ Len(all) = 19
       /\ Len(head) = 21 /\ Len(s) = 21 + n
  BY <1>3, <1>4, <1>5, <1>8, <1>9, <1>10 DEF Joins, n, p
<1>13. /\ \A i \in 1 .. 3 : ab[i] = a[i]
       /\ \A i \in 1 .. 4 : ab[3 + i] = b[i]
       /\ \A i \in 1 .. 7 : abc[i] = ab[i]
       /\ \A i \in 1 .. 4 : abc[7 + i] = c[i]
       /\ \A i \in 1 .. 11 : abcd[i] = abc[i]
       /\ \A i \in 1 .. 4 : abcd[11 + i] = d[i]
  BY <1>3, <1>5, <1>8, <1>12 DEF Joins
<1>14. /\ \A i \in 1 .. 15 : abcde[i] = abcd[i]
       /\ \A i \in 1 .. 2 : abcde[15 + i] = e[i]
       /\ \A i \in 1 .. 17 : all[i] = abcde[i]
       /\ \A i \in 1 .. 2 : all[17 + i] = g[i]
       /\ \A i \in 1 .. 19 : head[i] = all[i]
       /\ \A i \in 1 .. 2 : head[19 + i] = h[i]
       /\ \A i \in 1 .. 21 : s[i] = head[i]
       /\ \A i \in 1 .. n : s[21 + i] = p[i]
  BY <1>4, <1>5, <1>9, <1>10, <1>12 DEF Joins, n, p
<1>15. s[1] = Protocol /\ s[2] = Version /\ s[3] = flag
  <2>1. \A i \in {1, 2, 3} : s[i] = a[i]
    BY <1>13, <1>14
  <2>2. QED
    BY <1>3, <2>1
<1>16. s[4] = b[1] /\ s[5] = b[2] /\ s[6] = b[3] /\ s[7] = b[4]
  <2>1. ab[4] = b[1] /\ ab[5] = b[2] /\ ab[6] = b[3] /\ ab[7] = b[4]
    BY <1>13
  <2>2. \A i \in {4, 5, 6, 7} : s[i] = ab[i]
    BY <1>13, <1>14
  <2>3. QED
    BY <2>1, <2>2
<1>17. s[8] = c[1] /\ s[9] = c[2] /\ s[10] = c[3] /\ s[11] = c[4]
  <2>1. abc[8] = c[1] /\ abc[9] = c[2] /\ abc[10] = c[3] /\ abc[11] = c[4]
    BY <1>13
  <2>2. \A i \in {8, 9, 10, 11} : s[i] = abc[i]
    BY <1>13, <1>14
  <2>3. QED
    BY <2>1, <2>2
<1>18. s[12] = d[1] /\ s[13] = d[2] /\ s[14] = d[3] /\ s[15] = d[4]
  <2>1. abcd[12] = d[1] /\ abcd[13] = d[2] /\ abcd[14] = d[3] /\ abcd[15] = d[4]
    BY <1>13
  <2>2. \A i \in {12, 13, 14, 15} : s[i] = abcd[i]
    BY <1>13, <1>14
  <2>3. QED
    BY <2>1, <2>2
<1>19. s[16] = f.major /\ s[17] = f.minor
  <2>1. abcde[16] = e[1] /\ abcde[17] = e[2]
    BY <1>14
  <2>2. \A i \in {16, 17} : s[i] = abcde[i]
    BY <1>13, <1>14
  <2>3. QED
    BY <1>4, <2>1, <2>2
<1>20. s[18] = g[1] /\ s[19] = g[2] /\ s[20] = h[1] /\ s[21] = h[2]
  BY <1>13, <1>14
<1>21. Layout(s, f, flag, checksum)
  BY <1>14, <1>15, <1>16, <1>17, <1>18, <1>19, <1>20
  DEF Layout, Holds4, Holds2, b, c, d, g, h, n, p
<1>22. QED
  BY <1>10, <1>11, <1>12, <1>21 DEF n
-----------------------------------------------------------------------------
\* A part of a sequence of bytes.
LEMMA PartFacts ==
  ASSUME NEW T, NEW s \in Seq(T), NEW m \in Nat \ {0}, NEW n \in Nat, m <= n + 1, n <= Len(s)
  PROVE  /\ SubSeq(s, m, n) \in Seq(T) /\ Len(SubSeq(s, m, n)) = n - m + 1
         /\ \A i \in 1 .. n - m + 1 : SubSeq(s, m, n)[i] = s[m + i - 1]
<1>1. Len(s) \in Nat
  BY LenProperties
<1>2. \A i \in m .. n : s[i] \in T
  <2>1. \A i \in m .. n : i \in 1 .. Len(s)
    BY <1>1
  <2>2. QED
    BY <2>1, ElementOfSeq
<1>3. /\ SubSeq(s, m, n) \in Seq(T)
      /\ Len(SubSeq(s, m, n)) = IF m <= n THEN n - m + 1 ELSE 0
      /\ \A i \in 1 .. n - m + 1 : SubSeq(s, m, n)[i] = s[m + i - 1]
  BY <1>2, SubSeqProperties
<1>4. QED
  BY <1>3

\* What the checksum covers: the slot at 18 and 19 is left out.
LEMMA CoveredFacts ==
  ASSUME NEW s \in Seq(Byte), NEW n \in Nat, n + 21 <= Len(s)
  PROVE  /\ Covered(s, n) \in Seq(Byte) /\ Len(Covered(s, n)) = n + 19
         /\ \A i \in 1 .. 17 : Covered(s, n)[i] = s[i]
         /\ \A i \in 18 .. n + 19 : Covered(s, n)[i] = s[i + 2]
<1> DEFINE x == SubSeq(s, 1, 17)
           y == SubSeq(s, 20, n + 21)
<1>0. Len(s) \in Nat
  BY LenProperties
<1>1. x \in Seq(Byte) /\ Len(x) = 17 /\ \A i \in 1 .. 17 : x[i] = s[i]
  <2>1. 1 \in Nat \ {0} /\ 17 \in Nat /\ 1 <= 17 + 1 /\ 17 <= Len(s)
    BY <1>0
  <2>2. x \in Seq(Byte) /\ Len(x) = 17 - 1 + 1 /\ \A i \in 1 .. 17 - 1 + 1 : x[i] = s[1 + i - 1]
    BY <2>1, PartFacts, SMTT(30)
  <2>3. QED
    BY <2>2
<1>2. /\ y \in Seq(Byte) /\ Len(y) = n + 2 /\ \A i \in 1 .. n + 2 : y[i] = s[19 + i]
  <2>1. 20 \in Nat \ {0} /\ n + 21 \in Nat /\ 20 <= (n + 21) + 1 /\ n + 21 <= Len(s)
    OBVIOUS
  <2>2. /\ y \in Seq(Byte) /\ Len(y) = (n + 21) - 20 + 1
        /\ \A i \in 1 .. (n + 21) - 20 + 1 : y[i] = s[20 + i - 1]
    BY <2>1, PartFacts
  <2>3. (n + 21) - 20 + 1 = n + 2 /\ \A i \in 1 .. n + 2 : 20 + i - 1 = 19 + i
    OBVIOUS
  <2>4. QED
    BY <2>2, <2>3
<1>3. Covered(s, n) = x \o y
  BY DEF Covered
<1> HIDE DEF x, y
<1>4. x \in Seq(Byte) /\ y \in Seq(Byte)
  BY <1>1, <1>2
<1> DEFINE z == x \o y
<1>5. z \in Seq(Byte) /\ Joins(z, x, y)
  BY <1>4, JoinedBytes
<1> HIDE DEF z
<1>6. z \in Seq(Byte) /\ Len(z) = n + 19 /\ \A i \in 1 .. 17 : z[i] = x[i]
  BY <1>1, <1>2, <1>5 DEF Joins
<1>7. \A i \in 1 .. n + 2 : z[17 + i] = y[i]
  BY <1>1, <1>2, <1>5 DEF Joins
<1>8. ASSUME NEW i \in 18 .. n + 19
      PROVE  z[i] = s[i + 2]
  <2>1. i - 17 \in 1 .. n + 2 /\ 17 + (i - 17) = i /\ 19 + (i - 17) = i + 2
    OBVIOUS
  <2>2. z[17 + (i - 17)] = y[i - 17] /\ y[i - 17] = s[19 + (i - 17)]
    BY <1>2, <1>7, <2>1
  <2>3. QED
    BY <2>1, <2>2
<1>9. QED
  BY <1>1, <1>3, <1>6, <1>8 DEF z

\* The checksum of a struct has 16 bits.
LEMMA ChecksumType ==
  ASSUME NEW s \in Seq(Byte), NEW n \in Nat, n + 21 <= Len(s)
  PROVE  EdpChecksum(s, n) \in Wide
<1>1. Covered(s, n) \in Seq(Byte)
  BY CoveredFacts
<1>2. QED
  BY <1>1, RegisterType DEF EdpChecksum

\* Two structs that differ in the slot only, or behind the payload.
Alike(s, t, n) == \A i \in 1 .. n + 21 : i \notin {18, 19} => s[i] = t[i]

\* Structs that agree outside the slot of the checksum have the same one.
LEMMA ChecksumAgrees ==
  ASSUME NEW s \in Seq(Byte), NEW t \in Seq(Byte), NEW n \in Nat,
         n + 21 <= Len(s), n + 21 <= Len(t), Alike(s, t, n)
  PROVE  EdpChecksum(s, n) = EdpChecksum(t, n)
<1> DEFINE x == Covered(s, n)
           y == Covered(t, n)
<1>1. /\ x \in Seq(Byte) /\ Len(x) = n + 19
      /\ \A i \in 1 .. 17 : x[i] = s[i]
      /\ \A i \in 18 .. n + 19 : x[i] = s[i + 2]
  BY CoveredFacts
<1>2. /\ y \in Seq(Byte) /\ Len(y) = n + 19
      /\ \A i \in 1 .. 17 : y[i] = t[i]
      /\ \A i \in 18 .. n + 19 : y[i] = t[i + 2]
  BY CoveredFacts
<1> HIDE DEF x, y
<1>3. ASSUME NEW i \in 1 .. n + 19
      PROVE  x[i] = y[i]
  <2>1. CASE i \in 1 .. 17
    <3>1. i \in 1 .. n + 21 /\ i \notin {18, 19}
      BY <2>1
    <3>2. QED
      BY <1>1, <1>2, <2>1, <3>1 DEF Alike
  <2>2. CASE i \in 18 .. n + 19
    <3>1. i + 2 \in 1 .. n + 21 /\ i + 2 \notin {18, 19}
      BY <2>2
    <3>2. QED
      BY <1>1, <1>2, <2>2, <3>1, SMTT(30) DEF Alike
  <2>3. i \in 1 .. 17 \/ i \in 18 .. n + 19
    OBVIOUS
  <2>4. QED
    BY <2>1, <2>2, <2>3, Zenon
<1>4. x \in Seq(Byte) /\ y \in Seq(Byte) /\ Len(x) = Len(y) /\ \A i \in 1 .. Len(x) : x[i] = y[i]
  BY <1>1, <1>2, <1>3
<1>5. x = y
  BY <1>4, SeqEqual
<1>6. QED
  BY <1>5 DEF EdpChecksum, x, y

(***************************************************************************)
(* The checksum of two structs that differ in one byte, which is not in    *)
(* the slot, is different.                                                 *)
(***************************************************************************)
LEMMA ChecksumTells ==
  ASSUME NEW s \in Seq(Byte), NEW t \in Seq(Byte), NEW n \in Nat,
         n + 21 <= Len(s), n + 21 <= Len(t),
         NEW p \in 1 .. n + 21, p \notin {18, 19}, s[p] # t[p],
         \A i \in 1 .. n + 21 : i # p => s[i] = t[i]
  PROVE  EdpChecksum(s, n) # EdpChecksum(t, n)
<1> DEFINE x == Covered(s, n)
           y == Covered(t, n)
           q == IF p <= 17 THEN p ELSE p - 2
<1>1. /\ x \in Seq(Byte) /\ Len(x) = n + 19
      /\ \A i \in 1 .. 17 : x[i] = s[i]
      /\ \A i \in 18 .. n + 19 : x[i] = s[i + 2]
  BY CoveredFacts
<1>2. /\ y \in Seq(Byte) /\ Len(y) = n + 19
      /\ \A i \in 1 .. 17 : y[i] = t[i]
      /\ \A i \in 18 .. n + 19 : y[i] = t[i + 2]
  BY CoveredFacts
<1> HIDE DEF x, y
<1>3. q \in 1 .. n + 19 /\ x[q] # y[q]
  <2>1. CASE p <= 17
    <3>1. q = p /\ p \in 1 .. 17 /\ p \in 1 .. n + 19
      BY <2>1
    <3>2. QED
      BY <1>1, <1>2, <3>1
  <2>2. CASE ~ (p <= 17)
    <3>1. q = p - 2 /\ p - 2 \in 18 .. n + 19 /\ (p - 2) + 2 = p /\ p - 2 \in 1 .. n + 19
      BY <2>2
    <3>2. x[p - 2] = s[(p - 2) + 2] /\ y[p - 2] = t[(p - 2) + 2]
      BY <1>1, <1>2, <3>1
    <3>3. QED
      BY <3>1, <3>2
  <2>3. QED
    BY <2>1, <2>2
<1>4. ASSUME NEW i \in 1 .. n + 19, i # q
      PROVE  x[i] = y[i]
  <2>1. CASE i \in 1 .. 17
    <3>1. i \in 1 .. n + 21 /\ i # p
      BY <1>4, <2>1
    <3>2. QED
      BY <1>1, <1>2, <2>1, <3>1
  <2>2. CASE i \in 18 .. n + 19
    <3>1. i + 2 \in 1 .. n + 21 /\ i + 2 # p
      BY <1>4, <2>2
    <3>2. QED
      BY <1>1, <1>2, <2>2, <3>1, SMTT(30)
  <2>3. QED
    BY <2>1, <2>2
<1> HIDE DEF q
<1>5. Register(x) # Register(y)
  <2>1. Len(x) = Len(y) /\ q \in 1 .. Len(x) /\ \A i \in 1 .. Len(x) : i # q => x[i] = y[i]
    BY <1>1, <1>2, <1>3, <1>4
  <2>2. x \in Seq(Byte) /\ y \in Seq(Byte) /\ x[q] # y[q]
    BY <1>1, <1>2, <1>3
  <2>3. QED
    BY <2>1, <2>2, RegisterTells
<1>6. QED
  BY <1>5 DEF EdpChecksum, x, y
-----------------------------------------------------------------------------
FlagOf(f, key) == IF key = NoKey THEN f.flag ELSE Marked(f.flag)
ChecksumOf(f, key) == EdpChecksum(Struct(f, FlagOf(f, key), 0), Len(f.payload))

\* The struct before it is encrypted.
ClearStruct(f, key) == Struct(f, FlagOf(f, key), ChecksumOf(f, key))

-----------------------------------------------------------------------------
(***************************************************************************)
(* Encoding, and what a receiver finds in what was encoded.                *)
(***************************************************************************)

\* The flags as sent, and what unmarking them gives back.
LEMMA FlagFacts ==
  ASSUME NEW f \in Frames, NEW key \in Byte
  PROVE  /\ FlagOf(f, key) \in Byte /\ Unmarked(FlagOf(f, key)) = f.flag
         /\ IsMarked(FlagOf(f, key)) <=> key # NoKey
<1>1. f.flag \in Nat /\ f.flag < 256 /\ f.flag % 2 # 1
  BY ByteIs DEF Frames, Flags, IsMarked
<1> DEFINE g == f.flag
<1> HIDE DEF g
<1>2. g \in Nat /\ g < 256 /\ g % 2 = 0
  BY <1>1 DEF g
<1>3. Marked(g) = g + 1 /\ Unmarked(g) = g /\ Unmarked(g + 1) = g /\ g + 1 < 256
  BY <1>2 DEF Marked, Unmarked
<1>4. ~ IsMarked(g) /\ IsMarked(g + 1)
  BY <1>2 DEF IsMarked
<1>5. g \in Byte /\ g + 1 \in Byte
  BY <1>2, <1>3, ByteIs
<1>6. QED
  BY <1>3, <1>4, <1>5 DEF FlagOf, g

\* The struct of an encoded frame has the checksum that its own bytes give.
LEMMA ClearStructFacts ==
  ASSUME NEW f \in Frames, NEW key \in Byte
  PROVE  /\ ClearStruct(f, key) \in Seq(Byte)
         /\ Len(ClearStruct(f, key)) = 21 + Len(f.payload)
         /\ Layout(ClearStruct(f, key), f, FlagOf(f, key), ChecksumOf(f, key))
         /\ ChecksumOf(f, key) \in Wide
         /\ EdpChecksum(ClearStruct(f, key), Len(f.payload)) = ChecksumOf(f, key)
         /\ Len(f.payload) \in Nat
<1> DEFINE n == Len(f.payload)
           flag == FlagOf(f, key)
           checksum == ChecksumOf(f, key)
           s == ClearStruct(f, key)
           t == Struct(f, flag, 0)
<1>1. n \in Nat /\ flag \in Byte
  BY FlagFacts, LenProperties DEF Frames
<1>2. t \in Seq(Byte) /\ Len(t) = 21 + n /\ Layout(t, f, flag, 0)
  BY <1>1, StructFacts
<1>3. checksum \in Wide
  BY <1>1, <1>2, ChecksumType DEF ChecksumOf
<1>4. checksum \in Nat
  BY <1>3 DEF Wide
<1>5. s \in Seq(Byte) /\ Len(s) = 21 + n /\ Layout(s, f, flag, checksum)
  BY <1>1, <1>4, StructFacts DEF ClearStruct
<1>6. checksum = EdpChecksum(t, n)
  BY DEF ChecksumOf
<1> HIDE DEF n, flag, checksum, s, t
<1>7. Alike(s, t, n)
  <2> SUFFICES ASSUME NEW i \in 1 .. n + 21, i \notin {18, 19}
               PROVE  s[i] = t[i]
    BY DEF Alike
  <2>1. CASE i \in 1 .. 17
    <3>1. /\ s[1] = t[1] /\ s[2] = t[2] /\ s[3] = t[3] /\ s[16] = t[16] /\ s[17] = t[17]
      BY <1>2, <1>5 DEF Layout
    <3>2. /\ Holds4(s, 4, f.seq) /\ Holds4(s, 8, f.src) /\ Holds4(s, 12, f.dst)
          /\ Holds4(t, 4, f.seq) /\ Holds4(t, 8, f.src) /\ Holds4(t, 12, f.dst)
      BY <1>2, <1>5 DEF Layout
    <3>3. \A m : \A k \in Nat : Holds4(s, k, m) /\ Holds4(t, k, m) =>
            s[k] = t[k] /\ s[k + 1] = t[k + 1] /\ s[k + 2] = t[k + 2] /\ s[k + 3] = t[k + 3]
      BY DEF Holds4
    <3>4. s[4] = t[4] /\ s[4 + 1] = t[4 + 1] /\ s[4 + 2] = t[4 + 2] /\ s[4 + 3] = t[4 + 3]
      BY <3>2, <3>3
    <3>5. s[8] = t[8] /\ s[8 + 1] = t[8 + 1] /\ s[8 + 2] = t[8 + 2] /\ s[8 + 3] = t[8 + 3]
      BY <3>2, <3>3
    <3>6. /\ s[12] = t[12] /\ s[12 + 1] = t[12 + 1]
          /\ s[12 + 2] = t[12 + 2] /\ s[12 + 3] = t[12 + 3]
      BY <3>2, <3>3
    <3>7. QED
      BY <2>1, <3>1, <3>4, <3>5, <3>6
  <2>2. CASE i \in {20, 21}
    BY <2>2, <1>2, <1>5 DEF Layout, Holds2
  <2>3. CASE i \in 22 .. n + 21
    <3>1. i - 21 \in 1 .. Len(f.payload) /\ 21 + (i - 21) = i
      BY <1>1, <2>3 DEF n
    <3>2. s[21 + (i - 21)] = f.payload[i - 21] /\ t[21 + (i - 21)] = f.payload[i - 21]
      BY <1>2, <1>5, <3>1 DEF Layout
    <3>3. QED
      BY <3>1, <3>2
  <2>4. QED
    BY <1>1, <2>1, <2>2, <2>3
<1>8. EdpChecksum(s, n) = EdpChecksum(t, n)
  BY <1>1, <1>2, <1>5, <1>7, ChecksumAgrees
<1>9. QED
  BY <1>1, <1>3, <1>5, <1>6, <1>8 DEF n, flag, checksum, s

-----------------------------------------------------------------------------
\* Encryption keeps the length, and decryption undoes it.
LEMMA CipherFacts ==
  ASSUME NEW b \in Seq(Byte), NEW key \in Byte
  PROVE  Cipher(b, key) \in Seq(Byte) /\ Len(Cipher(b, key)) = Len(b) /\ Decipher(Cipher(b, key), key) = b
<1> DEFINE n == Len(b)
           x == Cipher(b, key)
           y == Decipher(x, key)
<1>1. n \in Nat /\ DOMAIN b = 1 .. n
  BY LenProperties
<1>2. key \in Nat /\ \A i \in 1 .. n : b[i] \in Nat /\ b[i] < 256
  <2>1. \A i \in 1 .. Len(b) : b[i] \in Byte
    BY ElementOfSeq
  <2>2. QED
    BY <2>1, ByteIs
<1>3. x = [i \in 1 .. n |-> (b[i] + key) % 256]
  BY <1>1 DEF Cipher
<1> HIDE DEF n, x
<1>4. \A i \in 1 .. n : (b[i] + key) % 256 \in Byte
  BY <1>2, ByteIs, SMTT(30)
<1>5. x \in [1 .. n -> Byte]
  BY <1>3, <1>4
<1>6. x \in Seq(Byte) /\ Len(x) = n /\ DOMAIN x = 1 .. n
  BY <1>1, <1>5, FunctionIsSeq
<1>7. y = [i \in 1 .. n |-> (x[i] - key) % 256]
  BY <1>6, Zenon DEF Decipher
<1> HIDE DEF y
<1>8. ASSUME NEW i \in 1 .. n
      PROVE  y[i] = b[i]
  <2>1. y[i] = (((b[i] + key) % 256) - key) % 256
    BY <1>3, <1>7
  <2>2. \A u, k \in Nat : u < 256 => (((u + k) % 256) - k) % 256 = u
    OBVIOUS
  <2> DEFINE u == b[i]
  <2>3. u \in Nat /\ u < 256 /\ key \in Nat
    BY <1>2
  <2>4. y[i] = (((u + key) % 256) - key) % 256
    BY <2>1
  <2> HIDE DEF u
  <2>5. (((u + key) % 256) - key) % 256 = u
    BY <2>2, <2>3
  <2>6. QED
    BY <2>4, <2>5 DEF u
<1>9. y = b
  <2>1. b \in [1 .. n -> Byte]
    BY LenProperties DEF n
  <2>2. QED
    BY <1>7, <1>8, <2>1
<1>10. QED
  BY <1>6, <1>9 DEF n, x, y

\* Padding reaches a whole number of blocks, with fewer than one of them.
LEMMA PaddedFacts ==
  ASSUME NEW tail \in Seq(Byte)
  PROVE  /\ Padded(tail) \in Seq(Byte) /\ Len(Padded(tail)) % 16 = 0
         /\ Len(Padded(tail)) >= Len(tail) /\ Len(Padded(tail)) < Len(tail) + 16
         /\ \A i \in 1 .. Len(tail) : Padded(tail)[i] = tail[i]
<1> DEFINE n == Len(tail)
           m == (-n) % 16
           z == Zeros(m)
           p == Padded(tail)
<1>1. n \in Nat
  BY LenProperties
<1>2. m \in Nat /\ m < 16 /\ (n + m) % 16 = 0
  BY <1>1
<1>3. p = tail \o z
  BY DEF Padded, BlockSize
<1> HIDE DEF n, m, p
<1>4. z \in Seq(Byte) /\ Len(z) = m
  <2>1. z \in [1 .. m -> Byte]
    BY ByteIs DEF Zeros
  <2>2. QED
    BY <1>2, <2>1, FunctionIsSeq
<1> HIDE DEF z
<1>5. z \in Seq(Byte)
  BY <1>4
<1>6. tail \o z \in Seq(Byte) /\ Joins(tail \o z, tail, z)
  BY <1>5, JoinedBytes
<1>7. p \in Seq(Byte) /\ Len(p) = n + m /\ \A i \in 1 .. n : p[i] = tail[i]
  BY <1>3, <1>4, <1>6 DEF Joins, n
<1>8. (n + m) % 16 = 0 /\ n + m >= n /\ n + m < n + 16
  BY <1>1, <1>2
<1>9. QED
  BY <1>7, <1>8, Zenon DEF n, p
-----------------------------------------------------------------------------
\* What is encrypted of a struct.
Secret(f, key) == Padded(SubSeq(ClearStruct(f, key), 16, Len(ClearStruct(f, key))))

\* Without a key the struct is sent as it is.
LEMMA BodyInTheClear ==
  ASSUME NEW f \in Frames
  PROVE  Body(f, NoKey) = ClearStruct(f, NoKey)
BY DEF Body, ClearStruct, ChecksumOf, FlagOf

\* With a key 15 bytes of it are, and the rest encrypted.
LEMMA BodyEncrypted ==
  ASSUME NEW f \in Frames, NEW key \in Byte, key # NoKey
  PROVE  LET s == ClearStruct(f, key)
             x == SubSeq(s, 1, 15)
         IN /\ Body(f, key) = x \o Cipher(Secret(f, key), key)
            /\ x \in Seq(Byte) /\ Len(x) = 15
            /\ Secret(f, key) \in Seq(Byte) /\ Len(Secret(f, key)) % 16 = 0
            /\ Len(Secret(f, key)) >= 6 + Len(f.payload)
            /\ Len(Secret(f, key)) < 22 + Len(f.payload)
            /\ \A i \in 1 .. 15 : x[i] = s[i]
            /\ \A i \in 1 .. 6 + Len(f.payload) : Secret(f, key)[i] = s[15 + i]
<1> DEFINE s == ClearStruct(f, key)
           n == Len(f.payload)
           x == SubSeq(s, 1, 15)
           y == SubSeq(s, 16, 21 + n)
           p == Padded(y)
<1>1. s \in Seq(Byte) /\ Len(s) = 21 + n /\ n \in Nat
  BY ClearStructFacts
<1>2. Body(f, key) = x \o Cipher(Secret(f, key), key)
  BY DEF Body, Encrypt, ClearStruct, ChecksumOf, FlagOf, Secret, ClearLen
<1>3. Secret(f, key) = p
  BY <1>1 DEF Secret
<1> HIDE DEF s, n
<1>4. x \in Seq(Byte) /\ Len(x) = 15 /\ \A i \in 1 .. 15 : x[i] = s[i]
  <2>1. 1 \in Nat \ {0} /\ 15 \in Nat /\ 1 <= 15 + 1 /\ 15 <= Len(s)
    BY <1>1
  <2>2. x \in Seq(Byte) /\ Len(x) = 15 - 1 + 1 /\ \A i \in 1 .. 15 - 1 + 1 : x[i] = s[1 + i - 1]
    BY <1>1, <2>1, PartFacts
  <2>3. QED
    BY <2>2
<1>5. y \in Seq(Byte) /\ Len(y) = 6 + n /\ \A i \in 1 .. 6 + n : y[i] = s[15 + i]
  <2>1. 16 \in Nat \ {0} /\ 21 + n \in Nat /\ 16 <= (21 + n) + 1 /\ 21 + n <= Len(s)
    BY <1>1
  <2>2. /\ y \in Seq(Byte) /\ Len(y) = (21 + n) - 16 + 1
        /\ \A i \in 1 .. (21 + n) - 16 + 1 : y[i] = s[16 + i - 1]
    BY <1>1, <2>1, PartFacts
  <2>3. (21 + n) - 16 + 1 = 6 + n /\ \A i \in 1 .. 6 + n : 16 + i - 1 = 15 + i
    BY <1>1
  <2>4. QED
    BY <2>2, <2>3
<1> HIDE DEF y
<1>6. /\ p \in Seq(Byte) /\ Len(p) % 16 = 0 /\ Len(p) >= Len(y) /\ Len(p) < Len(y) + 16
      /\ \A i \in 1 .. Len(y) : p[i] = y[i]
  BY <1>5, PaddedFacts
<1> HIDE DEF p
<1>7. /\ Len(p) >= 6 + n /\ Len(p) < 22 + n
      /\ \A i \in 1 .. 6 + n : p[i] = s[15 + i]
  <2> DEFINE lp == Len(p)
             ly == Len(y)
  <2>1. lp >= ly /\ lp < ly + 16 /\ ly = 6 + n /\ lp \in Nat
    BY <1>5, <1>6, LenProperties
  <2> HIDE DEF lp, ly
  <2>2. lp >= 6 + n /\ lp < 22 + n
    BY <1>1, <2>1
  <2>3. \A i \in 1 .. 6 + n : p[i] = s[15 + i]
    BY <1>5, <1>6
  <2>4. QED
    BY <2>2, <2>3 DEF lp
<1>8. QED
  BY <1>2, <1>3, <1>4, <1>6, <1>7 DEF s, n, x

\* The length prefix holds the length of what follows.
LEMMA EncodeFacts ==
  ASSUME NEW f \in Frames, NEW key \in Byte, Encodable(f, key), Body(f, key) \in Seq(Byte)
  PROVE  LET body == Body(f, key)
             frame == Encode(f, key)
         IN /\ frame \in Seq(Byte) /\ Len(frame) = Len(body) + 2
            /\ frame[1] + 256 * frame[2] = Len(body) /\ Total(frame) = Len(frame)
            /\ Len(body) \in Wide
            /\ \A i \in 1 .. Len(body) : frame[i + 2] = body[i]
<1> DEFINE body == Body(f, key)
           frame == Encode(f, key)
           x == Bytes2(Len(body))
<1>1. Len(body) \in Nat /\ body \in Seq(Byte)
  BY LenProperties
<1>2. Len(body) \in Wide
  BY <1>1, SMT DEF Encodable, MaxFrameLen, Wide
<1>3. x \in Seq(Byte)
  BY <1>1, Bytes2Type
<1>4. Len(x) = 2 /\ x[1] + 256 * x[2] = Len(body)
  BY <1>1, <1>2, Bytes2Type, Bytes2Facts
<1>5. frame = x \o body
  BY DEF Encode
<1> HIDE DEF body, x
<1>6. frame \in Seq(Byte) /\ Joins(frame, x, body)
  BY <1>1, <1>3, <1>5, JoinedBytes
<1> HIDE DEF frame
<1>7. /\ Len(frame) = 2 + Len(body) /\ frame[1] = x[1] /\ frame[2] = x[2]
      /\ \A i \in 1 .. Len(body) : frame[2 + i] = body[i]
  BY <1>4, <1>6 DEF Joins
<1>8. Total(frame) = Len(body) + 2
  BY <1>4, <1>7 DEF Total, Word
<1>9. \A i \in 1 .. Len(body) : frame[i + 2] = body[i]
  BY <1>1, <1>7
<1>10. QED
  BY <1>1, <1>2, <1>4, <1>6, <1>7, <1>8, <1>9 DEF body, frame

-----------------------------------------------------------------------------
\* A buffer that holds a clear struct after the length prefix.
Carries(c, s) == c \in Seq(Byte) /\ Len(s) + 2 <= Len(c) /\ \A i \in 1 .. Len(s) : c[i + 2] = s[i]

\* Dropping the length prefix.
LEMMA TailTail ==
  ASSUME NEW c \in Seq(Byte), 2 <= Len(c)
  PROVE  /\ Tail(Tail(c)) \in Seq(Byte) /\ Len(Tail(Tail(c))) = Len(c) - 2
         /\ \A i \in 1 .. Len(c) - 2 : Tail(Tail(c))[i] = c[i + 2]
<1> DEFINE t == Tail(c)
           u == Tail(t)
<1>0. Len(c) \in Nat /\ c # <<>>
  BY LenProperties, EmptySeq
<1>1. t \in Seq(Byte) /\ Len(t) = Len(c) - 1 /\ \A i \in 1 .. Len(t) : t[i] = c[i + 1]
  BY <1>0, HeadTailProperties
<1> HIDE DEF t
<1>2. t # <<>>
  BY <1>0, <1>1, EmptySeq
<1>3. u \in Seq(Byte) /\ Len(u) = Len(t) - 1 /\ \A i \in 1 .. Len(u) : u[i] = t[i + 1]
  BY <1>1, <1>2, HeadTailProperties
<1> HIDE DEF u
<1>4. ASSUME NEW i \in 1 .. Len(c) - 2
      PROVE  u[i] = c[i + 2]
  <2>1. i \in 1 .. Len(u) /\ i + 1 \in 1 .. Len(t) /\ (i + 1) + 1 = i + 2
    BY <1>0, <1>1, <1>3
  <2>2. u[i] = t[i + 1] /\ t[i + 1] = c[(i + 1) + 1]
    BY <1>1, <1>3, <2>1
  <2>3. QED
    BY <2>1, <2>2
<1>5. QED
  BY <1>0, <1>1, <1>3, <1>4 DEF t, u

\* The frame that a clear buffer is read as.
FrameAt(c) ==
  [flag |-> Unmarked(c[5]), seq |-> Number(c, 6), src |-> Number(c, 10), dst |-> Number(c, 14),
   major |-> c[18], minor |-> c[19], payload |-> SubSeq(c, HeaderLen + 1, HeaderLen + Dlen(c))]

\* Four bytes are read as the number that they hold.
LEMMA NumberIs ==
  ASSUME NEW c, NEW i \in Nat, NEW n \in Numbers, Holds4(c, i, n)
  PROVE  Number(c, i) = n
<1> DEFINE b == Bytes4(n)
<1>1. Number(b, 1) = n
  BY Bytes4Facts DEF Numbers
<1>2. c[i] = b[1] /\ c[i + 1] = b[2] /\ c[i + 2] = b[3] /\ c[i + 3] = b[4]
  BY DEF Holds4
<1> HIDE DEF b
<1>3. Number(b, 1) = b[1] + 256 * b[2] + 65536 * (b[3] + 256 * b[4])
  BY SMT DEF Number, Word
<1>4. Number(c, i) = c[i] + 256 * c[i + 1] + 65536 * (c[i + 2] + 256 * c[i + 3])
  <2>1. (i + 2) + 1 = i + 3
    OBVIOUS
  <2>2. QED
    BY <2>1, SMT DEF Number, Word
<1>5. QED
  BY <1>1, <1>2, <1>3, <1>4, SMT

(***************************************************************************)
(* A clear buffer is read as the frame that it carries, and its checksum   *)
(* is right.                                                               *)
(***************************************************************************)
LEMMA ReadBack ==
  ASSUME NEW f \in Frames, NEW key \in Byte, Len(f.payload) \in Wide,
         NEW c, Carries(c, ClearStruct(f, key))
  PROVE  /\ Dlen(c) = Len(f.payload) /\ FrameAt(c) = f
         /\ Word(c, 20) = ChecksumOf(f, key)
         /\ EdpChecksum(Tail(Tail(c)), Dlen(c)) = ChecksumOf(f, key)
<1> DEFINE s == ClearStruct(f, key)
           n == Len(f.payload)
           flag == FlagOf(f, key)
           checksum == ChecksumOf(f, key)
<1>1. /\ s \in Seq(Byte) /\ Len(s) = 21 + n /\ Layout(s, f, flag, checksum)
      /\ checksum \in Wide /\ EdpChecksum(s, n) = checksum /\ n \in Nat
  BY ClearStructFacts
<1>2. c \in Seq(Byte) /\ 23 + n <= Len(c) /\ \A i \in 1 .. 21 + n : c[i + 2] = s[i]
  BY <1>1 DEF Carries
<1>3. n \in Wide
  OBVIOUS
<1>4. /\ f.seq \in Numbers /\ f.src \in Numbers /\ f.dst \in Numbers
      /\ f.payload \in Seq(Byte) /\ f.payload \in [1 .. n -> Byte]
  BY LenProperties DEF Frames
<1>5. Unmarked(flag) = f.flag
  BY FlagFacts
<1>6. s[3] = flag /\ s[16] = f.major /\ s[17] = f.minor
  BY <1>1 DEF Layout
<1>7. Holds4(s, 4, f.seq) /\ Holds4(s, 8, f.src) /\ Holds4(s, 12, f.dst)
  BY <1>1 DEF Layout
<1>8. Holds2(s, 18, checksum) /\ Holds2(s, 20, n)
  BY <1>1 DEF Layout
<1>9. \A i \in 1 .. n : s[21 + i] = f.payload[i]
  BY <1>1 DEF Layout
<1> HIDE DEF s, n, flag, checksum
<1>10. \A i \in 1 .. 21 : c[i + 2] = s[i]
  <2>1. n \in Nat
    BY <1>1
  <2>2. \A i \in 1 .. 21 : i \in 1 .. 21 + n
    BY <2>1
  <2>3. QED
    BY <1>2, <2>2
<1>11. c[5] = flag /\ c[18] = f.major /\ c[19] = f.minor
  <2>1. c[3 + 2] = s[3] /\ c[16 + 2] = s[16] /\ c[17 + 2] = s[17]
    BY <1>10
  <2>2. QED
    BY <1>6, <2>1
<1>12. Holds4(c, 6, f.seq) /\ Holds4(c, 10, f.src) /\ Holds4(c, 14, f.dst)
  <2>1. c[4 + 2] = s[4] /\ c[5 + 2] = s[5] /\ c[6 + 2] = s[6] /\ c[7 + 2] = s[7]
    BY <1>10
  <2>2. c[8 + 2] = s[8] /\ c[9 + 2] = s[9] /\ c[10 + 2] = s[10] /\ c[11 + 2] = s[11]
    BY <1>10
  <2>3. c[12 + 2] = s[12] /\ c[13 + 2] = s[13] /\ c[14 + 2] = s[14] /\ c[15 + 2] = s[15]
    BY <1>10
  <2>4. QED
    BY <1>7, <2>1, <2>2, <2>3 DEF Holds4
<1>13. Number(c, 6) = f.seq /\ Number(c, 10) = f.src /\ Number(c, 14) = f.dst
  BY <1>4, <1>12, NumberIs
<1>14. Holds2(c, 20, checksum) /\ Holds2(c, 22, n)
  <2>1. c[18 + 2] = s[18] /\ c[19 + 2] = s[19] /\ c[20 + 2] = s[20] /\ c[21 + 2] = s[21]
    BY <1>10
  <2>2. QED
    BY <1>8, <2>1 DEF Holds2
<1>15. Word(c, 20) = checksum /\ Word(c, 22) = n
  <2>1. \A k \in Wide : Bytes2(k)[1] + 256 * Bytes2(k)[2] = k
    BY Bytes2Facts DEF Wide
  <2>2. QED
    BY <1>1, <1>3, <1>14, <2>1 DEF Holds2, Word
<1>16. Dlen(c) = n
  BY <1>15 DEF Dlen
<1>17. SubSeq(c, 24, 23 + n) = f.payload
  <2> DEFINE p == SubSeq(c, 24, 23 + n)
  <2>1. p \in Seq(Byte) /\ Len(p) = n /\ \A i \in 1 .. n : p[i] = c[23 + i]
    <3>1. 24 \in Nat \ {0} /\ 23 + n \in Nat /\ 24 <= (23 + n) + 1 /\ 23 + n <= Len(c)
      BY <1>1, <1>2
    <3>2. /\ p \in Seq(Byte) /\ Len(p) = (23 + n) - 24 + 1
          /\ \A i \in 1 .. (23 + n) - 24 + 1 : p[i] = c[24 + i - 1]
      BY <1>2, <3>1, PartFacts
    <3>3. (23 + n) - 24 + 1 = n /\ \A i \in 1 .. n : 24 + i - 1 = 23 + i
      BY <1>1
    <3>4. QED
      BY <3>2, <3>3
  <2> HIDE DEF p
  <2>2. ASSUME NEW i \in 1 .. n
        PROVE  p[i] = f.payload[i]
    <3>1. 21 + i \in 1 .. 21 + n /\ (21 + i) + 2 = 23 + i
      BY <1>1
    <3>2. c[(21 + i) + 2] = s[21 + i]
      BY <1>2, <3>1
    <3>3. QED
      BY <1>9, <2>1, <3>1, <3>2
  <2>3. p = f.payload
    BY <1>4, <2>1, <2>2, SeqEqual DEF n
  <2>4. QED
    BY <2>3 DEF p
<1>18. FrameAt(c) = f
  <2>1. HeaderLen + 1 = 24 /\ HeaderLen + Dlen(c) = 23 + n
    BY <1>1, <1>16 DEF HeaderLen
  <2>2. FrameAt(c) = [flag |-> f.flag, seq |-> f.seq, src |-> f.src, dst |-> f.dst,
                      major |-> f.major, minor |-> f.minor, payload |-> f.payload]
    BY <1>5, <1>11, <1>13, <1>17, <2>1 DEF FrameAt
  <2>3. QED
    BY <2>2 DEF Frames
<1>19. EdpChecksum(Tail(Tail(c)), n) = checksum
  <2> DEFINE t == Tail(Tail(c))
  <2>1. n \in Nat /\ Len(c) \in Nat /\ 23 + n <= Len(c) /\ Len(s) = 21 + n
    BY <1>1, <1>2, LenProperties
  <2>2. t \in Seq(Byte) /\ Len(t) = Len(c) - 2 /\ \A i \in 1 .. Len(c) - 2 : t[i] = c[i + 2]
    <3>1. 2 <= Len(c)
      BY <2>1
    <3>2. QED
      BY <1>2, <3>1, TailTail
  <2> HIDE DEF t
  <2>3. n + 21 <= Len(s) /\ n + 21 <= Len(t)
    BY <2>1, <2>2
  <2>4. Alike(t, s, n)
    <3> SUFFICES ASSUME NEW i \in 1 .. n + 21
                 PROVE  t[i] = s[i]
      BY DEF Alike
    <3>1. i \in 1 .. 21 + n /\ i \in 1 .. Len(c) - 2
      BY <2>1
    <3>2. QED
      BY <1>2, <2>2, <3>1
  <2>5. EdpChecksum(t, n) = EdpChecksum(s, n)
    BY <1>1, <2>2, <2>3, <2>4, ChecksumAgrees
  <2>6. QED
    BY <1>1, <2>5 DEF t
<1>20. QED
  BY <1>15, <1>16, <1>18, <1>19 DEF n, checksum
-----------------------------------------------------------------------------
\* How long an encoded frame is, and its first bytes.
LEMMA BodyFacts ==
  ASSUME NEW f \in Frames, NEW key \in Byte
  PROVE  /\ Body(f, key) \in Seq(Byte) /\ 21 + Len(f.payload) <= Len(Body(f, key))
         /\ Len(Body(f, key)) < 37 + Len(f.payload)
         /\ \A i \in 1 .. 15 : Body(f, key)[i] = ClearStruct(f, key)[i]
<1> DEFINE s == ClearStruct(f, key)
           n == Len(f.payload)
           body == Body(f, key)
<1>1. s \in Seq(Byte) /\ Len(s) = 21 + n /\ n \in Nat
  BY ClearStructFacts
<1>2. CASE key = NoKey
  <2>1. body = s
    BY <1>2, BodyInTheClear
  <2>2. QED
    BY <1>1, <2>1
<1>3. CASE key # NoKey
  <2> DEFINE x == SubSeq(s, 1, 15)
             p == Secret(f, key)
             y == Cipher(p, key)
  <2>1. /\ body = x \o y
        /\ x \in Seq(Byte) /\ Len(x) = 15 /\ p \in Seq(Byte) /\ Len(p) >= 6 + n
        /\ Len(p) < 22 + n /\ \A i \in 1 .. 15 : x[i] = s[i]
    BY <1>3, BodyEncrypted
  <2>2. x \in Seq(Byte) /\ p \in Seq(Byte)
    BY <2>1
  <2>3. y \in Seq(Byte)
    BY <2>2, CipherFacts
  <2>4. Len(y) = Len(p)
    BY <2>2, CipherFacts
  <2> HIDE DEF x, p, y, s, n, body
  <2>5. x \o y \in Seq(Byte) /\ Joins(x \o y, x, y)
    BY <2>2, <2>3, JoinedBytes
  <2>6. body \in Seq(Byte) /\ Joins(body, x, y)
    BY <2>1, <2>5
  <2>7. Len(body) = 15 + Len(p) /\ \A i \in 1 .. 15 : body[i] = x[i]
    BY <2>1, <2>4, <2>6 DEF Joins
  <2>8. Len(p) \in Nat
    BY <2>2, LenProperties
  <2>9. Len(p) >= 6 + n /\ Len(p) < 22 + n /\ \A i \in 1 .. 15 : x[i] = s[i]
    BY <2>1
  <2>10. 21 + n <= Len(body) /\ Len(body) < 37 + n
    <3> DEFINE lp == Len(p)
               lb == Len(body)
    <3>1. lb = 15 + lp /\ lp \in Nat /\ lp >= 6 + n /\ lp < 22 + n
      BY <2>7, <2>8, <2>9
    <3> HIDE DEF lp, lb
    <3>2. 21 + n <= lb /\ lb < 37 + n
      BY <1>1, <3>1
    <3>3. QED
      BY <3>2 DEF lb
  <2>11. \A i \in 1 .. 15 : body[i] = s[i]
    BY <2>7, <2>9
  <2>12. QED
    BY <2>6, <2>10, <2>11 DEF body, s, n
<1>4. QED
  BY <1>2, <1>3

\* An encoded frame, as far as a receiver without a key can see it.
LEMMA EncodedFacts ==
  ASSUME NEW f \in Frames, NEW key \in Byte, Encodable(f, key)
  PROVE  LET frame == Encode(f, key)
             n == Len(f.payload)
         IN /\ frame \in Seq(Byte) /\ Total(frame) = Len(frame) /\ 23 + n <= Len(frame)
            /\ n \in Wide
            /\ frame[3] = Protocol /\ frame[4] = Version /\ frame[5] = FlagOf(f, key)
            /\ IsEncrypted(frame) <=> key # NoKey
<1> DEFINE frame == Encode(f, key)
           n == Len(f.payload)
           body == Body(f, key)
           s == ClearStruct(f, key)
<1>1. s \in Seq(Byte) /\ Layout(s, f, FlagOf(f, key), ChecksumOf(f, key)) /\ n \in Nat
  BY ClearStructFacts
<1>2. s[1] = Protocol /\ s[2] = Version /\ s[3] = FlagOf(f, key)
  BY <1>1 DEF Layout
<1>3. body \in Seq(Byte) /\ 21 + n <= Len(body) /\ \A i \in 1 .. 15 : body[i] = s[i]
  BY BodyFacts
<1>4. /\ frame \in Seq(Byte) /\ Len(frame) = Len(body) + 2 /\ Total(frame) = Len(frame)
      /\ Len(body) \in Wide /\ \A i \in 1 .. Len(body) : frame[i + 2] = body[i]
  BY <1>3, EncodeFacts
<1>5. IsMarked(FlagOf(f, key)) <=> key # NoKey
  BY FlagFacts
<1> HIDE DEF frame, n, body, s
<1>6. n \in Wide /\ 23 + n <= Len(frame) /\ Len(body) \in Nat
  <2>1. n \in Nat /\ 21 + n <= Len(body) /\ Len(frame) = Len(body) + 2 /\ Len(body) \in Wide
    BY <1>1, <1>3, <1>4
  <2>2. QED
    BY <2>1, SMT DEF Wide
<1>7. frame[3] = s[1] /\ frame[4] = s[2] /\ frame[5] = s[3]
  <2>1. 15 <= Len(body)
    <3>1. n \in Nat /\ Len(body) \in Nat /\ 21 + n <= Len(body)
      BY <1>1, <1>3, <1>6, Zenon
    <3>2. QED
      BY <3>1
  <2>2. \A i \in 1 .. 15 : i \in 1 .. Len(body)
    BY <1>6, <2>1
  <2>3. /\ 1 \in 1 .. 15 /\ 2 \in 1 .. 15 /\ 3 \in 1 .. 15
        /\ 1 + 2 = 3 /\ 2 + 2 = 4 /\ 3 + 2 = 5
    OBVIOUS
  <2>4. frame[1 + 2] = body[1] /\ frame[2 + 2] = body[2] /\ frame[3 + 2] = body[3]
    BY <1>4, <2>2, <2>3, Zenon
  <2>5. body[1] = s[1] /\ body[2] = s[2] /\ body[3] = s[3]
    BY <1>3, <2>3, Zenon
  <2>6. QED
    BY <2>3, <2>4, <2>5
<1>8. QED
  BY <1>2, <1>4, <1>5, <1>6, <1>7 DEF IsEncrypted, frame, n

\* The struct is where a receiver looks for it: in the clear,
LEMMA CarriesInTheClear ==
  ASSUME NEW f \in Frames, Encodable(f, NoKey)
  PROVE  /\ Carries(Encode(f, NoKey), ClearStruct(f, NoKey))
         /\ Len(Encode(f, NoKey)) = 23 + Len(f.payload)
<1> DEFINE s == ClearStruct(f, NoKey)
           body == Body(f, NoKey)
           frame == Encode(f, NoKey)
<1>1. NoKey \in Byte
  BY ByteIs DEF NoKey
<1>2. s \in Seq(Byte) /\ Len(s) = 21 + Len(f.payload) /\ Len(f.payload) \in Nat
  BY <1>1, ClearStructFacts
<1>3. body = s
  BY BodyInTheClear
<1>4. /\ frame \in Seq(Byte) /\ Len(frame) = Len(body) + 2
      /\ \A i \in 1 .. Len(body) : frame[i + 2] = body[i]
  BY <1>1, <1>2, <1>3, EncodeFacts
<1> HIDE DEF s, body, frame
<1>5. QED
  BY <1>2, <1>3, <1>4 DEF Carries, s, frame

\* ... and deciphered.
LEMMA CarriesEncrypted ==
  ASSUME NEW f \in Frames, NEW key \in Byte, key # NoKey, Encodable(f, key)
  PROVE  LET frame == Encode(f, key)
         IN /\ Carries(SubSeq(frame, 1, 17) \o Decipher(Tail17(frame), key), ClearStruct(f, key))
            /\ Len(Tail17(frame)) % 16 = 0
            /\ Len(SubSeq(frame, 1, 17) \o Decipher(Tail17(frame), key)) = Len(frame)
<1> DEFINE s == ClearStruct(f, key)
           n == Len(f.payload)
           body == Body(f, key)
           frame == Encode(f, key)
           x == SubSeq(s, 1, 15)
           p == Secret(f, key)
           y == Cipher(p, key)
           front == SubSeq(frame, 1, 17)
           back == Tail17(frame)
           c == front \o p
<1>1. s \in Seq(Byte) /\ Len(s) = 21 + n /\ n \in Nat
  BY ClearStructFacts
<1>0. body = x \o y
  BY BodyEncrypted
<1>2. /\ x \in Seq(Byte) /\ Len(x) = 15 /\ p \in Seq(Byte) /\ Len(p) % 16 = 0 /\ Len(p) >= 6 + n
      /\ \A i \in 1 .. 15 : x[i] = s[i]
      /\ \A i \in 1 .. 6 + n : p[i] = s[15 + i]
  BY BodyEncrypted
<1>3. x \in Seq(Byte) /\ p \in Seq(Byte)
  BY <1>2
<1>4. y \in Seq(Byte)
  BY <1>3, CipherFacts
<1>5. Len(y) = Len(p) /\ Decipher(y, key) = p
  BY <1>3, CipherFacts
<1>6. body \in Seq(Byte)
  BY BodyFacts
<1>7. /\ frame \in Seq(Byte) /\ Len(frame) = Len(body) + 2 /\ Total(frame) = Len(frame)
      /\ \A i \in 1 .. Len(body) : frame[i + 2] = body[i]
  BY <1>6, EncodeFacts
<1>8. back = SubSeq(frame, 18, Len(frame))
  BY <1>7 DEF Tail17, ClearLen
<1> HIDE DEF x, p, y, s, n, body, frame
<1>9. x \o y \in Seq(Byte) /\ Joins(x \o y, x, y)
  BY <1>3, <1>4, JoinedBytes
<1>10. Joins(body, x, y)
  BY <1>0, <1>9
<1>11. /\ Len(p) \in Nat /\ Len(body) = 15 + Len(p)
       /\ \A i \in 1 .. 15 : body[i] = x[i]
       /\ \A i \in 1 .. Len(p) : body[15 + i] = y[i]
  BY <1>2, <1>5, <1>10, LenProperties DEF Joins
<1>12. Len(frame) = 17 + Len(p)
  BY <1>7, <1>11
<1>13. front \in Seq(Byte) /\ Len(front) = 17 /\ \A i \in 1 .. 17 : front[i] = frame[i]
  <2>1. 1 \in Nat \ {0} /\ 17 \in Nat /\ 1 <= 17 + 1 /\ 17 <= Len(frame)
    BY <1>11, <1>12
  <2>2. /\ front \in Seq(Byte) /\ Len(front) = 17 - 1 + 1
        /\ \A i \in 1 .. 17 - 1 + 1 : front[i] = frame[1 + i - 1]
    BY <1>7, <2>1, PartFacts
  <2>3. QED
    BY <2>2
<1>14. back \in Seq(Byte) /\ Len(back) = Len(p) /\ \A i \in 1 .. Len(p) : back[i] = frame[17 + i]
  <2> DEFINE k == Len(frame)
  <2>1. 18 \in Nat \ {0} /\ k \in Nat /\ 18 <= k + 1 /\ k <= Len(frame)
    BY <1>11, <1>12
  <2>2. frame \in Seq(Byte) /\ back = SubSeq(frame, 18, k)
    BY <1>7, <1>8
  <2> HIDE DEF k
  <2>3. /\ back \in Seq(Byte) /\ Len(back) = k - 18 + 1
        /\ \A i \in 1 .. k - 18 + 1 : back[i] = frame[18 + i - 1]
    BY <2>1, <2>2, PartFacts
  <2>4. k - 18 + 1 = Len(p) /\ \A i \in 1 .. Len(p) : 18 + i - 1 = 17 + i
    BY <1>11, <1>12 DEF k
  <2>5. QED
    BY <2>3, <2>4
<1> HIDE DEF back, front
<1>15. back = y
  <2>1. ASSUME NEW i \in 1 .. Len(p)
        PROVE  back[i] = y[i]
    <3>1. 15 + i \in 1 .. Len(body) /\ (15 + i) + 2 = 17 + i
      BY <1>11
    <3>2. frame[(15 + i) + 2] = body[15 + i] /\ body[15 + i] = y[i]
      BY <1>7, <1>11, <3>1
    <3>3. QED
      BY <1>14, <3>1, <3>2
  <2>2. QED
    BY <1>4, <1>5, <1>14, <2>1, SeqEqual
<1>16. Decipher(back, key) = p
  BY <1>5, <1>15
<1>17. c \in Seq(Byte) /\ Joins(c, front, p)
  <2>1. front \in Seq(Byte)
    BY <1>13
  <2>2. QED
    BY <1>3, <2>1, JoinedBytes
<1> HIDE DEF c
<1>18. /\ Len(c) = 17 + Len(p)
       /\ \A i \in 1 .. 17 : c[i] = front[i]
       /\ \A i \in 1 .. Len(p) : c[17 + i] = p[i]
  BY <1>13, <1>17 DEF Joins
<1>19. ASSUME NEW i \in 1 .. 21 + n
       PROVE  c[i + 2] = s[i]
  <2>1. CASE i <= 15
    <3>1. i + 2 \in 1 .. 17 /\ i \in 1 .. 15 /\ i \in 1 .. Len(body)
      <4>1. Len(p) \in Nat /\ Len(body) = 15 + Len(p)
        BY <1>11
      <4>2. QED
        BY <2>1, <4>1
    <3>2. c[i + 2] = frame[i + 2] /\ frame[i + 2] = body[i] /\ body[i] = s[i]
      BY <1>2, <1>7, <1>11, <1>13, <1>18, <3>1
    <3>3. QED
      BY <3>2
  <2>2. CASE i > 15
    <3>1. /\ i - 15 \in 1 .. 6 + n /\ i - 15 \in 1 .. Len(p)
          /\ 17 + (i - 15) = i + 2 /\ 15 + (i - 15) = i
      <4>1. n \in Nat /\ Len(p) \in Nat /\ Len(p) >= 6 + n
        BY <1>1, <1>2, <1>11
      <4>2. QED
        BY <2>2, <4>1
    <3>2. c[17 + (i - 15)] = p[i - 15] /\ p[i - 15] = s[15 + (i - 15)]
      BY <1>2, <1>18, <3>1
    <3>3. QED
      BY <3>1, <3>2
  <2>3. QED
    BY <1>1, <2>1, <2>2
<1>20. Carries(c, s)
  <2>1. Len(s) + 2 <= Len(c)
    <3>1. /\ Len(s) = 21 + n /\ n \in Nat /\ Len(p) \in Nat /\ Len(p) >= 6 + n
          /\ Len(c) = 17 + Len(p)
      BY <1>1, <1>2, <1>11, <1>18
    <3>2. QED
      BY <3>1
  <2>2. QED
    BY <1>1, <1>17, <1>19, <2>1 DEF Carries
<1>21. c = front \o Decipher(back, key)
  BY <1>16 DEF c
<1>22. QED
  BY <1>2, <1>12, <1>14, <1>18, <1>20, <1>21 DEF front, back, s, frame
-----------------------------------------------------------------------------
(***************************************************************************)
(* A frame is decoded to itself by a receiver that has the key it was      *)
(* encrypted with, or any if it was not: whatever its fields, its payload  *)
(* and the padding behind it (Frame.encode, Frame.decode).                 *)
(***************************************************************************)
THEOREM RoundTrip ==
  ASSUME NEW f \in Frames, NEW key \in Byte, Encodable(f, key),
         NEW recv \in Byte, key = NoKey \/ recv = key
  PROVE  Fate(Encode(f, key), recv) = "decoded" /\ Decode(Encode(f, key), recv) = f
<1> DEFINE frame == Encode(f, key)
           n == Len(f.payload)
           s == ClearStruct(f, key)
           c == Clear(frame, recv)
<1>1. /\ frame \in Seq(Byte) /\ Total(frame) = Len(frame) /\ 23 + n <= Len(frame)
      /\ n \in Wide /\ frame[3] = Protocol /\ frame[4] = Version
      /\ IsEncrypted(frame) <=> key # NoKey
  BY EncodedFacts
<1>2. /\ Carries(c, s)
      /\ IsEncrypted(frame) => recv # NoKey /\ Len(Tail17(frame)) % 16 = 0
  <2>1. CASE key = NoKey
    <3>1. c = frame
      BY <1>1, <2>1 DEF Clear
    <3>2. QED
      BY <1>1, <2>1, <3>1, CarriesInTheClear
  <2>2. CASE key # NoKey
    <3>1. c = SubSeq(frame, 1, 17) \o Decipher(Tail17(frame), key)
      BY <1>1, <2>2 DEF Clear, ClearLen
    <3>2. /\ Carries(SubSeq(frame, 1, 17) \o Decipher(Tail17(frame), key), s)
          /\ Len(Tail17(frame)) % 16 = 0
      BY <2>2, CarriesEncrypted
    <3>3. QED
      BY <2>2, <3>1, <3>2
  <2>3. QED
    BY <2>1, <2>2
<1>3. /\ Dlen(c) = n /\ FrameAt(c) = f
      /\ EdpChecksum(Tail(Tail(c)), Dlen(c)) = Word(c, 20)
  BY <1>1, <1>2, ReadBack
<1>4. Decode(frame, recv) = f
  BY <1>3 DEF Decode, FrameAt
<1>5. n \in Nat /\ Len(frame) \in Nat /\ 23 + n <= Len(frame)
  BY <1>1, LenProperties DEF Wide
<1>6. /\ ~ (Len(frame) < HeaderLen) /\ ~ (Len(frame) < Total(frame)) /\ ~ (HeaderLen + Dlen(c) > Total(frame))
  <2>1. HeaderLen = 23 /\ Total(frame) = Len(frame) /\ Dlen(c) = n
    BY <1>1, <1>3 DEF HeaderLen
  <2> HIDE DEF n, c, frame
  <2>2. QED
    BY <1>5, <2>1
<1>7. Fate(frame, recv) = "decoded"
  BY <1>1, <1>2, <1>3, <1>6, Zenon DEF Fate, BlockSize
<1>8. QED
  BY <1>4, <1>7

(***************************************************************************)
(* A receiver without a key does not take an encrypted frame.              *)
(***************************************************************************)
THEOREM KeyIsNeeded ==
  ASSUME NEW f \in Frames, NEW key \in Byte, Encodable(f, key), key # NoKey
  PROVE  Fate(Encode(f, key), NoKey) = "noKey"
<1> DEFINE frame == Encode(f, key)
           n == Len(f.payload)
<1>1. /\ frame \in Seq(Byte) /\ Total(frame) = Len(frame) /\ 23 + n <= Len(frame)
      /\ n \in Wide /\ frame[3] = Protocol /\ frame[4] = Version
      /\ IsEncrypted(frame)
  BY EncodedFacts
<1>2. n \in Nat /\ Len(frame) \in Nat /\ 23 + n <= Len(frame) /\ Total(frame) = Len(frame)
  BY <1>1, LenProperties DEF Wide
<1> HIDE DEF n, frame
<1>3. ~ (Len(frame) < HeaderLen) /\ ~ (Len(frame) < Total(frame))
  BY <1>2 DEF HeaderLen
<1>4. QED
  BY <1>1, <1>3, Zenon DEF Fate, frame

-----------------------------------------------------------------------------
\* What it takes for a frame to be decoded.
LEMMA DecodedMeans ==
  ASSUME NEW frame, NEW key, Fate(frame, key) = "decoded"
  PROVE  /\ ~ (Len(frame) < 23) /\ ~ (Len(frame) < Total(frame))
         /\ frame[3] = Protocol /\ frame[4] = Version
         /\ ~ (IsEncrypted(frame) /\ key = NoKey)
         /\ ~ (23 + Dlen(Clear(frame, key)) > Total(frame))
         /\ EdpChecksum(Tail(Tail(Clear(frame, key))), Dlen(Clear(frame, key))) = Word(Clear(frame, key), 20)
BY DEF Fate, HeaderLen

\* A payload is made of bytes, whatever was received.
LEMMA PayloadType ==
  ASSUME NEW frame \in Seq(Byte), NEW key \in Byte, 23 <= Total(frame), Fate(frame, key) = "decoded"
  PROVE  Decode(frame, key).payload \in Seq(Byte)
<1> DEFINE total == Total(frame)
           c == Clear(frame, key)
<1>0. Len(frame) \in Nat /\ \A i \in 1 .. Len(frame) : frame[i] \in Byte
  BY LenProperties, ElementOfSeq
<1>1. ~ (Len(frame) < 23) /\ ~ (Len(frame) < total) /\ ~ (23 + Dlen(c) > total)
  BY DecodedMeans
<1>2. total \in Nat
  <2>1. frame[1] \in Nat /\ frame[2] \in Nat
    BY <1>0, <1>1, ByteIs
  <2>2. QED
    BY <2>1 DEF Total, Word
<1>3. c \in Seq(Byte) /\ total <= Len(c)
  <2>1. CASE IsEncrypted(frame)
    <3> DEFINE x == SubSeq(frame, 1, 17)
               y == SubSeq(frame, 18, total)
               z == Decipher(y, key)
    <3>1. x \in Seq(Byte) /\ Len(x) = 17 - 1 + 1
      <4>1. 1 \in Nat \ {0} /\ 17 \in Nat /\ 1 <= 17 + 1 /\ 17 <= Len(frame)
        BY <1>0, <1>1
      <4>2. QED
        BY <4>1, PartFacts
    <3>2. y \in Seq(Byte) /\ Len(y) = total - 18 + 1
      <4>1. 18 \in Nat \ {0} /\ 18 <= total + 1 /\ total <= Len(frame)
        BY <1>0, <1>1, <1>2
      <4> HIDE DEF total
      <4>2. QED
        BY <1>2, <4>1, PartFacts
    <3> HIDE DEF x, y
    <3>3. z \in Seq(Byte) /\ Len(z) = Len(y)
      <4>1. DOMAIN y = 1 .. Len(y) /\ Len(y) \in Nat /\ \A i \in 1 .. Len(y) : y[i] \in Nat
        <5>1. y \in Seq(Byte)
          BY <3>2
        <5>2. DOMAIN y = 1 .. Len(y) /\ Len(y) \in Nat /\ \A i \in 1 .. Len(y) : y[i] \in Byte
          BY <5>1, ElementOfSeq, LenProperties
        <5>3. QED
          BY <5>2, ByteIs
      <4>2. key \in Nat
        BY ByteIs
      <4>3. \A i \in 1 .. Len(y) : (y[i] - key) % 256 \in Byte
        <5>1. \A u, k \in Nat : (u - k) % 256 \in Nat /\ (u - k) % 256 < 256
          OBVIOUS
        <5>2. QED
          BY <4>1, <4>2, <5>1, ByteIs, ZenonT(40)
      <4>4. z = [i \in 1 .. Len(y) |-> (y[i] - key) % 256]
        BY <4>1 DEF Decipher
      <4> HIDE DEF z
      <4>5. z \in [1 .. Len(y) -> Byte]
        BY <4>3, <4>4
      <4>6. QED
        BY <4>1, <4>5, FunctionIsSeq
    <3>4. c = x \o z
      BY <2>1 DEF Clear, Tail17, ClearLen, x, y
    <3> HIDE DEF z
    <3>5. x \in Seq(Byte) /\ z \in Seq(Byte)
      BY <3>1, <3>3
    <3>6. x \o z \in Seq(Byte) /\ Joins(x \o z, x, z)
      BY <3>5, JoinedBytes
    <3>7. c \in Seq(Byte) /\ Joins(c, x, z)
      BY <3>4, <3>6
    <3> HIDE DEF c, total
    <3>8. Len(c) = total
      BY <1>2, <3>1, <3>2, <3>3, <3>7 DEF Joins
    <3>9. QED
      BY <1>2, <3>7, <3>8
  <2>2. CASE ~ IsEncrypted(frame)
    <3>1. c = frame
      BY <2>2 DEF Clear
    <3>2. QED
      BY <1>0, <1>1, <1>2, <3>1
  <2>3. QED
    BY <2>1, <2>2
<1>4. Dlen(c) \in Nat
  <2>1. Len(c) \in Nat
    BY <1>3, LenProperties
  <2>2. 22 \in 1 .. Len(c) /\ 23 \in 1 .. Len(c)
    BY <1>2, <1>3, <2>1
  <2>3. c[22] \in Byte /\ c[23] \in Byte
    BY <1>3, <2>2, ElementOfSeq
  <2> HIDE DEF c
  <2>4. c[22] \in Nat /\ c[23] \in Nat /\ 22 + 1 = 23
    BY <2>3, ByteIs
  <2>5. QED
    BY <2>4 DEF Dlen, Word
<1>5. SubSeq(c, 24, 23 + Dlen(c)) \in Seq(Byte)
  <2> DEFINE d == Dlen(c)
             m == 23 + d
  <2>1. Len(c) \in Nat /\ d \in Nat /\ ~ (23 + d > total) /\ total <= Len(c)
    BY <1>1, <1>3, <1>4, LenProperties
  <2> HIDE DEF c, total, d
  <2>2. 24 \in Nat \ {0} /\ m \in Nat /\ 24 <= m + 1 /\ m <= Len(c)
    BY <1>2, <2>1
  <2> HIDE DEF m
  <2>3. SubSeq(c, 24, m) \in Seq(Byte)
    BY <1>3, <2>2, PartFacts
  <2>4. QED
    BY <2>3 DEF m, d
<1>6. HeaderLen + 1 = 24 /\ HeaderLen = 23
  BY DEF HeaderLen
<1>7. QED
  BY <1>5, <1>6 DEF Decode

-----------------------------------------------------------------------------
\* A buffer is another one with one byte changed.
Spoilt(frame, good, i) ==
  /\ frame \in Seq(Byte) /\ Len(frame) = Len(good)
  /\ i \in 1 .. Len(good) /\ frame[i] # good[i]
  /\ \A j \in 1 .. Len(good) : j # i => frame[j] = good[j]

(***************************************************************************)
(* A frame in the clear with one byte changed is not decoded, unless the   *)
(* byte is of dlen, or the flags and the receiver has a key.               *)
(***************************************************************************)
THEOREM DamagedFrame ==
  ASSUME NEW f \in Frames, Encodable(f, NoKey), NEW recv \in Byte,
         NEW frame, NEW i, Spoilt(frame, Encode(f, NoKey), i),
         i \notin {22, 23}, i = 5 => recv = NoKey
  PROVE  Fate(frame, recv) # "decoded"
<1> DEFINE good == Encode(f, NoKey)
           n == Len(f.payload)
           s == ClearStruct(f, NoKey)
<1>1. SUFFICES ASSUME Fate(frame, recv) = "decoded"
               PROVE  FALSE
  OBVIOUS
<1>0. NoKey \in Byte
  BY ByteIs DEF NoKey
<1>2. /\ good \in Seq(Byte) /\ Total(good) = Len(good) /\ n \in Wide
      /\ good[3] = Protocol /\ good[4] = Version /\ ~ IsEncrypted(good)
  BY <1>0, EncodedFacts
<1>3. Carries(good, s) /\ Len(good) = 23 + n
  BY CarriesInTheClear
<1>4. /\ Dlen(good) = n /\ EdpChecksum(Tail(Tail(good)), n) = Word(good, 20)
  <2>1. /\ Dlen(good) = n /\ EdpChecksum(Tail(Tail(good)), Dlen(good)) = ChecksumOf(f, NoKey)
        /\ Word(good, 20) = ChecksumOf(f, NoKey)
    BY <1>0, <1>2, <1>3, ReadBack
  <2>2. QED
    BY <2>1
<1>5. n \in Nat
  BY <1>2 DEF Wide
<1>6. /\ frame \in Seq(Byte) /\ Len(frame) = 23 + n /\ i \in 1 .. 23 + n /\ frame[i] # good[i]
      /\ \A j \in 1 .. 23 + n : j # i => frame[j] = good[j]
  BY <1>3 DEF Spoilt
<1>7. /\ ~ (Len(frame) < Total(frame))
      /\ frame[3] = Protocol /\ frame[4] = Version
      /\ ~ (IsEncrypted(frame) /\ recv = NoKey)
      /\ ~ (23 + Dlen(Clear(frame, recv)) > Total(frame))
      /\ EdpChecksum(Tail(Tail(Clear(frame, recv))), Dlen(Clear(frame, recv)))
           = Word(Clear(frame, recv), 20)
  BY <1>1, DecodedMeans
<1> HIDE DEF good, n, s
<1>8. ~ IsEncrypted(frame)
  <2>1. CASE i = 5
    BY <1>7, <2>1
  <2>2. CASE i # 5
    <3>1. 5 \in 1 .. 23 + n
      BY <1>5
    <3>2. frame[5] = good[5]
      BY <1>6, <2>2, <3>1
    <3>3. QED
      BY <1>2, <3>2 DEF IsEncrypted
  <2>3. QED
    BY <2>1, <2>2
<1>9. Clear(frame, recv) = frame
  BY <1>8 DEF Clear
<1>10. Dlen(frame) = n
  <2>1. 22 \in 1 .. 23 + n /\ 23 \in 1 .. 23 + n /\ 22 # i /\ 23 # i
    BY <1>5
  <2>2. frame[22] = good[22] /\ frame[23] = good[23]
    BY <1>6, <2>1
  <2>3. QED
    BY <1>4, <2>2 DEF Dlen, Word
<1>11. ~ (23 + n < Total(frame)) /\ ~ (23 + n > Total(frame))
  BY <1>6, <1>7, <1>9, <1>10
<1>12. \A j \in 1 .. 23 + n : frame[j] \in Nat /\ good[j] \in Nat
  <2>1. \A j \in 1 .. 23 + n : frame[j] \in Byte
    BY <1>6, ElementOfSeq
  <2>2. \A j \in 1 .. 23 + n : good[j] \in Byte
    BY <1>2, <1>3, ElementOfSeq DEF good, n
  <2>3. QED
    BY <2>1, <2>2, ByteIs
<1>13. i \notin {1, 2}
  <2>1. 1 \in 1 .. 23 + n /\ 2 \in 1 .. 23 + n
    BY <1>5
  <2>2. frame[1] \in Nat /\ frame[2] \in Nat /\ good[1] \in Nat /\ good[2] \in Nat
    BY <1>12, <2>1
  <2>3. Total(good) = 23 + n
    BY <1>2, <1>3 DEF good, n
  <2>4. frame[1] + 256 * frame[2] = good[1] + 256 * good[2]
    BY <1>5, <1>11, <2>2, <2>3 DEF Total, Word
  <2>5. (i # 1 => frame[1] = good[1]) /\ (i # 2 => frame[2] = good[2])
    BY <1>6, <2>1
  <2>6. frame[1] = good[1] /\ frame[2] = good[2]
    BY <2>2, <2>4, <2>5
  <2>7. QED
    BY <1>6, <2>6
<1>14. i \notin {3, 4}
  BY <1>2, <1>6, <1>7
<1> DEFINE t == Tail(Tail(frame))
           u == Tail(Tail(good))
<1>15. t \in Seq(Byte) /\ Len(t) = 21 + n /\ \A j \in 1 .. 21 + n : t[j] = frame[j + 2]
  <2>1. 2 <= Len(frame) /\ Len(frame) - 2 = 21 + n
    BY <1>5, <1>6
  <2>2. /\ t \in Seq(Byte) /\ Len(t) = Len(frame) - 2
        /\ \A j \in 1 .. Len(frame) - 2 : t[j] = frame[j + 2]
    BY <1>6, <2>1, TailTail
  <2>3. QED
    BY <2>1, <2>2
<1>16. u \in Seq(Byte) /\ Len(u) = 21 + n /\ \A j \in 1 .. 21 + n : u[j] = good[j + 2]
  <2>1. 2 <= Len(good) /\ Len(good) - 2 = 21 + n /\ good \in Seq(Byte)
    BY <1>2, <1>3, <1>5 DEF good, n
  <2>2. /\ u \in Seq(Byte) /\ Len(u) = Len(good) - 2
        /\ \A j \in 1 .. Len(good) - 2 : u[j] = good[j + 2]
    BY <2>1, TailTail
  <2>3. QED
    BY <2>1, <2>2
<1>17. EdpChecksum(t, n) = Word(frame, 20)
  BY <1>7, <1>9, <1>10
<1>18. EdpChecksum(u, n) = Word(good, 20)
  BY <1>4
<1> HIDE DEF t, u
<1>19. n + 21 <= Len(t) /\ n + 21 <= Len(u)
  BY <1>5, <1>15, <1>16
<1>20. CASE i \in {20, 21}
  <2>1. Alike(t, u, n)
    <3> SUFFICES ASSUME NEW j \in 1 .. n + 21, j \notin {18, 19}
                 PROVE  t[j] = u[j]
      BY DEF Alike
    <3>1. j \in 1 .. 21 + n /\ j + 2 \in 1 .. 23 + n /\ j + 2 # i
      BY <1>5, <1>20
    <3>2. QED
      BY <1>6, <1>15, <1>16, <3>1
  <2>2. EdpChecksum(t, n) = EdpChecksum(u, n)
    BY <1>5, <1>15, <1>16, <1>19, <2>1, ChecksumAgrees
  <2>3. 20 \in 1 .. 23 + n /\ 21 \in 1 .. 23 + n
    BY <1>5
  <2>4. frame[20] \in Nat /\ frame[21] \in Nat /\ good[20] \in Nat /\ good[21] \in Nat
    BY <1>12, <2>3
  <2>5. frame[20] + 256 * frame[21] = good[20] + 256 * good[21]
    BY <1>17, <1>18, <2>2 DEF Word
  <2>6. (i # 20 => frame[20] = good[20]) /\ (i # 21 => frame[21] = good[21])
    BY <1>6, <2>3
  <2>7. frame[20] = good[20] /\ frame[21] = good[21]
    BY <2>4, <2>5, <2>6
  <2>8. QED
    BY <1>6, <1>20, <2>7
<1>21. CASE i \notin {20, 21}
  <2> DEFINE p == i - 2
  <2>1. /\ p \in 1 .. n + 21 /\ p \notin {18, 19} /\ p + 2 = i
        /\ p \in 1 .. 21 + n
    BY <1>5, <1>6, <1>13, <1>21
  <2>2. t[p] # u[p]
    BY <1>6, <1>15, <1>16, <2>1
  <2>3. \A j \in 1 .. n + 21 : j # p => t[j] = u[j]
    <3> SUFFICES ASSUME NEW j \in 1 .. n + 21, j # p
                 PROVE  t[j] = u[j]
      OBVIOUS
    <3>1. j \in 1 .. 21 + n /\ j + 2 \in 1 .. 23 + n /\ j + 2 # i
      BY <1>5, <1>6
    <3>2. QED
      BY <1>6, <1>15, <1>16, <3>1
  <2> HIDE DEF p
  <2>4. EdpChecksum(t, n) # EdpChecksum(u, n)
    BY <1>5, <1>15, <1>16, <1>19, <2>1, <2>2, <2>3, ChecksumTells
  <2>5. 20 \in 1 .. 23 + n /\ 21 \in 1 .. 23 + n /\ 20 + 1 = 21
    BY <1>5
  <2>6. frame[20] = good[20] /\ frame[21] = good[21]
    BY <1>6, <1>21, <2>5
  <2>7. Word(frame, 20) = Word(good, 20)
    BY <2>5, <2>6 DEF Word
  <2>8. QED
    BY <1>17, <1>18, <2>4, <2>7
<1>22. QED
  BY <1>20, <1>21
-----------------------------------------------------------------------------
(***************************************************************************)
(* Text: what is done to each character or byte of a sequence.             *)
(***************************************************************************)

\* Joining one sequence.
LEMMA FlattenOne ==
  ASSUME NEW T, NEW e \in Seq(T)
  PROVE  FlattenSeq(<<e>>) = e
<1>1. <<>> \in Seq(Seq(T)) /\ Append(<<>>, e) = <<e>>
  BY EmptySeq
<1>2. FlattenSeq(Append(<<>>, e)) = FlattenSeq(<<>>) \o e
  BY <1>1, FlattenAppend
<1>3. <<>> \o e = e
  BY ConcatEmptySeq
<1>4. QED
  BY <1>1, <1>2, <1>3, FlattenEmpty

\* A pair is two sequences of one.
LEMMA PairIs ==
  ASSUME NEW T, NEW p \in T, NEW q \in T
  PROVE  <<p>> \o <<q>> = <<p, q>>
<1> DEFINE z == <<p>> \o <<q>>
           w == <<p, q>>
<1>1. <<p>> \in Seq(T) /\ <<q>> \in Seq(T) /\ w \in Seq(T)
  OBVIOUS
<1>2. /\ z \in Seq(T) /\ Len(z) = Len(<<p>>) + Len(<<q>>)
      /\ \A i \in 1 .. Len(<<p>>) : z[i] = <<p>>[i]
      /\ \A i \in 1 .. Len(<<q>>) : z[Len(<<p>>) + i] = <<q>>[i]
  BY <1>1, Joined
<1>3. Len(<<p>>) = 1 /\ Len(<<q>>) = 1 /\ <<p>>[1] = p /\ <<q>>[1] = q /\ 1 \in 1 .. 1 /\ Len(w) = 2 /\ w[1] = p /\ w[2] = q
  OBVIOUS
<1> DEFINE a == <<p>>
           b == <<q>>
<1>7. /\ Len(z) = Len(a) + Len(b) /\ Len(a) = 1 /\ Len(b) = 1 /\ a[1] = p /\ b[1] = q
      /\ \A i \in 1 .. Len(a) : z[i] = a[i]
      /\ \A i \in 1 .. Len(b) : z[Len(a) + i] = b[i]
  BY <1>2, <1>3
<1> HIDE DEF a, b, z, w
<1>4. z[1] = p /\ z[2] = q /\ Len(z) = 2
  BY <1>7
<1>5. \A i \in 1 .. Len(z) : z[i] = w[i]
  BY <1>3, <1>4
<1>6. z = w
  BY <1>1, <1>2, <1>3, <1>4, <1>5, SeqEqual
<1>8. QED
  BY <1>6 DEF z, w

\* What a sequence becomes when each of its elements is replaced by a sequence.
Each(g, x) == [i \in DOMAIN x |-> g[x[i]]]
Spread(g, x) == FlattenSeq(Each(g, x))

Laid(m, g, x, T) ==
  m \in Seq(Seq(T)) /\ Len(m) = Len(x) /\ \A i \in 1 .. Len(x) : m[i] = g[x[i]]

\* Each lays a sequence for each element.
LEMMA EachFacts ==
  ASSUME NEW A, NEW T, NEW g \in [A -> Seq(T)], NEW x \in Seq(A)
  PROVE  Laid(Each(g, x), g, x, T)
<1> DEFINE m == Each(g, x)
<1>1. Len(x) \in Nat /\ DOMAIN x = 1 .. Len(x)
  BY LenProperties
<1>2. m = [i \in 1 .. Len(x) |-> g[x[i]]]
  BY <1>1 DEF Each
<1>3. \A i \in 1 .. Len(x) : g[x[i]] \in Seq(T)
  BY ElementOfSeq
<1> HIDE DEF m
<1>4. m \in [1 .. Len(x) -> Seq(T)]
  BY <1>2, <1>3
<1>5. m \in Seq(Seq(T)) /\ Len(m) = Len(x)
  BY <1>1, <1>4, FunctionIsSeq
<1>6. QED
  BY <1>2, <1>5 DEF m, Laid

\* Spread: its type, and that of one, none, two parts and one more element.
LEMMA SpreadType ==
  ASSUME NEW A, NEW T, NEW g \in [A -> Seq(T)], NEW x \in Seq(A)
  PROVE  Spread(g, x) \in Seq(T)
<1>1. Each(g, x) \in Seq(Seq(T))
  BY EachFacts DEF Laid
<1>2. QED
  BY <1>1, FlattenType DEF Spread

\* An element alone is spread to its own sequence.
LEMMA SpreadOne ==
  ASSUME NEW A, NEW T, NEW g \in [A -> Seq(T)], NEW e \in A
  PROVE  Spread(g, <<e>>) = g[e]
<1>1. Each(g, <<e>>) = <<g[e]>>
  BY DEF Each
<1>2. QED
  BY <1>1, FlattenOne DEF Spread

\* Nothing is spread to nothing.
LEMMA SpreadEmpty ==
  ASSUME NEW g
  PROVE  Spread(g, <<>>) = <<>>
<1>1. Each(g, <<>>) = <<>>
  BY DEF Each
<1>2. QED
  BY <1>1, FlattenEmpty DEF Spread

\* The two parts of a sequence are spread one after the other.
LEMMA SpreadConcat ==
  ASSUME NEW A, NEW T, NEW g \in [A -> Seq(T)], NEW x \in Seq(A), NEW y \in Seq(A)
  PROVE  Spread(g, x \o y) = Spread(g, x) \o Spread(g, y)
<1> DEFINE z == x \o y
           a == Each(g, x)
           b == Each(g, y)
           c == Each(g, z)
           ab == a \o b
<1>1. /\ z \in Seq(A) /\ Len(z) = Len(x) + Len(y)
      /\ \A i \in 1 .. Len(x) : z[i] = x[i]
      /\ \A i \in 1 .. Len(y) : z[Len(x) + i] = y[i]
  BY Joined
<1> HIDE DEF z
<1>2. Len(x) \in Nat /\ Len(y) \in Nat
  BY LenProperties
<1>0. ASSUME NEW w \in Seq(A)
      PROVE  Laid(Each(g, w), g, w, T)
  BY EachFacts
<1>3. a \in Seq(Seq(T)) /\ b \in Seq(Seq(T)) /\ c \in Seq(Seq(T))
  BY <1>0, <1>1 DEF Laid
<1>4. /\ Len(a) = Len(x) /\ \A i \in 1 .. Len(x) : a[i] = g[x[i]]
      /\ Len(b) = Len(y) /\ \A i \in 1 .. Len(y) : b[i] = g[y[i]]
  BY <1>0 DEF Laid
<1>5. Len(c) = Len(z) /\ \A i \in 1 .. Len(z) : c[i] = g[z[i]]
  BY <1>0, <1>1 DEF Laid
<1> HIDE DEF a, b, c
<1>6. /\ ab \in Seq(Seq(T)) /\ Len(ab) = Len(a) + Len(b)
      /\ \A i \in 1 .. Len(a) : ab[i] = a[i]
      /\ \A i \in 1 .. Len(b) : ab[Len(a) + i] = b[i]
  BY <1>3, Joined
<1> HIDE DEF ab
<1>7. Len(c) = Len(ab) /\ Len(c) = Len(x) + Len(y)
  BY <1>1, <1>4, <1>5, <1>6
<1>8. ASSUME NEW i \in 1 .. Len(c)
      PROVE  c[i] = ab[i]
  <2>1. CASE i <= Len(x)
    <3>1. i \in 1 .. Len(x) /\ i \in 1 .. Len(a) /\ i \in 1 .. Len(z)
      BY <1>2, <1>4, <1>5, <1>7, <2>1
    <3>2. z[i] = x[i]
      BY <1>1, <3>1
    <3>3. QED
      BY <1>4, <1>5, <1>6, <3>1, <3>2
  <2>2. CASE i > Len(x)
    <3> DEFINE j == i - Len(x)
    <3>1. j \in 1 .. Len(y) /\ j \in 1 .. Len(b) /\ i \in 1 .. Len(z) /\ Len(x) + j = i /\ Len(a) + j = i
      BY <1>2, <1>4, <1>5, <1>7, <2>2
    <3> HIDE DEF j
    <3>2. z[Len(x) + j] = y[j] /\ ab[Len(a) + j] = b[j]
      BY <1>1, <1>6, <3>1
    <3>3. QED
      BY <1>4, <1>5, <3>1, <3>2
  <2>3. QED
    BY <1>2, <1>7, <2>1, <2>2
<1>9. c = ab
  BY <1>3, <1>6, <1>7, <1>8, SeqEqual
<1>10. FlattenSeq(ab) = FlattenSeq(a) \o FlattenSeq(b)
  BY <1>3, FlattenConcat DEF ab
<1>11. QED
  BY <1>9, <1>10 DEF z, a, b, c, Spread

\* One more element adds its sequence at the end.
LEMMA SpreadAppend ==
  ASSUME NEW A, NEW T, NEW g \in [A -> Seq(T)], NEW x \in Seq(A), NEW e \in A
  PROVE  Spread(g, Append(x, e)) = Spread(g, x) \o g[e]
<1>1. Append(x, e) = x \o <<e>> /\ <<e>> \in Seq(A)
  BY AppendIsConcat
<1>2. Spread(g, x \o <<e>>) = Spread(g, x) \o Spread(g, <<e>>)
  <2>1. \A y \in Seq(A) : Spread(g, x \o y) = Spread(g, x) \o Spread(g, y)
    BY SpreadConcat, SMTT(30)
  <2>2. QED
    BY <1>1, <2>1
<1>3. Spread(g, <<e>>) = g[e]
  BY SpreadOne
<1>4. QED
  BY <1>1, <1>2, <1>3

\* What holds of <<>> and is kept by Append holds of every sequence.
LEMMA SeqInduction ==
  ASSUME NEW A, NEW Q, <<>> \in Q, \A x \in Seq(A), e \in A : x \in Q => Append(x, e) \in Q
  PROVE  \A x \in Seq(A) : x \in Q
<1> DEFINE All(n) == \A x \in Seq(A) : Len(x) = n => x \in Q
           N == {n \in Nat : All(n)}
<1>1. All(0)
  BY EmptySeq
<1>2. ASSUME NEW n \in Nat, All(n), NEW x \in Seq(A), Len(x) = n + 1
      PROVE  x \in Q
  <2>1. x # <<>>
    BY <1>2, EmptySeq
  <2>2. PICK v \in Seq(A), e \in A : x = Append(v, e)
    BY <2>1, SequenceEmptyOrAppend
  <2>3. Len(v) = n
    <3>1. Len(v) \in Nat /\ Len(x) = Len(v) + 1
      BY <2>2, AppendProperties, LenProperties
    <3>2. QED
      BY <1>2, <3>1
  <2>4. QED
    BY <1>2, <2>2, <2>3
<1>3. 0 \in N
  BY <1>1
<1>4. \A n \in Nat : n \in N => n + 1 \in N
  <2>1. \A n \in Nat : All(n) => All(n + 1)
    BY <1>2
  <2> HIDE DEF All
  <2>2. QED
    BY <2>1
<1>5. \A n \in Nat : n \in N
  <2> HIDE DEF N
  <2>1. QED
    BY <1>3, <1>4, SetInduction
<1>6. QED
  <2>1. \A x \in Seq(A) : Len(x) \in Nat
    BY LenProperties
  <2>2. \A n \in Nat : All(n)
    BY <1>5
  <2>3. QED
    BY <2>1, <2>2

-----------------------------------------------------------------------------
\* Legible with its numbers.
LEMMA LegibleIs ==
  \A c : c \in Legible <=> /\ c \in Nat /\ c < 2048
                           /\ c < 128 \/ c % 64 # 38 \/ c = 166
BY SMT DEF Legible, BrokenBar

\* A character in UTF-8.
Utf8Of(char) == IF char < 128 THEN <<char>> ELSE <<192 + (char \div 64), 128 + (char % 64)>>

\* What Normalised does to a byte.
NormalisedByte == [byte \in Byte |-> IF byte = BrokenBar THEN <<194, 166>> ELSE <<byte>>]

\* Normalised is the Spread of what it does to a byte.
LEMMA NormalisedFacts ==
  /\ NormalisedByte \in [Byte -> Seq(Byte)]
  /\ \A byte \in Byte : NormalisedByte[byte] = IF byte = BrokenBar THEN <<194, 166>> ELSE <<byte>>
  /\ \A bytes \in Seq(Byte) : Normalised(bytes) = Spread(NormalisedByte, bytes)
<1>1. 194 \in Byte /\ 166 \in Byte
  BY ByteIs
<1>2. \A byte \in Byte : NormalisedByte[byte] = IF byte = BrokenBar THEN <<194, 166>> ELSE <<byte>>
  BY DEF NormalisedByte
<1>3. \A byte \in Byte : (IF byte = BrokenBar THEN <<194, 166>> ELSE <<byte>>) \in Seq(Byte)
  BY <1>1
<1>4. ASSUME NEW bytes \in Seq(Byte)
      PROVE  Normalised(bytes) = Spread(NormalisedByte, bytes)
  <2>1. \A i \in DOMAIN bytes : bytes[i] \in Byte
    BY LenProperties, ElementOfSeq
  <2>2. Each(NormalisedByte, bytes)
          = [i \in DOMAIN bytes |-> IF bytes[i] = BrokenBar THEN <<194, 166>> ELSE <<bytes[i]>>]
    BY <1>2, <2>1 DEF Each
  <2>3. QED
    BY <2>2 DEF Spread, Normalised
<1>5. QED
  BY <1>2, <1>3, <1>4 DEF NormalisedByte

\* The two parts of a payload are normalised each on its own.
LEMMA NormalisedConcat ==
  ASSUME NEW x \in Seq(Byte), NEW y \in Seq(Byte)
  PROVE  /\ Normalised(x) \in Seq(Byte)
         /\ Normalised(x \o y) = Normalised(x) \o Normalised(y)
<1>1. x \o y \in Seq(Byte)
  BY ConcatProperties
<1>2. Spread(NormalisedByte, x \o y) = Spread(NormalisedByte, x) \o Spread(NormalisedByte, y)
  <2>1. NormalisedByte \in [Byte -> Seq(Byte)]
    BY NormalisedFacts
  <2>2. QED
    BY <2>1, SpreadConcat, SMTT(30)
<1>3. Spread(NormalisedByte, x) \in Seq(Byte)
  BY NormalisedFacts, SpreadType
<1>4. QED
  BY <1>1, <1>2, <1>3, NormalisedFacts

\* A character, as the panel sends it, becomes UTF-8.
LEMMA SentIsNormalised ==
  ASSUME NEW char \in Legible
  PROVE  /\ Sent(char) \in Seq(Byte) /\ Sent(char) # <<>>
         /\ Normalised(Sent(char)) = Utf8Of(char)
<1>1. /\ char \in Nat /\ char < 2048
      /\ char < 128 \/ char % 64 # 38 \/ char = 166
  BY LegibleIs
<1>2. ASSUME NEW byte \in Byte
      PROVE  Normalised(<<byte>>) = NormalisedByte[byte]
  <2>1. <<byte>> \in Seq(Byte)
    OBVIOUS
  <2>2. Spread(NormalisedByte, <<byte>>) = NormalisedByte[byte]
    BY NormalisedFacts, SpreadOne
  <2>3. QED
    BY <2>1, <2>2, NormalisedFacts
<1>3. CASE char < 128
  <2>1. Sent(char) = <<char>> /\ char \in Byte /\ Utf8Of(char) = <<char>> /\ char # 166
    BY <1>1, <1>3, ByteIs DEF Sent, Utf8Of, BrokenBar
  <2>2. NormalisedByte[char] = <<char>>
    BY <2>1, NormalisedFacts DEF BrokenBar
  <2>3. QED
    BY <1>2, <2>1, <2>2
<1>4. CASE char = 166
  <2>1. 166 \in Byte /\ 192 + (166 \div 64) = 194 /\ 128 + (166 % 64) = 166
    BY ByteIs
  <2>2. Sent(char) = <<166>> /\ Utf8Of(char) = <<194, 166>>
    BY <1>4, <2>1 DEF Sent, Utf8Of, BrokenBar
  <2>3. NormalisedByte[166] = <<194, 166>>
    BY <2>1, NormalisedFacts DEF BrokenBar
  <2>4. QED
    BY <1>2, <2>1, <2>2, <2>3
<1>5. CASE ~ (char < 128) /\ char # 166
  <2> DEFINE p == 192 + (char \div 64)
             q == 128 + (char % 64)
  <2>1. /\ p \in Nat /\ p < 256 /\ p # 166 /\ q \in Nat /\ q < 256 /\ q # 166
    BY <1>1, <1>5
  <2>2. Sent(char) = <<p, q>> /\ Utf8Of(char) = <<p, q>>
    BY <1>1, <1>5 DEF Sent, Utf8Of, BrokenBar
  <2> HIDE DEF p, q
  <2>3. p \in Byte /\ q \in Byte
    BY <2>1, ByteIs
  <2>4. NormalisedByte[p] = <<p>> /\ NormalisedByte[q] = <<q>>
    BY <2>1, <2>3, NormalisedFacts DEF BrokenBar
  <2>5. <<p>> \in Seq(Byte) /\ <<q>> \in Seq(Byte)
    BY <2>3
  <2>10. <<p>> \o <<q>> = <<p, q>>
    BY <2>3, PairIs
  <2>6. Normalised(<<p>> \o <<q>>) = Normalised(<<p>>) \o Normalised(<<q>>)
    BY <2>5, NormalisedConcat
  <2>7. Normalised(<<p>>) = <<p>> /\ Normalised(<<q>>) = <<q>>
    BY <1>2, <2>3, <2>4
  <2>8. Normalised(<<p, q>>) = <<p, q>>
    BY <2>6, <2>7, <2>10
  <2>9. QED
    BY <2>2, <2>3, <2>8
<1>6. QED
  BY <1>1, <1>3, <1>4, <1>5
-----------------------------------------------------------------------------
(***************************************************************************)
(* UTF-8.                                                                  *)
(***************************************************************************)

\* Leads and Follows without intervals.
LEMMA LeadsIs ==
  ASSUME NEW b \in Nat
  PROVE  /\ Leads(b) <=> 194 <= b /\ b <= 223
         /\ Follows(b) <=> 128 <= b /\ b <= 191
BY DEF Leads, Follows

\* What is read at each byte.
CharMap(bytes) == [i \in DOMAIN bytes |-> CharsAt(bytes, i)]

\* What is read at a byte are characters.
LEMMA CharsAtType ==
  ASSUME NEW b \in Seq(Byte), NEW i \in 1 .. Len(b)
  PROVE  CharsAt(b, i) \in Seq(Nat)
<1>1. Len(b) \in Nat /\ b[i] \in Nat /\ (i < Len(b) => b[i + 1] \in Nat)
  <2>1. \A j \in 1 .. Len(b) : b[j] \in Nat
    BY ElementOfSeq, ByteIs
  <2>2. Len(b) \in Nat
    BY LenProperties
  <2>3. QED
    BY <2>1, <2>2
<1>2. <<b[i]>> \in Seq(Nat) /\ <<Replacement>> \in Seq(Nat) /\ <<>> \in Seq(Nat)
  BY <1>1 DEF Replacement
<1>3. ASSUME Leads(b[i]), i < Len(b), Follows(b[i + 1])
      PROVE  <<64 * (b[i] - 192) + b[i + 1] - 128>> \in Seq(Nat)
  <2>1. 64 * (b[i] - 192) + b[i + 1] - 128 \in Nat
    BY <1>1, <1>3, LeadsIs, SMTT(30)
  <2>2. QED
    BY <2>1
<1>4. QED
  BY <1>2, <1>3, ZenonT(40) DEF CharsAt

\* Utf8 joins what is read at each byte.
LEMMA CharMapFacts ==
  ASSUME NEW b \in Seq(Byte)
  PROVE  /\ CharMap(b) \in Seq(Seq(Nat)) /\ Len(CharMap(b)) = Len(b)
         /\ \A i \in 1 .. Len(b) : CharMap(b)[i] = CharsAt(b, i)
         /\ Utf8(b) = FlattenSeq(CharMap(b))
<1> DEFINE m == CharMap(b)
<1>1. Len(b) \in Nat /\ DOMAIN b = 1 .. Len(b)
  BY LenProperties
<1>2. m = [i \in 1 .. Len(b) |-> CharsAt(b, i)]
  BY <1>1 DEF CharMap
<1>3. \A i \in 1 .. Len(b) : CharsAt(b, i) \in Seq(Nat)
  BY CharsAtType
<1>4. Utf8(b) = FlattenSeq(m)
  BY DEF Utf8, CharMap
<1> HIDE DEF m
<1>5. m \in [1 .. Len(b) -> Seq(Nat)]
  BY <1>2, <1>3
<1>6. m \in Seq(Seq(Nat)) /\ Len(m) = Len(b)
  BY <1>1, <1>5, FunctionIsSeq
<1>7. QED
  BY <1>2, <1>4, <1>6 DEF m

\* No character of two bytes is cut in two.
Apart(x, y) == (x = <<>> \/ ~ Leads(x[Len(x)])) /\ (y = <<>> \/ ~ Follows(y[1]))

\* No character reaches across a join that keeps its parts apart.
LEMMA CharsAtJoined ==
  ASSUME NEW x \in Seq(Byte), NEW y \in Seq(Byte), Apart(x, y),
         NEW z \in Seq(Byte), Joins(z, x, y)
  PROVE  /\ \A i \in 1 .. Len(x) : CharsAt(z, i) = CharsAt(x, i)
         /\ \A i \in 1 .. Len(y) : CharsAt(z, Len(x) + i) = CharsAt(y, i)
<1>1. Len(x) \in Nat /\ Len(y) \in Nat /\ Len(z) = Len(x) + Len(y)
  BY LenProperties DEF Joins
<1>2. ASSUME NEW i \in 1 .. Len(x)
      PROVE  CharsAt(z, i) = CharsAt(x, i)
  <2>1. z[i] = x[i] /\ (i > 1 => z[i - 1] = x[i - 1]) /\ (i < Len(x) => z[i + 1] = x[i + 1])
    <3>1. \A j \in 1 .. Len(x) : z[j] = x[j]
      BY DEF Joins
    <3>2. /\ i \in 1 .. Len(x) /\ (i > 1 => i - 1 \in 1 .. Len(x))
          /\ (i < Len(x) => i + 1 \in 1 .. Len(x))
      BY <1>1
    <3>3. QED
      BY <3>1, <3>2, Zenon
  <2>2. CASE i < Len(x)
    <3>1. i < Len(z)
      BY <1>1, <2>2
    <3>2. QED
      BY <2>1, <2>2, <3>1 DEF CharsAt
  <2>3. CASE i = Len(x)
    <3>1. ~ Leads(x[i]) /\ ~ (i < Len(x))
      BY <1>1, <2>3, EmptySeq DEF Apart
    <3>2. QED
      BY <2>1, <3>1 DEF CharsAt
  <2>4. QED
    BY <1>1, <2>2, <2>3
<1>3. ASSUME NEW i \in 1 .. Len(y)
      PROVE  CharsAt(z, Len(x) + i) = CharsAt(y, i)
  <2> DEFINE k == Len(x) + i
  <2>1. /\ k \in Nat /\ (k < Len(z) <=> i < Len(y))
        /\ z[k] = y[i] /\ (i < Len(y) => z[k + 1] = y[i + 1])
    <3>1. z[Len(x) + i] = y[i] /\ (i < Len(y) => z[Len(x) + (i + 1)] = y[i + 1])
      BY <1>1 DEF Joins
    <3>2. Len(x) + (i + 1) = k + 1
      BY <1>1
    <3>3. z[k] = y[i] /\ (i < Len(y) => z[k + 1] = y[i + 1])
      BY <3>1, <3>2
    <3>4. k \in Nat /\ (k < Len(z) <=> i < Len(y))
      BY <1>1
    <3>5. QED
      BY <3>3, <3>4
  <2>2. CASE i > 1
    <3>1. k > 1 /\ z[k - 1] = y[i - 1]
      <4>1. i - 1 \in 1 .. Len(y) /\ Len(x) + (i - 1) = k - 1 /\ k > 1
        BY <1>1, <2>2
      <4>2. z[Len(x) + (i - 1)] = y[i - 1]
        BY <4>1 DEF Joins
      <4>3. QED
        BY <4>1, <4>2
    <3> HIDE DEF k
    <3>2. CharsAt(z, k) = CharsAt(y, i)
      BY <2>1, <2>2, <3>1 DEF CharsAt
    <3>3. QED
      BY <3>2 DEF k
  <2>3. CASE i = 1
    <3>1. ~ Follows(y[i]) /\ ~ (i > 1)
      BY <1>1, <2>3, EmptySeq DEF Apart
    <3> HIDE DEF k
    <3>2. CharsAt(z, k) = CharsAt(y, i)
      BY <2>1, <3>1 DEF CharsAt
    <3>3. QED
      BY <3>2 DEF k
  <2>4. QED
    BY <1>1, <2>2, <2>3
<1>4. QED
  BY <1>2, <1>3

\* So the parts are read each on its own.
LEMMA Utf8Concat ==
  ASSUME NEW x \in Seq(Byte), NEW y \in Seq(Byte), Apart(x, y)
  PROVE  Utf8(x \o y) = Utf8(x) \o Utf8(y)
<1> DEFINE z == x \o y
           a == CharMap(x)
           b == CharMap(y)
           c == CharMap(z)
           ab == a \o b
<1>1. z \in Seq(Byte) /\ Joins(z, x, y)
  BY JoinedBytes
<1> HIDE DEF z
<1>2. Len(x) \in Nat /\ Len(y) \in Nat
  BY LenProperties
<1>3. /\ a \in Seq(Seq(Nat)) /\ Len(a) = Len(x)
      /\ \A i \in 1 .. Len(x) : a[i] = CharsAt(x, i)
      /\ Utf8(x) = FlattenSeq(a)
  BY CharMapFacts
<1>4. /\ b \in Seq(Seq(Nat)) /\ Len(b) = Len(y)
      /\ \A i \in 1 .. Len(y) : b[i] = CharsAt(y, i)
      /\ Utf8(y) = FlattenSeq(b)
  BY CharMapFacts
<1>5. /\ c \in Seq(Seq(Nat)) /\ Len(c) = Len(z)
      /\ \A i \in 1 .. Len(z) : c[i] = CharsAt(z, i)
      /\ Utf8(z) = FlattenSeq(c)
  BY <1>1, CharMapFacts
<1>6. /\ \A i \in 1 .. Len(x) : CharsAt(z, i) = CharsAt(x, i)
      /\ \A i \in 1 .. Len(y) : CharsAt(z, Len(x) + i) = CharsAt(y, i)
  BY <1>1, CharsAtJoined
<1> HIDE DEF a, b, c
<1>7. /\ ab \in Seq(Seq(Nat)) /\ Len(ab) = Len(a) + Len(b)
      /\ \A i \in 1 .. Len(a) : ab[i] = a[i]
      /\ \A i \in 1 .. Len(b) : ab[Len(a) + i] = b[i]
  <2>1. a \in Seq(Seq(Nat)) /\ b \in Seq(Seq(Nat))
    BY <1>3, <1>4
  <2>2. QED
    BY <2>1, Joined
<1> HIDE DEF ab
<1>8. Len(z) = Len(x) + Len(y) /\ Len(c) = Len(x) + Len(y) /\ Len(ab) = Len(x) + Len(y)
  BY <1>1, <1>3, <1>4, <1>5, <1>7 DEF Joins
<1>9. ASSUME NEW i \in 1 .. Len(c)
      PROVE  c[i] = ab[i]
  <2>1. CASE i <= Len(x)
    <3>1. i \in 1 .. Len(x) /\ i \in 1 .. Len(a) /\ i \in 1 .. Len(z)
      BY <1>2, <1>3, <1>8, <2>1
    <3>2. QED
      BY <1>3, <1>5, <1>6, <1>7, <3>1
  <2>2. CASE i > Len(x)
    <3> DEFINE j == i - Len(x)
    <3>1. j \in 1 .. Len(y) /\ j \in 1 .. Len(b) /\ i \in 1 .. Len(z) /\ Len(x) + j = i /\ Len(a) + j = i
      BY <1>2, <1>3, <1>4, <1>8, <2>2
    <3> HIDE DEF j
    <3>2. c[i] = CharsAt(z, i) /\ b[j] = CharsAt(y, j)
      BY <1>4, <1>5, <3>1
    <3>3. CharsAt(z, Len(x) + j) = CharsAt(y, j) /\ ab[Len(a) + j] = b[j]
      BY <1>6, <1>7, <3>1
    <3>4. QED
      BY <3>1, <3>2, <3>3
  <2>3. QED
    BY <1>2, <1>8, <2>1, <2>2
<1>10. c = ab
  <2>1. c \in Seq(Seq(Nat)) /\ ab \in Seq(Seq(Nat)) /\ Len(c) = Len(ab)
    BY <1>5, <1>7, <1>8
  <2>2. QED
    BY <1>9, <2>1, SeqEqual
<1>11. FlattenSeq(ab) = FlattenSeq(a) \o FlattenSeq(b)
  BY <1>3, <1>4, FlattenConcat DEF ab
<1>12. QED
  BY <1>3, <1>4, <1>5, <1>10, <1>11 DEF z

\* Joining two sequences.
LEMMA FlattenTwo ==
  ASSUME NEW T, NEW x \in Seq(T), NEW y \in Seq(T)
  PROVE  FlattenSeq(<<x, y>>) = x \o y
<1> DEFINE s == <<x>>
           t == <<x, y>>
<1>1. s \in Seq(Seq(T)) /\ FlattenSeq(s) = x
  BY FlattenOne
<1>2. Append(s, y) = t
  <2>1. Append(s, y) = s \o <<y>>
    BY <1>1, AppendIsConcat
  <2>2. <<x>> \o <<y>> = <<x, y>>
    BY PairIs
  <2>3. QED
    BY <2>1, <2>2
<1> HIDE DEF s, t
<1>3. FlattenSeq(Append(s, y)) = FlattenSeq(s) \o y
  BY <1>1, FlattenAppend
<1>4. QED
  BY <1>1, <1>2, <1>3 DEF t

\* A character of two bytes is read at the first of them.
LEMMA FlattenHalf ==
  ASSUME NEW e \in Nat
  PROVE  FlattenSeq(<<<<e>>, <<>>>>) = <<e>>
<1> DEFINE x == <<e>>
           y == <<>>
<1>1. x \in Seq(Nat) /\ y \in Seq(Nat)
  OBVIOUS
<1>2. x \o y = x
  BY <1>1, ConcatEmptySeq
<1> HIDE DEF x, y
<1>3. FlattenSeq(<<x, y>>) = x
  BY <1>1, <1>2, FlattenTwo
<1>4. QED
  BY <1>3 DEF x, y

\* A character in UTF-8 is read as itself.
LEMMA Utf8OfFacts ==
  ASSUME NEW char \in Nat, char < 2048
  PROVE  LET u == Utf8Of(char)
         IN /\ u \in Seq(Byte) /\ u # <<>> /\ ~ Follows(u[1]) /\ ~ Leads(u[Len(u)])
            /\ Utf8(u) = <<char>>
<1>1. CASE char < 128
  <2> DEFINE u == <<char>>
  <2>1. char \in Byte /\ ~ Follows(char) /\ ~ Leads(char)
    BY <1>1, ByteIs, LeadsIs
  <2>2. u \in Seq(Byte) /\ u # <<>> /\ Len(u) = 1 /\ u[1] = char /\ DOMAIN u = 1 .. 1
    BY <2>1
  <2>3. Utf8Of(char) = u
    BY <1>1 DEF Utf8Of
  <2>4. CharMap(u) = <<<<char>>>>
    BY <1>1, <2>2 DEF CharMap, CharsAt
  <2>5. FlattenSeq(<<<<char>>>>) = <<char>>
    <3> DEFINE e == <<char>>
    <3>1. e \in Seq(Nat)
      OBVIOUS
    <3> HIDE DEF e
    <3>2. FlattenSeq(<<e>>) = e
      BY <3>1, FlattenOne
    <3>3. QED
      BY <3>2 DEF e
  <2>6. Utf8(u) = FlattenSeq(CharMap(u))
    BY DEF Utf8, CharMap
  <2>7. Utf8(u) = <<char>>
    BY <2>4, <2>5, <2>6
  <2>8. QED
    BY <2>1, <2>2, <2>3, <2>7
<1>2. CASE ~ (char < 128)
  <2> DEFINE p == 192 + (char \div 64)
             q == 128 + (char % 64)
             u == <<p, q>>
  <2>1. p \in Nat /\ q \in Nat /\ 194 <= p /\ p <= 223 /\ 128 <= q /\ q <= 191
    BY <1>2
  <2>2. 64 * (p - 192) + q - 128 = char
    BY <1>2
  <2>3. Utf8Of(char) = u
    BY <1>2 DEF Utf8Of
  <2> HIDE DEF p, q
  <2>4. p \in Byte /\ q \in Byte
    BY <2>1, ByteIs
  <2>5. Leads(p) /\ ~ Follows(p) /\ Follows(q) /\ ~ Leads(q)
    BY <2>1, LeadsIs
  <2>6. u \in Seq(Byte) /\ u # <<>> /\ Len(u) = 2 /\ u[1] = p /\ u[2] = q /\ DOMAIN u = 1 .. 2
    BY <2>4
  <2> HIDE DEF u
  <2>7. CharsAt(u, 1) = <<char>>
    BY <2>1, <2>2, <2>5, <2>6 DEF CharsAt
  <2>8. CharsAt(u, 2) = <<>>
    BY <2>1, <2>5, <2>6 DEF CharsAt
  <2>9. CharMap(u) = <<<<char>>, <<>>>>
    BY <2>6, <2>7, <2>8 DEF CharMap
  <2>10. FlattenSeq(<<<<char>>, <<>>>>) = <<char>>
    BY FlattenHalf
  <2>11. Utf8(u) = FlattenSeq(CharMap(u))
    BY DEF Utf8, CharMap
  <2>14. Utf8(u) = <<char>>
    BY <2>9, <2>10, <2>11
  <2>15. QED
    BY <2>3, <2>5, <2>6, <2>14
<1>3. QED
  BY <1>1, <1>2

-----------------------------------------------------------------------------
\* A text as the panel sends it.
SentChar == [char \in Legible |-> Sent(char)]

\* A legible text is read as it was sent: normalising and decoding undo Sent.
LEMMA TextIsRead ==
  ASSUME NEW text \in Seq(Legible)
  PROVE  LET bytes == Spread(SentChar, text)
         IN bytes \in Seq(Byte) /\ Utf8(Normalised(bytes)) = text
<1> DEFINE Wire(t) == Spread(SentChar, t)
           b(t) == Normalised(Wire(t))
           Good(t) == /\ Wire(t) \in Seq(Byte) /\ b(t) \in Seq(Byte)
                      /\ b(t) = <<>> \/ ~ Leads(b(t)[Len(b(t))])
                      /\ Utf8(b(t)) = t
           Q == {t \in Seq(Legible) : Good(t)}
<1>1. /\ SentChar \in [Legible -> Seq(Byte)]
      /\ \A char \in Legible : SentChar[char] = Sent(char)
  BY SentIsNormalised DEF SentChar
<1>2. Good(<<>>)
  <2>1. Wire(<<>>) = <<>>
    BY SpreadEmpty
  <2>2. <<>> \in Seq(Byte) /\ Spread(NormalisedByte, <<>>) = <<>>
    BY SpreadEmpty, EmptySeq
  <2>3. b(<<>>) = <<>>
    BY <2>1, <2>2, NormalisedFacts
  <2>4. CharMap(<<>>) = <<>>
    BY DEF CharMap
  <2>5. Utf8(<<>>) = <<>>
    BY <2>2, <2>4, CharMapFacts, FlattenEmpty
  <2>6. QED
    BY <2>1, <2>2, <2>3, <2>5
<1>3. ASSUME NEW t \in Seq(Legible), Good(t), NEW char \in Legible
      PROVE  Good(Append(t, char))
  <2> DEFINE w == Wire(t)
             v == b(t)
             u == Utf8Of(char)
  <2>1. Wire(Append(t, char)) = w \o Sent(char)
    BY <1>1, SpreadAppend
  <2>2. Sent(char) \in Seq(Byte) /\ Normalised(Sent(char)) = u
    BY SentIsNormalised
  <2>3. w \in Seq(Byte) /\ v \in Seq(Byte) /\ (v = <<>> \/ ~ Leads(v[Len(v)])) /\ Utf8(v) = t
    BY <1>3
  <2>4. char \in Nat /\ char < 2048
    BY LegibleIs
  <2>5. u \in Seq(Byte) /\ u # <<>> /\ ~ Follows(u[1]) /\ ~ Leads(u[Len(u)]) /\ Utf8(u) = <<char>>
    BY <2>4, Utf8OfFacts
  <2>6. v = Normalised(w)
    OBVIOUS
  <2> HIDE DEF w, v, u, Wire, b
  <2>7. w \o Sent(char) \in Seq(Byte) /\ Normalised(w \o Sent(char)) = v \o u
    <3>1. w \o Sent(char) \in Seq(Byte)
      BY <2>2, <2>3, ConcatProperties
    <3>2. QED
      BY <2>2, <2>3, <2>6, <3>1, NormalisedConcat
  <2>8. /\ v \o u \in Seq(Byte) /\ Utf8(v \o u) = t \o <<char>>
        /\ ~ Leads((v \o u)[Len(v \o u)])
    <3>1. Apart(v, u)
      BY <2>3, <2>5 DEF Apart
    <3>2. v \o u \in Seq(Byte) /\ Joins(v \o u, v, u)
      BY <2>3, <2>5, JoinedBytes
    <3>3. Utf8(v \o u) = t \o <<char>>
      BY <2>3, <2>5, <3>1, Utf8Concat
    <3>4. (v \o u)[Len(v \o u)] = u[Len(u)]
      <4>1. Len(u) \in 1 .. Len(u) /\ Len(v) \in Nat
        BY <2>3, <2>5, EmptySeq, LenProperties
      <4>2. QED
        BY <3>2, <4>1 DEF Joins
    <3>5. QED
      BY <2>5, <3>2, <3>3, <3>4
  <2>9. t \o <<char>> = Append(t, char)
    BY AppendIsConcat
  <2>10. QED
    BY <2>1, <2>7, <2>8, <2>9 DEF b
<1> HIDE DEF Good
<1>4. <<>> \in Q /\ \A t \in Seq(Legible), char \in Legible : t \in Q => Append(t, char) \in Q
  BY <1>2, <1>3, EmptySeq, AppendProperties
<1> HIDE DEF Q
<1>5. text \in Q
  <2>1. \A t \in Seq(Legible) : t \in Q
    BY <1>4, SeqInduction
  <2>2. QED
    BY <2>1
<1>6. QED
  BY <1>5 DEF Q, Good
-----------------------------------------------------------------------------
(***************************************************************************)
(* The fields of an event and the bars between them.                       *)
(***************************************************************************)

\* What Max is when it is there.
LEMMA MaxIs ==
  ASSUME NEW S \in SUBSET Nat, NEW m \in S, \A n \in S : n <= m
  PROVE  Max(S) = m
<1>1. \A x \in S : (\A y \in S : x >= y) => x = m
  <2>1. \A x \in S : x >= m => x = m
    OBVIOUS
  <2>2. QED
    BY <2>1
<1>2. \A y \in S : m >= y
  OBVIOUS
<1>3. \E x \in S : \A y \in S : x >= y
  BY <1>2
<1>4. QED
  BY <1>1, <1>3, Zenon DEF Max

\* What Min is when it is there.
LEMMA MinIs ==
  ASSUME NEW S \in SUBSET Nat, NEW m \in S, \A n \in S : m <= n
  PROVE  Min(S) = m
<1>1. \A x \in S : (\A y \in S : x <= y) => x = m
  <2>1. \A x \in S : x <= m => x = m
    OBVIOUS
  <2>2. QED
    BY <2>1
<1>2. \E x \in S : \A y \in S : x <= y
  OBVIOUS
<1>3. QED
  BY <1>1, <1>2, Zenon DEF Min

\* w stands in r after the first off elements.
At(r, off, w) == \A i \in 1 .. Len(w) : r[off + i] = w[i]

\* z begins with p.
Begins(z, p) == \A i \in 1 .. Len(p) : z[i] = p[i]

\* What stands in a beginning stands in the whole.
LEMMA AtPrefix ==
  ASSUME NEW T, NEW p \in Seq(T), NEW z, NEW w \in Seq(T), NEW off \in Nat,
         Begins(z, p), off + Len(w) <= Len(p), At(p, off, w)
  PROVE  At(z, off, w)
<1>1. Len(w) \in Nat /\ Len(p) \in Nat
  BY LenProperties
<1>2. ASSUME NEW i \in 1 .. Len(w)
      PROVE  z[off + i] = w[i]
  <2>1. off + i \in 1 .. Len(p)
    BY <1>1
  <2>2. z[off + i] = p[off + i]
    BY <2>1 DEF Begins
  <2>3. p[off + i] = w[i]
    BY DEF At
  <2>4. QED
    BY <2>2, <2>3
<1>3. QED
  BY <1>2 DEF At

\* Both parts of a concatenation stand in it.
LEMMA AtEnd ==
  ASSUME NEW T, NEW x \in Seq(T), NEW y \in Seq(T)
  PROVE  At(x \o y, Len(x), y) /\ At(x \o y, 0, x)
<1> DEFINE z == x \o y
<1>1. /\ \A i \in 1 .. Len(x) : z[i] = x[i]
      /\ \A i \in 1 .. Len(y) : z[Len(x) + i] = y[i]
  BY Joined
<1> HIDE DEF z
<1>2. \A i \in 1 .. Len(x) : 0 + i = i
  BY LenProperties
<1>3. At(z, Len(x), y) /\ At(z, 0, x)
  BY <1>1, <1>2 DEF At
<1>4. QED
  BY <1>3 DEF z

\* What stands in a sequence can be cut out of it.
LEMMA AtIsPart ==
  ASSUME NEW T, NEW r \in Seq(T), NEW w \in Seq(T), NEW off \in Nat,
         off + Len(w) <= Len(r), At(r, off, w)
  PROVE  SubSeq(r, off + 1, off + Len(w)) = w
<1> DEFINE n == off + Len(w)
           p == SubSeq(r, off + 1, n)
<1>1. Len(w) \in Nat /\ n \in Nat /\ off + 1 \in Nat \ {0} /\ off + 1 <= n + 1 /\ n <= Len(r)
  BY LenProperties
<1>2. n - (off + 1) + 1 = Len(w)
  BY <1>1
<1> HIDE DEF n
<1>3. /\ p \in Seq(T) /\ Len(p) = n - (off + 1) + 1
      /\ \A i \in 1 .. n - (off + 1) + 1 : p[i] = r[(off + 1) + i - 1]
  BY <1>1, PartFacts
<1> HIDE DEF p
<1>4. \A i \in 1 .. Len(w) : (off + 1) + i - 1 = off + i
  BY <1>1
<1>5. \A i \in 1 .. Len(w) : p[i] = w[i]
  BY <1>2, <1>3, <1>4 DEF At
<1>6. p = w
  BY <1>2, <1>3, <1>5, SeqEqual
<1>7. QED
  BY <1>6 DEF p, n

-----------------------------------------------------------------------------
\* The bars that separate the fields.
Bar1(e) == Len(e.code) + 1
Bar2(e) == Bar1(e) + Len(e.address) + 1
Bar3(e) == Bar2(e) + Len(e.description) + 1
Bar4(e) == Bar3(e) + Len(e.extra) + 1

\* The events that the panel can send: only the description may have bars in it.
Plainly == Seq({char \in Legible : char # Bar})
Sayable ==
  [kind : {"event"}, raw : {GoodTime, BadTime}, code : Plainly, address : Plainly,
   description : Seq(Legible), extra : Plainly, verification : Plainly]

\* The fields of an event that can be said.
LEMMA SayableFacts ==
  ASSUME NEW e \in Sayable
  PROVE  /\ e.code \in Seq(Legible) /\ e.address \in Seq(Legible)
         /\ e.description \in Seq(Legible) /\ e.extra \in Seq(Legible)
         /\ e.verification \in Seq(Legible)
         /\ \A i \in 1 .. Len(e.code) : e.code[i] # Bar
         /\ \A i \in 1 .. Len(e.address) : e.address[i] # Bar
         /\ \A i \in 1 .. Len(e.extra) : e.extra[i] # Bar
         /\ \A i \in 1 .. Len(e.verification) : e.verification[i] # Bar
         /\ e.raw \in {GoodTime, BadTime}
         /\ e.kind = "event"
<1>1. /\ e.code \in Plainly /\ e.address \in Plainly /\ e.extra \in Plainly
      /\ e.verification \in Plainly /\ e.description \in Seq(Legible)
      /\ e.raw \in {GoodTime, BadTime} /\ e.kind = "event"
  BY DEF Sayable
<1>2. ASSUME NEW w \in Plainly
      PROVE  w \in Seq(Legible) /\ \A i \in 1 .. Len(w) : w[i] # Bar
  <2> DEFINE P == {char \in Legible : char # Bar}
  <2>1. w \in Seq(P) /\ P \subseteq Legible
    BY DEF Plainly
  <2>2. \A i \in 1 .. Len(w) : w[i] \in P
    BY <2>1, ElementOfSeq
  <2>3. w \in Seq(Legible)
    BY <2>1, SeqMonotonic
  <2>4. QED
    BY <2>2, <2>3
<1>3. QED
  BY <1>1, <1>2

\* z is r with a bar and the field y after it.
Grows(z, r, y) ==
  /\ Len(z) = Len(r) + 1 + Len(y)
  /\ Begins(z, r)
  /\ z[Len(r) + 1] = Bar
  /\ At(z, Len(r) + 1, y)

\* A bar and a field are added to a text.
LEMMA FieldIsAdded ==
  ASSUME NEW r \in Seq(Legible), NEW y \in Seq(Legible)
  PROVE  r \o <<Bar>> \o y \in Seq(Legible) /\ Grows(r \o <<Bar>> \o y, r, y)
<1> DEFINE s == <<Bar>>
           m == r \o s
           z == m \o y
<1>1. Bar \in Legible
  BY LegibleIs DEF Bar
<1>2. s \in Seq(Legible) /\ Len(s) = 1 /\ s[1] = Bar /\ 1 \in 1 .. Len(s)
  BY <1>1
<1> HIDE DEF s
<1>3. s \in Seq(Legible)
  BY <1>2
<1>4. /\ m \in Seq(Legible) /\ Len(m) = Len(r) + Len(s)
      /\ \A i \in 1 .. Len(r) : m[i] = r[i]
      /\ \A i \in 1 .. Len(s) : m[Len(r) + i] = s[i]
  BY <1>3, Joined
<1> HIDE DEF m
<1>5. m \in Seq(Legible)
  BY <1>4
<1>6. /\ z \in Seq(Legible) /\ Len(z) = Len(m) + Len(y)
      /\ \A i \in 1 .. Len(m) : z[i] = m[i]
      /\ \A i \in 1 .. Len(y) : z[Len(m) + i] = y[i]
  BY <1>5, Joined
<1> HIDE DEF z
<1>7. Len(r) \in Nat /\ Len(y) \in Nat
  BY LenProperties
<1>8. Len(m) = Len(r) + 1 /\ m[Len(r) + 1] = Bar
  BY <1>2, <1>4
<1>9. Len(z) = Len(r) + 1 + Len(y)
  BY <1>6, <1>8
<1>10. ASSUME NEW i \in 1 .. Len(r)
       PROVE  z[i] = r[i]
  <2>1. i \in 1 .. Len(m)
    BY <1>7, <1>8
  <2>2. QED
    BY <1>4, <1>6, <2>1
<1>11. z[Len(r) + 1] = Bar
  <2>1. Len(r) + 1 \in 1 .. Len(m)
    BY <1>7, <1>8
  <2>2. QED
    BY <1>6, <1>8, <2>1
<1>12. At(z, Len(r) + 1, y)
  BY <1>6, <1>8 DEF At
<1>13. QED
  BY <1>6, <1>9, <1>10, <1>11, <1>12 DEF Grows, Begins, z, m, s

\* Where the fields and the bars between them stand in an event.
LEMMA BarsAt ==
  ASSUME NEW e \in Sayable
  PROVE  LET r == FieldsText(e)
         IN /\ r \in Seq(Legible) /\ Len(r) = Bar4(e) + Len(e.verification)
            /\ At(r, 0, e.code) /\ r[Bar1(e)] = Bar
            /\ At(r, Bar1(e), e.address) /\ r[Bar2(e)] = Bar
            /\ At(r, Bar2(e), e.description) /\ r[Bar3(e)] = Bar
            /\ At(r, Bar3(e), e.extra) /\ r[Bar4(e)] = Bar
            /\ At(r, Bar4(e), e.verification)
<1> DEFINE r1 == e.code
           r2 == r1 \o <<Bar>> \o e.address
           r3 == r2 \o <<Bar>> \o e.description
           r4 == r3 \o <<Bar>> \o e.extra
           r5 == r4 \o <<Bar>> \o e.verification
<1>1. /\ e.address \in Seq(Legible) /\ e.description \in Seq(Legible)
      /\ e.extra \in Seq(Legible) /\ e.verification \in Seq(Legible)
  BY SayableFacts
<1>2. r1 \in Seq(Legible)
  BY SayableFacts
<1>3. FieldsText(e) = r5
  BY DEF FieldsText
<1>4. /\ Bar1(e) = Len(r1) + 1 /\ Bar2(e) = Bar1(e) + Len(e.address) + 1
      /\ Bar3(e) = Bar2(e) + Len(e.description) + 1 /\ Bar4(e) = Bar3(e) + Len(e.extra) + 1
  BY DEF Bar1, Bar2, Bar3, Bar4
<1> HIDE DEF r1
<1>5. r2 \in Seq(Legible) /\ Grows(r2, r1, e.address)
  BY <1>1, <1>2, FieldIsAdded
<1> HIDE DEF r2
<1>6. r3 \in Seq(Legible) /\ Grows(r3, r2, e.description)
  BY <1>1, <1>5, FieldIsAdded
<1> HIDE DEF r3
<1>7. r4 \in Seq(Legible) /\ Grows(r4, r3, e.extra)
  BY <1>1, <1>6, FieldIsAdded
<1> HIDE DEF r4
<1>8. r5 \in Seq(Legible) /\ Grows(r5, r4, e.verification)
  BY <1>1, <1>7, FieldIsAdded
<1> HIDE DEF r5
<1>9. /\ Len(r1) \in Nat /\ Len(e.address) \in Nat /\ Len(e.description) \in Nat
      /\ Len(e.extra) \in Nat /\ Len(e.verification) \in Nat
  BY <1>1, <1>2, LenProperties
<1>10. /\ Len(r2) = Len(r1) + 1 + Len(e.address) /\ Len(r3) = Len(r2) + 1 + Len(e.description)
       /\ Len(r4) = Len(r3) + 1 + Len(e.extra) /\ Len(r5) = Len(r4) + 1 + Len(e.verification)
  BY <1>5, <1>6, <1>7, <1>8 DEF Grows
<1>11. /\ Bar1(e) = Len(r1) + 1 /\ Bar2(e) = Len(r2) + 1 /\ Bar3(e) = Len(r3) + 1
       /\ Bar4(e) = Len(r4) + 1 /\ Len(r5) = Bar4(e) + Len(e.verification)
       /\ 1 .. Len(r1) \subseteq 1 .. Len(r2) /\ 1 .. Len(r2) \subseteq 1 .. Len(r3)
       /\ 1 .. Len(r3) \subseteq 1 .. Len(r4)
       /\ Len(r1) + 1 \in 1 .. Len(r2) /\ Len(r2) + 1 \in 1 .. Len(r3) /\ Len(r3) + 1 \in 1 .. Len(r4)
       /\ Len(r1) + 1 \in Nat /\ Len(r2) + 1 \in Nat /\ Len(r3) + 1 \in Nat
       /\ Len(r1) + 1 + Len(e.address) <= Len(r2)
       /\ Len(r2) + 1 + Len(e.description) <= Len(r3)
       /\ Len(r3) + 1 + Len(e.extra) <= Len(r4)
  <2> DEFINE n1 == Len(r1)
             n2 == Len(r2)
             n3 == Len(r3)
             n4 == Len(r4)
             n5 == Len(r5)
             a == Len(e.address)
             d == Len(e.description)
             x == Len(e.extra)
             v == Len(e.verification)
             b1 == Bar1(e)
             b2 == Bar2(e)
             b3 == Bar3(e)
             b4 == Bar4(e)
  <2>1. /\ b1 = n1 + 1 /\ b2 = b1 + a + 1 /\ b3 = b2 + d + 1 /\ b4 = b3 + x + 1
        /\ n1 \in Nat /\ a \in Nat /\ d \in Nat /\ x \in Nat /\ v \in Nat
        /\ n2 = n1 + 1 + a /\ n3 = n2 + 1 + d /\ n4 = n3 + 1 + x /\ n5 = n4 + 1 + v
    BY <1>4, <1>9, <1>10, Zenon
  <2> HIDE DEF n1, n2, n3, n4, n5, a, d, x, v, b1, b2, b3, b4
  <2>2. /\ b1 = n1 + 1 /\ b2 = n2 + 1 /\ b3 = n3 + 1 /\ b4 = n4 + 1 /\ n5 = b4 + v
        /\ 1 .. n1 \subseteq 1 .. n2 /\ 1 .. n2 \subseteq 1 .. n3 /\ 1 .. n3 \subseteq 1 .. n4
        /\ n1 + 1 \in 1 .. n2 /\ n2 + 1 \in 1 .. n3 /\ n3 + 1 \in 1 .. n4
        /\ n1 + 1 \in Nat /\ n2 + 1 \in Nat /\ n3 + 1 \in Nat
        /\ n1 + 1 + a <= n2 /\ n2 + 1 + d <= n3 /\ n3 + 1 + x <= n4
    BY <2>1
  <2>3. QED
    BY <2>2, Zenon DEF n1, n2, n3, n4, n5, a, d, x, v, b1, b2, b3, b4
<1>12. Begins(r5, r4) /\ Begins(r5, r3) /\ Begins(r5, r2) /\ Begins(r5, r1)
  <2>1. /\ \A i \in 1 .. Len(r4) : r5[i] = r4[i]
        /\ \A i \in 1 .. Len(r3) : r4[i] = r3[i]
        /\ \A i \in 1 .. Len(r2) : r3[i] = r2[i]
        /\ \A i \in 1 .. Len(r1) : r2[i] = r1[i]
    BY <1>5, <1>6, <1>7, <1>8 DEF Grows, Begins
  <2>2. QED
    BY <1>11, <2>1, Zenon DEF Begins
<1>19. ASSUME NEW p \in Seq(Legible), NEW w \in Seq(Legible), NEW off \in Nat,
              Begins(r5, p), off + Len(w) <= Len(p), At(p, off, w)
       PROVE  At(r5, off, w)
  BY <1>19, AtPrefix, Zenon
<1>13. At(r5, 0, r1) /\ r5[Len(r1) + 1] = Bar /\ At(r5, Len(r1) + 1, e.address)
  <2>1. At(r5, 0, r1)
    BY <1>9, <1>12 DEF At, Begins
  <2>2. r2[Len(r1) + 1] = Bar /\ At(r2, Len(r1) + 1, e.address)
    BY <1>5 DEF Grows
  <2>4. At(r5, Len(r1) + 1, e.address)
    BY <1>1, <1>5, <1>12, <1>11, <1>19, <2>2, Zenon
  <2>5. QED
    BY <1>11, <1>12, <2>1, <2>2, <2>4, Zenon DEF Begins
<1>14. r5[Len(r2) + 1] = Bar /\ At(r5, Len(r2) + 1, e.description)
  <2>2. r3[Len(r2) + 1] = Bar /\ At(r3, Len(r2) + 1, e.description)
    BY <1>6 DEF Grows
  <2>4. At(r5, Len(r2) + 1, e.description)
    BY <1>1, <1>6, <1>12, <1>11, <1>19, <2>2, Zenon
  <2>5. QED
    BY <1>11, <1>12, <2>2, <2>4, Zenon DEF Begins
<1>15. r5[Len(r3) + 1] = Bar /\ At(r5, Len(r3) + 1, e.extra)
  <2>2. r4[Len(r3) + 1] = Bar /\ At(r4, Len(r3) + 1, e.extra)
    BY <1>7 DEF Grows
  <2>4. At(r5, Len(r3) + 1, e.extra)
    BY <1>1, <1>7, <1>12, <1>11, <1>19, <2>2, Zenon
  <2>5. QED
    BY <1>11, <1>12, <2>2, <2>4, Zenon DEF Begins
<1>16. r5[Len(r4) + 1] = Bar /\ At(r5, Len(r4) + 1, e.verification)
  BY <1>8 DEF Grows
<1>17. r1 = e.code
  BY DEF r1
<1>18. QED
  BY <1>3, <1>8, <1>11, <1>13, <1>14, <1>15, <1>16, <1>17
-----------------------------------------------------------------------------
\* The lengths of the fields and the places of the bars.
LEMMA BarOrder ==
  ASSUME NEW e \in Sayable
  PROVE  /\ Bar1(e) \in Nat /\ Bar2(e) \in Nat /\ Bar3(e) \in Nat /\ Bar4(e) \in Nat
         /\ 1 <= Bar1(e) /\ Bar1(e) < Bar2(e) /\ Bar2(e) < Bar3(e) /\ Bar3(e) < Bar4(e)
         /\ Bar1(e) - 1 = 0 + Len(e.code) /\ Bar2(e) - 1 = Bar1(e) + Len(e.address)
         /\ Bar3(e) - 1 = Bar2(e) + Len(e.description) /\ Bar4(e) - 1 = Bar3(e) + Len(e.extra)
         /\ Len(e.code) \in Nat /\ Len(e.address) \in Nat /\ Len(e.description) \in Nat
         /\ Len(e.extra) \in Nat /\ Len(e.verification) \in Nat
<1> DEFINE c == Len(e.code)
           a == Len(e.address)
           d == Len(e.description)
           x == Len(e.extra)
           v == Len(e.verification)
           b1 == Bar1(e)
           b2 == Bar2(e)
           b3 == Bar3(e)
           b4 == Bar4(e)
<1>1. c \in Nat /\ a \in Nat /\ d \in Nat /\ x \in Nat /\ v \in Nat
  BY SayableFacts, LenProperties
<1>2. b1 = c + 1 /\ b2 = b1 + a + 1 /\ b3 = b2 + d + 1 /\ b4 = b3 + x + 1
  BY Zenon DEF Bar1, Bar2, Bar3, Bar4
<1> HIDE DEF c, a, d, x, v, b1, b2, b3, b4
<1>3. /\ b1 \in Nat /\ b2 \in Nat /\ b3 \in Nat /\ b4 \in Nat
      /\ 1 <= b1 /\ b1 < b2 /\ b2 < b3 /\ b3 < b4
      /\ b1 - 1 = 0 + c /\ b2 - 1 = b1 + a /\ b3 - 1 = b2 + d /\ b4 - 1 = b3 + x
  BY <1>1, <1>2
<1>4. QED
  BY <1>1, <1>3, Zenon DEF c, a, d, x, v, b1, b2, b3, b4

\* The bars of an event: four between fields, and those of the description.
LEMMA BarsAre ==
  ASSUME NEW e \in Sayable
  PROVE  LET B == Bars(FieldsText(e))
         IN /\ B \in SUBSET Nat /\ B \subseteq 1 .. Len(FieldsText(e))
            /\ Bar1(e) \in B /\ Bar2(e) \in B /\ Bar3(e) \in B /\ Bar4(e) \in B
            /\ \A n \in B : n = Bar1(e) \/ n = Bar4(e) \/ (Bar2(e) <= n /\ n <= Bar3(e))
<1> DEFINE r == FieldsText(e)
           B == Bars(r)
           c == Len(e.code)
           a == Len(e.address)
           d == Len(e.description)
           x == Len(e.extra)
           v == Len(e.verification)
           b1 == Bar1(e)
           b2 == Bar2(e)
           b3 == Bar3(e)
           b4 == Bar4(e)
           n == Len(r)
<1>1. /\ r \in Seq(Legible) /\ n = b4 + v
      /\ At(r, 0, e.code) /\ r[b1] = Bar /\ At(r, b1, e.address) /\ r[b2] = Bar
      /\ r[b3] = Bar /\ At(r, b3, e.extra) /\ r[b4] = Bar
      /\ At(r, b4, e.verification)
  BY BarsAt
<1>2. /\ b1 \in Nat /\ b2 \in Nat /\ b3 \in Nat /\ b4 \in Nat
      /\ 1 <= b1 /\ b1 < b2 /\ b2 < b3 /\ b3 < b4
      /\ b1 - 1 = 0 + c /\ b2 - 1 = b1 + a /\ b3 - 1 = b2 + d /\ b4 - 1 = b3 + x
      /\ c \in Nat /\ a \in Nat /\ d \in Nat /\ x \in Nat /\ v \in Nat
  BY BarOrder
<1>3. /\ \A i \in 1 .. c : r[0 + i] # Bar
      /\ \A i \in 1 .. a : r[b1 + i] # Bar
      /\ \A i \in 1 .. x : r[b3 + i] # Bar
      /\ \A i \in 1 .. v : r[b4 + i] # Bar
  <2>1. /\ \A i \in 1 .. c : e.code[i] # Bar
        /\ \A i \in 1 .. a : e.address[i] # Bar
        /\ \A i \in 1 .. x : e.extra[i] # Bar
        /\ \A i \in 1 .. v : e.verification[i] # Bar
    BY SayableFacts
  <2>2. /\ \A i \in 1 .. c : r[0 + i] = e.code[i]
        /\ \A i \in 1 .. a : r[b1 + i] = e.address[i]
        /\ \A i \in 1 .. x : r[b3 + i] = e.extra[i]
        /\ \A i \in 1 .. v : r[b4 + i] = e.verification[i]
    BY <1>1, Zenon DEF At
  <2> HIDE DEF r, c, a, x, v, b1, b3, b4
  <2>3. QED
    BY <2>1, <2>2, ZenonT(40)
<1>4. B = {i \in 1 .. n : r[i] = Bar}
  <2>1. DOMAIN r = 1 .. n
    BY <1>1, LenProperties, Zenon
  <2> HIDE DEF r, n
  <2>2. QED
    BY <2>1 DEF Bars
<1> HIDE DEF r, B, c, a, d, x, v, b1, b2, b3, b4, n
<1>5. /\ b1 \in 1 .. n /\ b2 \in 1 .. n /\ b3 \in 1 .. n /\ b4 \in 1 .. n /\ n \in Nat
  BY <1>1, <1>2
<1>6. b1 \in B /\ b2 \in B /\ b3 \in B /\ b4 \in B
  BY <1>1, <1>4, <1>5
<1>7. ASSUME NEW k \in B
      PROVE  k = b1 \/ k = b4 \/ (b2 <= k /\ k <= b3)
  <2>1. k \in 1 .. n /\ r[k] = Bar
    BY <1>4
  <2>2. SUFFICES ASSUME k # b1, k # b4, ~ (b2 <= k /\ k <= b3) PROVE FALSE
    OBVIOUS
  <2>3. CASE k < b1
    <3>1. k \in 1 .. c /\ 0 + k = k
      BY <1>2, <2>1, <2>3
    <3>2. QED
      BY <1>3, <2>1, <3>1
  <2>4. CASE b1 < k /\ k < b2
    <3>1. k - b1 \in 1 .. a /\ b1 + (k - b1) = k
      BY <1>2, <2>1, <2>4
    <3>2. QED
      BY <1>3, <2>1, <3>1
  <2>5. CASE b3 < k /\ k < b4
    <3>1. k - b3 \in 1 .. x /\ b3 + (k - b3) = k
      BY <1>2, <2>1, <2>5
    <3>2. QED
      BY <1>3, <2>1, <3>1
  <2>6. CASE b4 < k
    <3>1. k - b4 \in 1 .. v /\ b4 + (k - b4) = k
      BY <1>1, <1>2, <2>1, <2>6
    <3>2. QED
      BY <1>3, <2>1, <3>1
  <2>7. QED
    BY <1>2, <1>5, <2>1, <2>2, <2>3, <2>4, <2>5, <2>6
<1>8. B \subseteq 1 .. n /\ B \in SUBSET Nat
  BY <1>4, <1>5
<1>9. QED
  BY <1>6, <1>7, <1>8, Zenon DEF B, b1, b2, b3, b4, n, r

\* The two bars from the left and the two from the right are those between fields.
LEMMA BarsFound ==
  ASSUME NEW e \in Sayable
  PROVE  LET B == Bars(FieldsText(e))
         IN /\ Min(B) = Bar1(e) /\ Min(B \ {Bar1(e)}) = Bar2(e)
            /\ Max(B) = Bar4(e) /\ Max(B \ {Bar4(e)}) = Bar3(e)
            /\ Cardinality(B) >= 4
<1> DEFINE B == Bars(FieldsText(e))
           b1 == Bar1(e)
           b2 == Bar2(e)
           b3 == Bar3(e)
           b4 == Bar4(e)
           n == Len(FieldsText(e))
<1>1. /\ B \in SUBSET Nat /\ B \subseteq 1 .. n
      /\ b1 \in B /\ b2 \in B /\ b3 \in B /\ b4 \in B
      /\ \A k \in B : k = b1 \/ k = b4 \/ (b2 <= k /\ k <= b3)
  BY BarsAre
<1>2. /\ b1 \in Nat /\ b2 \in Nat /\ b3 \in Nat /\ b4 \in Nat
      /\ b1 < b2 /\ b2 < b3 /\ b3 < b4
  BY BarOrder
<1>3. n \in Nat
  BY BarsAt, LenProperties
<1> HIDE DEF B, b1, b2, b3, b4, n
<1>4. Min(B) = b1
  <2>1. \A k \in B : b1 <= k
    BY <1>1, <1>2
  <2>2. QED
    BY <1>1, <2>1, MinIs, Zenon
<1>5. Max(B) = b4
  <2>1. \A k \in B : k <= b4
    BY <1>1, <1>2
  <2>2. QED
    BY <1>1, <2>1, MaxIs, Zenon
<1>6. Min(B \ {b1}) = b2
  <2> DEFINE D == B \ {b1}
  <2>1. D \in SUBSET Nat /\ b2 \in D /\ \A k \in D : b2 <= k
    BY <1>1, <1>2
  <2> HIDE DEF D
  <2>2. Min(D) = b2
    BY <2>1, MinIs, Zenon
  <2>3. QED
    BY <2>2 DEF D
<1>7. Max(B \ {b4}) = b3
  <2> DEFINE D == B \ {b4}
  <2>1. D \in SUBSET Nat /\ b3 \in D /\ \A k \in D : k <= b3
    BY <1>1, <1>2
  <2> HIDE DEF D
  <2>2. Max(D) = b3
    BY <2>1, MaxIs, Zenon
  <2>3. QED
    BY <2>2 DEF D
<1>8. Cardinality(B) >= 4
  <2> DEFINE F == {b1, b2, b3, b4}
  <2>1. IsFiniteSet(B) /\ Cardinality(B) \in Nat
    <3>1. IsFiniteSet(1 .. n)
      BY <1>3, FS_Interval
    <3>2. QED
      BY <1>1, <3>1, FS_Subset, FS_CardinalityType
  <2>2. Cardinality(F) = 4
    <3>1. IsFiniteSet({b4}) /\ Cardinality({b4}) = 1
      BY FS_Singleton
    <3>2. b3 \notin {b4} /\ b2 \notin {b4} \cup {b3} /\ b1 \notin ({b4} \cup {b3}) \cup {b2}
      BY <1>2
    <3>3. IsFiniteSet({b4} \cup {b3}) /\ Cardinality({b4} \cup {b3}) = 1 + 1
      BY <3>1, <3>2, FS_AddElement
    <3>4. /\ IsFiniteSet(({b4} \cup {b3}) \cup {b2})
          /\ Cardinality(({b4} \cup {b3}) \cup {b2}) = 1 + 1 + 1
      BY <3>2, <3>3, FS_AddElement
    <3>5. Cardinality((({b4} \cup {b3}) \cup {b2}) \cup {b1}) = 1 + 1 + 1 + 1
      BY <3>2, <3>4, FS_AddElement
    <3>6. F = (({b4} \cup {b3}) \cup {b2}) \cup {b1}
      OBVIOUS
    <3>7. QED
      BY <3>5, <3>6
  <2>3. F \subseteq B
    BY <1>1
  <2> HIDE DEF F
  <2>4. Cardinality(F) <= Cardinality(B)
    BY <2>1, <2>3, FS_Subset
  <2>5. QED
    BY <2>1, <2>2, <2>4
<1>9. QED
  BY <1>4, <1>5, <1>6, <1>7, <1>8 DEF B, b1, b2, b3, b4

\* So the fields are cut out as they were put in.
LEMMA FieldsAreRead ==
  ASSUME NEW e \in Sayable
  PROVE  Fields(FieldsText(e), e.raw) = Meaning(e)
<1> DEFINE r == FieldsText(e)
<1>1. /\ Fields(r, e.raw) =
           [kind |-> "event", raw |-> e.raw, timestamp |-> e.raw = GoodTime,
            code |-> SubSeq(r, 1, Bar1(e) - 1), address |-> SubSeq(r, Bar1(e) + 1, Bar2(e) - 1),
            description |-> SubSeq(r, Bar2(e) + 1, Bar3(e) - 1),
            extra |-> SubSeq(r, Bar3(e) + 1, Bar4(e) - 1),
            verification |-> SubSeq(r, Bar4(e) + 1, Len(r))]
  BY BarsFound, Zenon DEF Fields
<1>2. /\ Bar1(e) \in Nat /\ Bar2(e) \in Nat /\ Bar3(e) \in Nat /\ Bar4(e) \in Nat /\ 0 \in Nat
      /\ Bar1(e) < Bar2(e) /\ Bar2(e) < Bar3(e) /\ Bar3(e) < Bar4(e)
      /\ Bar1(e) - 1 = 0 + Len(e.code) /\ Bar2(e) - 1 = Bar1(e) + Len(e.address)
      /\ Bar3(e) - 1 = Bar2(e) + Len(e.description) /\ Bar4(e) - 1 = Bar3(e) + Len(e.extra)
      /\ Len(e.code) \in Nat /\ Len(e.address) \in Nat /\ Len(e.description) \in Nat
      /\ Len(e.extra) \in Nat /\ Len(e.verification) \in Nat
  BY BarOrder
<1>3. /\ r \in Seq(Legible) /\ Len(r) = Bar4(e) + Len(e.verification)
      /\ At(r, 0, e.code) /\ At(r, Bar1(e), e.address) /\ At(r, Bar2(e), e.description)
      /\ At(r, Bar3(e), e.extra) /\ At(r, Bar4(e), e.verification)
  BY BarsAt
<1>4. /\ e.code \in Seq(Legible) /\ e.address \in Seq(Legible) /\ e.description \in Seq(Legible)
      /\ e.extra \in Seq(Legible) /\ e.verification \in Seq(Legible)
  BY SayableFacts
<1> HIDE DEF r
<1>5. ASSUME NEW w \in Seq(Legible), NEW off \in Nat, off + Len(w) <= Len(r), At(r, off, w)
      PROVE  SubSeq(r, off + 1, off + Len(w)) = w
  BY <1>3, <1>5, AtIsPart, Zenon
<1>6. /\ 0 + Len(e.code) <= Len(r) /\ Bar1(e) + Len(e.address) <= Len(r)
      /\ Bar2(e) + Len(e.description) <= Len(r) /\ Bar3(e) + Len(e.extra) <= Len(r)
      /\ Bar4(e) + Len(e.verification) <= Len(r) /\ 0 + 1 = 1
  <2> DEFINE c == Len(e.code)
             a == Len(e.address)
             d == Len(e.description)
             x == Len(e.extra)
             v == Len(e.verification)
             b1 == Bar1(e)
             b2 == Bar2(e)
             b3 == Bar3(e)
             b4 == Bar4(e)
             n == Len(r)
  <2>1. /\ b1 \in Nat /\ b2 \in Nat /\ b3 \in Nat /\ b4 \in Nat
        /\ b1 < b2 /\ b2 < b3 /\ b3 < b4
        /\ b1 - 1 = 0 + c /\ b2 - 1 = b1 + a /\ b3 - 1 = b2 + d /\ b4 - 1 = b3 + x
        /\ c \in Nat /\ a \in Nat /\ d \in Nat /\ x \in Nat /\ v \in Nat
        /\ n = b4 + v
    BY <1>2, <1>3, Zenon
  <2> HIDE DEF c, a, d, x, v, b1, b2, b3, b4, n
  <2>2. /\ 0 + c <= n /\ b1 + a <= n /\ b2 + d <= n /\ b3 + x <= n /\ b4 + v <= n /\ 0 + 1 = 1
    BY <2>1
  <2>3. QED
    BY <2>2, Zenon DEF c, a, d, x, v, b1, b2, b3, b4, n
<1>7. /\ SubSeq(r, 0 + 1, 0 + Len(e.code)) = e.code
      /\ SubSeq(r, Bar1(e) + 1, Bar1(e) + Len(e.address)) = e.address
      /\ SubSeq(r, Bar2(e) + 1, Bar2(e) + Len(e.description)) = e.description
      /\ SubSeq(r, Bar3(e) + 1, Bar3(e) + Len(e.extra)) = e.extra
      /\ SubSeq(r, Bar4(e) + 1, Bar4(e) + Len(e.verification)) = e.verification
  BY <1>2, <1>3, <1>4, <1>5, <1>6, Zenon
<1>8. /\ SubSeq(r, 1, Bar1(e) - 1) = e.code
      /\ SubSeq(r, Bar1(e) + 1, Bar2(e) - 1) = e.address
      /\ SubSeq(r, Bar2(e) + 1, Bar3(e) - 1) = e.description
      /\ SubSeq(r, Bar3(e) + 1, Bar4(e) - 1) = e.extra
      /\ SubSeq(r, Bar4(e) + 1, Len(r)) = e.verification
  BY <1>2, <1>3, <1>6, <1>7, Zenon
<1>9. e.kind = "event"
  BY SayableFacts
<1>10. QED
  BY <1>1, <1>8, <1>9, Zenon DEF Meaning, r
-----------------------------------------------------------------------------
\* The envelope around the fields.
LEMMA TextFacts ==
  ASSUME NEW e \in Sayable
  PROVE  LET t == EventText(e)
             r == FieldsText(e)
         IN /\ t \in Seq(Legible) /\ Len(t) = Len(r) + 3 /\ Len(r) \in Nat
            /\ t[1] = Open /\ t[2] = e.raw /\ t[Len(t)] = Close
            /\ SubSeq(t, 3, Len(t) - 1) = r
<1> DEFINE r == FieldsText(e)
           h == <<Open, e.raw>>
           k == <<Close>>
           m == h \o r
           t == m \o k
<1>1. Open \in Legible /\ e.raw \in Legible /\ Close \in Legible
  <2>1. e.raw \in {2, 3}
    BY SayableFacts DEF GoodTime, BadTime
  <2>2. 1 \in Legible /\ 2 \in Legible /\ 3 \in Legible /\ 93 \in Legible
    BY LegibleIs
  <2>3. QED
    BY <2>1, <2>2 DEF Open, Close
<1>2. /\ h \in Seq(Legible) /\ Len(h) = 2 /\ h[1] = Open /\ h[2] = e.raw
      /\ k \in Seq(Legible) /\ Len(k) = 1 /\ k[1] = Close
  <2>1. \A T : \A p, q \in T : <<p, q>> \in Seq(T) /\ Len(<<p, q>>) = 2 /\ <<p, q>>[1] = p /\ <<p, q>>[2] = q
    OBVIOUS
  <2>2. \A T : \A p \in T : <<p>> \in Seq(T) /\ Len(<<p>>) = 1 /\ <<p>>[1] = p
    OBVIOUS
  <2>3. QED
    BY <1>1, <2>1, <2>2, Zenon
<1>3. r \in Seq(Legible)
  BY BarsAt
<1>4. t = EventText(e)
  BY DEF EventText
<1> HIDE DEF r, h, k
<1>5. h \in Seq(Legible) /\ k \in Seq(Legible)
  BY <1>2
<1>6. /\ m \in Seq(Legible) /\ Len(m) = Len(h) + Len(r)
      /\ \A i \in 1 .. Len(h) : m[i] = h[i]
  BY <1>3, <1>5, Joined
<1>7. At(m, Len(h), r)
  BY <1>3, <1>5, AtEnd
<1> HIDE DEF m
<1>8. m \in Seq(Legible)
  BY <1>6
<1>9. /\ t \in Seq(Legible) /\ Len(t) = Len(m) + Len(k)
      /\ \A i \in 1 .. Len(m) : t[i] = m[i]
      /\ \A i \in 1 .. Len(k) : t[Len(m) + i] = k[i]
  BY <1>5, <1>8, Joined
<1> HIDE DEF t
<1> DEFINE n == Len(r)
           nm == Len(m)
           nt == Len(t)
<1>10. n \in Nat /\ nm = 2 + n /\ nt = nm + 1
  BY <1>2, <1>3, <1>6, <1>9, LenProperties
<1> HIDE DEF n, nm, nt
<1>11. /\ 1 \in 1 .. nm /\ 2 \in 1 .. nm /\ nt = n + 3 /\ nt - 1 = 2 + n /\ 2 + n <= nt /\ 2 + n <= nm
       /\ nm + 1 = nt /\ 2 \in Nat /\ 2 + 1 = 3 /\ 1 \in 1 .. 1 /\ 1 \in 1 .. 2 /\ 2 \in 1 .. 2
  BY <1>10
<1>12. t[1] = Open /\ t[2] = e.raw /\ t[nt] = Close
  <2>1. m[1] = Open /\ m[2] = e.raw
    BY <1>2, <1>6, <1>11
  <2>2. t[1] = m[1] /\ t[2] = m[2]
    BY <1>9, <1>11 DEF nm
  <2>3. t[nm + 1] = Close
    BY <1>2, <1>9, <1>11 DEF nm
  <2>4. QED
    BY <1>11, <2>1, <2>2, <2>3
<1>13. SubSeq(t, 3, nt - 1) = r
  <2>1. At(t, 2, r)
    <3>1. Begins(t, m) /\ At(m, 2, r) /\ 2 + Len(r) <= Len(m) /\ 2 \in Nat
      BY <1>2, <1>7, <1>9, <1>11, Zenon DEF Begins, n, nm
    <3>2. QED
      BY <1>3, <1>8, <3>1, AtPrefix, Zenon
  <2>2. 2 + Len(r) <= Len(t) /\ 2 \in Nat
    BY <1>11, Zenon DEF n, nt
  <2>3. SubSeq(t, 2 + 1, 2 + Len(r)) = r
    BY <1>3, <1>9, <2>1, <2>2, AtIsPart, Zenon
  <2>4. QED
    BY <1>11, <2>3, Zenon DEF n
<1>14. QED
  BY <1>4, <1>9, <1>10, <1>11, <1>12, <1>13, Zenon DEF n, nt, r

\* The bytes of an event are the Spread of its text.
LEMMA BytesOfText ==
  ASSUME NEW e \in Sayable
  PROVE  EventBytes(e) = Spread(SentChar, EventText(e))
<1> DEFINE t == EventText(e)
<1>1. t \in Seq(Legible)
  BY TextFacts
<1> HIDE DEF t
<1>2. \A i \in DOMAIN t : t[i] \in Legible
  BY <1>1, LenProperties, ElementOfSeq
<1>3. [i \in DOMAIN t |-> Sent(t[i])] = Each(SentChar, t)
  BY <1>2 DEF Each, SentChar
<1>4. EventBytes(e) = FlattenSeq([i \in DOMAIN t |-> Sent(t[i])])
  BY DEF EventBytes, t
<1>5. QED
  BY <1>3, <1>4, Zenon DEF Spread, t

\* A text that neither begins nor ends with a blank is not stripped.
LEMMA NotStripped ==
  ASSUME NEW t \in Seq(Legible), t # <<>>, t[1] # Blank, t[Len(t)] # Blank
  PROVE  Stripped(t) = t
<1> DEFINE n == Len(t)
           kept == {i \in DOMAIN t : t[i] # Blank}
<1>1. n \in Nat /\ n # 0 /\ DOMAIN t = 1 .. n
  BY EmptySeq, LenProperties
<1> HIDE DEF n
<1>2. /\ kept \in SUBSET Nat /\ 1 \in kept /\ n \in kept /\ kept # {}
      /\ \A i \in kept : 1 <= i /\ i <= n
  BY <1>1 DEF n
<1> HIDE DEF kept
<1>3. Min(kept) = 1
  BY <1>2, MinIs, Zenon
<1>4. Max(kept) = n
  BY <1>2, MaxIs, Zenon
<1>5. SubSeq(t, 1, n) = t
  BY SubSeqFull DEF n
<1>6. Stripped(t) = SubSeq(t, Min(kept), Max(kept))
  BY <1>2 DEF Stripped, kept
<1>7. QED
  BY <1>3, <1>4, <1>5, <1>6

\* SiaEvent.parse undoes what the panel does to an event.
THEOREM EventIsParsed ==
  ASSUME NEW e \in Sayable
  PROVE  EventBytes(e) \in Seq(Byte) /\ EventBytes(e) # <<>> /\ Parse(EventBytes(e)) = Meaning(e)
<1> DEFINE t == EventText(e)
           r == FieldsText(e)
           b == EventBytes(e)
<1>1. /\ t \in Seq(Legible) /\ Len(t) = Len(r) + 3 /\ Len(r) \in Nat
      /\ t[1] = Open /\ t[2] = e.raw /\ t[Len(t)] = Close
      /\ SubSeq(t, 3, Len(t) - 1) = r
  BY TextFacts
<1>2. b \in Seq(Byte) /\ Utf8(Normalised(b)) = t
  BY <1>1, BytesOfText, TextIsRead, Zenon
<1>3. e.raw \in {GoodTime, BadTime}
  BY SayableFacts
<1> HIDE DEF t, r, b
<1>4. Len(t) >= 3 /\ t # <<>>
  BY <1>1, EmptySeq
<1>5. Stripped(t) = t
  BY <1>1, <1>4, NotStripped DEF Blank, Open, Close
<1>6. Matches(t)
  BY <1>1, <1>3, <1>4 DEF Matches, Last
<1>7. Cardinality(Bars(r)) >= 4 /\ Fields(r, e.raw) = Meaning(e)
  BY BarsFound, FieldsAreRead, Zenon DEF r
<1>8. Parse(b) = Meaning(e)
  BY <1>1, <1>2, <1>5, <1>6, <1>7 DEF Parse
<1>9. b # <<>>
  <2>1. SUFFICES ASSUME b = <<>> PROVE FALSE
    OBVIOUS
  <2>2. Normalised(b) = <<>>
    BY <1>2, <2>1, NormalisedFacts, SpreadEmpty
  <2>3. CharMap(<<>>) = <<>>
    BY DEF CharMap
  <2>4. Utf8(<<>>) = <<>>
    BY <2>3, FlattenEmpty DEF Utf8, CharMap
  <2>5. QED
    BY <1>2, <1>4, <2>2, <2>4
<1>10. QED
  BY <1>2, <1>8, <1>9 DEF b
-----------------------------------------------------------------------------
(***************************************************************************)
(* The sections of a reply.                                                *)
(***************************************************************************)

\* Of a sequence of sequences only the first has elements.
LEMMA FlattenFirst ==
  ASSUME NEW T, NEW e \in Seq(T), NEW t \in Seq(Seq(T)), t # <<>>, t[1] = e,
         \A i \in 2 .. Len(t) : t[i] = <<>>
  PROVE  FlattenSeq(t) = e
<1> DEFINE Only(s) == s # <<>> /\ s[1] = e /\ \A i \in 2 .. Len(s) : s[i] = <<>>
           Good(s) == Only(s) => FlattenSeq(s) = e
           Q == {s \in Seq(Seq(T)) : Good(s)}
<1>1. Good(<<>>)
  OBVIOUS
<1>2. ASSUME NEW s \in Seq(Seq(T)), Good(s), NEW x \in Seq(T), Only(Append(s, x))
      PROVE  FlattenSeq(Append(s, x)) = e
  <2> DEFINE u == Append(s, x)
  <2>1. /\ Len(u) = Len(s) + 1 /\ \A i \in 1 .. Len(s) : u[i] = s[i]
        /\ u[Len(s) + 1] = x
    BY AppendProperties
  <2>2. u[1] = e /\ \A i \in 2 .. Len(u) : u[i] = <<>>
    BY <1>2
  <2>3. FlattenSeq(u) = FlattenSeq(s) \o x
    BY FlattenAppend
  <2>4. Len(s) \in Nat
    BY LenProperties
  <2> HIDE DEF u
  <2>5. CASE s = <<>>
    <3>1. Len(s) = 0
      BY <2>5, EmptySeq
    <3>5. Len(s) + 1 = 1
      BY <3>1
    <3>2. x = e
      BY <2>1, <2>2, <3>5
    <3>3. <<>> \o x = x
      BY ConcatEmptySeq
    <3>4. QED
      BY <2>3, <2>5, <3>2, <3>3, FlattenEmpty DEF u
  <2>6. CASE s # <<>>
    <3>1. Len(s) \in Nat \ {0}
      BY <2>6, EmptySeq
    <3>2. Only(s)
      <4>1. s[1] = e
        <5>1. 1 \in 1 .. Len(s)
          BY <3>1
        <5>2. QED
          BY <2>1, <2>2, <5>1, Zenon
      <4>2. ASSUME NEW i \in 2 .. Len(s)
            PROVE  s[i] = <<>>
        <5>1. i \in 1 .. Len(s) /\ i \in 2 .. Len(u)
          BY <2>1, <3>1
        <5>2. QED
          BY <2>1, <2>2, <5>1
      <4>3. QED
        BY <2>6, <4>1, <4>2
    <3>3. x = <<>>
      <4>1. Len(s) + 1 \in 2 .. Len(u)
        BY <2>1, <3>1
      <4>2. QED
        BY <2>1, <2>2, <4>1
    <3>4. FlattenSeq(s) = e
      BY <1>2, <3>2
    <3>5. e \o <<>> = e
      BY ConcatEmptySeq
    <3>6. QED
      BY <2>3, <3>3, <3>4, <3>5 DEF u
  <2>7. QED
    BY <2>5, <2>6
<1>3. \A s \in Seq(Seq(T)), x \in Seq(T) : Good(s) => Good(Append(s, x))
  BY <1>2
<1> HIDE DEF Good
<1>4. <<>> \in Q /\ \A s \in Seq(Seq(T)), x \in Seq(T) : s \in Q => Append(s, x) \in Q
  BY <1>1, <1>3, EmptySeq, AppendProperties
<1> HIDE DEF Q
<1>5. \A s \in Seq(Seq(T)) : s \in Q
  BY <1>4, SeqInduction, Zenon
<1>6. Good(t)
  BY <1>5 DEF Q
<1>7. QED
  BY <1>6 DEF Good

-----------------------------------------------------------------------------
\* Every section that is opened in x is closed in it.
Shut(x) == \A j \in 1 .. Len(x) : x[j] = Section => \E m \in j + 1 .. Len(x) : x[m] = EndSection

\* The section that is opened at i is closed at e.
Closes(x, i, e) ==
  /\ e \in i + 1 .. Len(x) /\ x[e] = EndSection
  /\ \A m \in i + 1 .. e - 1 : x[m] # EndSection

\* EndOf finds what closes a section.
LEMMA EndOfIs ==
  ASSUME NEW x \in Seq(Byte), NEW i \in 1 .. Len(x), NEW e, Closes(x, i, e)
  PROVE  EndOf(x, i) = e
<1> DEFINE S == {j \in DOMAIN x : j > i /\ x[j] = EndSection}
           n == Len(x)
<1>1. n \in Nat /\ DOMAIN x = 1 .. n /\ i \in 1 .. n
  BY LenProperties
<1>2. e \in i + 1 .. n /\ x[e] = EndSection /\ \A m \in i + 1 .. e - 1 : x[m] # EndSection
  BY DEF Closes
<1> HIDE DEF n
<1>3. S \in SUBSET Nat /\ e \in S
  BY <1>1, <1>2
<1>4. ASSUME NEW k \in S
      PROVE  e <= k
  <2>1. k \in 1 .. n /\ k > i /\ x[k] = EndSection
    BY <1>1
  <2>2. ~ (k \in i + 1 .. e - 1)
    BY <1>2, <2>1
  <2>3. QED
    BY <1>1, <1>2, <2>1, <2>2
<1> HIDE DEF S
<1>5. Min(S) = e
  BY <1>3, <1>4, MinIs, Zenon
<1>6. QED
  BY <1>5 DEF EndOf, S

\* In what is shut every section has an end.
LEMMA SectionEnds ==
  ASSUME NEW x \in Seq(Byte), Shut(x), NEW i \in 1 .. Len(x), x[i] = Section
  PROVE  \E e \in 1 .. Len(x) : Closes(x, i, e)
<1> DEFINE n == Len(x)
           S == {j \in i + 1 .. n : x[j] = EndSection}
<1>1. n \in Nat /\ i \in 1 .. n
  BY LenProperties
<1>2. S # {}
  BY DEF Shut
<1> HIDE DEF n
<1>3. S \in SUBSET Nat
  BY <1>1
<1>4. PICK e \in S : \A k \in S : e <= k
  BY <1>2, <1>3, LeastNumber, Zenon
<1>5. e \in i + 1 .. n /\ x[e] = EndSection /\ e \in 1 .. n
  BY <1>1, <1>4
<1>6. ASSUME NEW m \in i + 1 .. e - 1
      PROVE  x[m] # EndSection
  <2>1. m \in i + 1 .. n /\ ~ (e <= m)
    BY <1>1, <1>5
  <2>2. QED
    BY <1>4, <2>1
<1>7. QED
  BY <1>5, <1>6 DEF Closes, n

\* What is read of a section, where it begins and where it ends.
Taken(x, i, e) == IF e = i + 1 THEN <<<<Section>>>> ELSE <<SubSeq(x, i + 1, e - 1)>>

\* The three kinds of what SectionAt finds.
LEMMA SectionAtIs ==
  ASSUME NEW x \in Seq(Byte), NEW i \in 1 .. Len(x)
  PROVE  /\ x[i] = Leaf => SectionAt(x, i) = <<<<Leaf>>>>
         /\ x[i] # Leaf /\ x[i] # Section => SectionAt(x, i) = <<>>
         /\ x[i] = Section => \A e : Closes(x, i, e) => SectionAt(x, i) = Taken(x, i, e)
<1>1. x[i] = Leaf => SectionAt(x, i) = <<<<Leaf>>>>
  BY DEF SectionAt
<1>2. x[i] # Leaf /\ x[i] # Section => SectionAt(x, i) = <<>>
  BY DEF SectionAt
<1>3. ASSUME x[i] = Section, NEW e, Closes(x, i, e)
      PROVE  SectionAt(x, i) = Taken(x, i, e)
  <2>1. EndOf(x, i) = e
    BY <1>3, EndOfIs
  <2>2. Section # Leaf
    BY DEF Section, Leaf
  <2>3. x[i + 1] = EndSection <=> e = i + 1
    <3>1. /\ e \in i + 1 .. Len(x) /\ x[e] = EndSection
          /\ \A m \in i + 1 .. e - 1 : x[m] # EndSection
      BY <1>3 DEF Closes
    <3>2. i \in Nat /\ e \in Int
      BY <3>1, LenProperties
    <3>3. e # i + 1 => i + 1 \in i + 1 .. e - 1
      BY <3>1, <3>2
    <3>4. QED
      BY <3>1, <3>3
  <2>4. QED
    BY <1>3, <2>1, <2>2, <2>3, Zenon DEF SectionAt, Taken
<1>4. QED
  BY <1>1, <1>2, <1>3
-----------------------------------------------------------------------------
\* z is x and then y, in other words.
LEMMA JoinedAt ==
  ASSUME NEW x \in Seq(Byte), NEW y \in Seq(Byte), NEW z \in Seq(Byte), Joins(z, x, y)
  PROVE  /\ Len(x) \in Nat /\ Len(y) \in Nat /\ Len(z) = Len(x) + Len(y)
         /\ \A i \in 1 .. Len(x) : z[i] = x[i]
         /\ \A i \in 1 .. Len(y) : z[Len(x) + i] = y[i]
         /\ \A i \in Len(x) + 1 .. Len(z) : i - Len(x) \in 1 .. Len(y) /\ z[i] = y[i - Len(x)]
<1>1. /\ Len(x) \in Nat /\ Len(y) \in Nat /\ Len(z) = Len(x) + Len(y)
      /\ \A i \in 1 .. Len(x) : z[i] = x[i]
      /\ \A i \in 1 .. Len(y) : z[Len(x) + i] = y[i]
  BY LenProperties DEF Joins
<1> DEFINE n == Len(x)
           m == Len(y)
           l == Len(z)
<1>2. n \in Nat /\ m \in Nat /\ l = n + m /\ \A i \in 1 .. m : z[n + i] = y[i]
  BY <1>1
<1> HIDE DEF n, m, l
<1>3. ASSUME NEW i \in n + 1 .. l
      PROVE  i - n \in 1 .. m /\ z[i] = y[i - n]
  <2>1. i - n \in 1 .. m /\ n + (i - n) = i
    BY <1>2
  <2>2. QED
    BY <1>2, <2>1
<1>4. QED
  BY <1>1, <1>3, Zenon DEF n, m, l

\* Joining to what is shut opens or closes no section in either part.
LEMMA InsideJoined ==
  ASSUME NEW x \in Seq(Byte), NEW y \in Seq(Byte), NEW z \in Seq(Byte), Joins(z, x, y), Shut(x)
  PROVE  /\ \A i \in 1 .. Len(x) : Inside(z, i) <=> Inside(x, i)
         /\ \A i \in 1 .. Len(y) + 1 : Inside(z, Len(x) + i) <=> Inside(y, i)
<1> DEFINE n == Len(x)
           m == Len(y)
           l == Len(z)
<1>1. /\ n \in Nat /\ m \in Nat /\ l = n + m
      /\ \A i \in 1 .. n : z[i] = x[i]
      /\ \A i \in 1 .. m : z[n + i] = y[i]
  BY JoinedAt
<1>2. \A j \in 1 .. n : x[j] = Section => \E k \in j + 1 .. n : x[k] = EndSection
  BY DEF Shut
<1> HIDE DEF n, m, l
<1>3. ASSUME NEW i \in 1 .. n
      PROVE  Inside(z, i) <=> Inside(x, i)
  <2>1. \A j \in 1 .. i - 1 : j \in 1 .. n /\ \A k \in j + 1 .. i - 1 : k \in 1 .. n
    BY <1>1
  <2>2. QED
    BY <1>1, <2>1, Zenon DEF Inside
<1>4. ASSUME NEW i \in 1 .. m + 1, Inside(y, i)
      PROVE  Inside(z, n + i)
  <2>1. PICK j \in 1 .. i - 1 : y[j] = Section /\ \A k \in j + 1 .. i - 1 : y[k] # EndSection
    BY <1>4 DEF Inside
  <2>2. n + j \in 1 .. (n + i) - 1 /\ j \in 1 .. m
    BY <1>1
  <2>3. z[n + j] = Section
    BY <1>1, <2>1, <2>2
  <2>4. ASSUME NEW k \in (n + j) + 1 .. (n + i) - 1
        PROVE  z[k] # EndSection
    <3>1. k - n \in j + 1 .. i - 1 /\ k - n \in 1 .. m /\ n + (k - n) = k
      BY <1>1, <2>2
    <3>2. z[n + (k - n)] = y[k - n] /\ y[k - n] # EndSection
      BY <1>1, <2>1, <3>1
    <3>3. QED
      BY <3>1, <3>2
  <2>5. QED
    BY <2>2, <2>3, <2>4 DEF Inside
<1>5. ASSUME NEW i \in 1 .. m + 1, Inside(z, n + i)
      PROVE  Inside(y, i)
  <2>1. PICK j \in 1 .. (n + i) - 1 :
          z[j] = Section /\ \A k \in j + 1 .. (n + i) - 1 : z[k] # EndSection
    BY <1>5 DEF Inside
  <2>2. ~ (j <= n)
    <3>1. SUFFICES ASSUME j <= n PROVE FALSE
      OBVIOUS
    <3>2. j \in 1 .. n
      BY <1>1, <3>1
    <3>3. PICK k \in j + 1 .. n : x[k] = EndSection
      BY <1>1, <1>2, <2>1, <3>2
    <3>4. k \in 1 .. n /\ k \in j + 1 .. (n + i) - 1
      BY <1>1, <3>2
    <3>5. z[k] = EndSection
      BY <1>1, <3>3, <3>4
    <3>6. QED
      BY <2>1, <3>4, <3>5
  <2>3. j - n \in 1 .. i - 1 /\ j - n \in 1 .. m /\ n + (j - n) = j
    BY <1>1, <2>2
  <2>4. y[j - n] = Section
    <3>1. z[n + (j - n)] = y[j - n]
      BY <1>1, <2>3
    <3>2. QED
      BY <2>1, <2>3, <3>1
  <2>5. ASSUME NEW k \in (j - n) + 1 .. i - 1
        PROVE  y[k] # EndSection
    <3>1. n + k \in j + 1 .. (n + i) - 1 /\ k \in 1 .. m
      BY <1>1, <2>3
    <3>2. z[n + k] = y[k] /\ z[n + k] # EndSection
      BY <1>1, <2>1, <3>1
    <3>3. QED
      BY <3>2
  <2>6. QED
    BY <2>3, <2>4, <2>5 DEF Inside
<1>6. QED
  BY <1>3, <1>4, <1>5, Zenon DEF n, m

\* Sections are closed where they were.
LEMMA ClosesJoined ==
  ASSUME NEW x \in Seq(Byte), NEW y \in Seq(Byte), NEW z \in Seq(Byte), Joins(z, x, y)
  PROVE  /\ \A i \in 1 .. Len(x), e \in 1 .. Len(x) : Closes(x, i, e) => Closes(z, i, e)
         /\ \A i \in 1 .. Len(y), e \in 1 .. Len(y) :
              Closes(y, i, e) => Closes(z, Len(x) + i, Len(x) + e)
<1> DEFINE n == Len(x)
           m == Len(y)
           l == Len(z)
<1>1. /\ n \in Nat /\ m \in Nat /\ l = n + m
      /\ \A i \in 1 .. n : z[i] = x[i]
      /\ \A i \in 1 .. m : z[n + i] = y[i]
  BY JoinedAt
<1> HIDE DEF n, m, l
<1>2. ASSUME NEW i \in 1 .. n, NEW e \in 1 .. n, Closes(x, i, e)
      PROVE  Closes(z, i, e)
  <2>1. e \in i + 1 .. n /\ x[e] = EndSection /\ \A k \in i + 1 .. e - 1 : x[k] # EndSection
    BY <1>2 DEF Closes, n
  <2>2. e \in i + 1 .. l /\ z[e] = EndSection
    BY <1>1, <2>1
  <2>3. ASSUME NEW k \in i + 1 .. e - 1
        PROVE  z[k] # EndSection
    <3>1. k \in 1 .. n
      BY <1>1, <2>1
    <3>2. QED
      BY <1>1, <2>1, <3>1
  <2>4. QED
    BY <2>2, <2>3 DEF Closes, l
<1>3. ASSUME NEW i \in 1 .. m, NEW e \in 1 .. m, Closes(y, i, e)
      PROVE  Closes(z, n + i, n + e)
  <2>1. e \in i + 1 .. m /\ y[e] = EndSection /\ \A k \in i + 1 .. e - 1 : y[k] # EndSection
    BY <1>3 DEF Closes, m
  <2>2. n + e \in (n + i) + 1 .. l /\ z[n + e] = EndSection
    BY <1>1, <2>1
  <2>3. ASSUME NEW k \in (n + i) + 1 .. (n + e) - 1
        PROVE  z[k] # EndSection
    <3>1. k - n \in i + 1 .. e - 1 /\ k - n \in 1 .. m /\ n + (k - n) = k
      BY <1>1, <2>1
    <3>2. z[n + (k - n)] = y[k - n] /\ y[k - n] # EndSection
      BY <1>1, <2>1, <3>1
    <3>3. QED
      BY <3>1, <3>2
  <2>4. QED
    BY <2>2, <2>3 DEF Closes, l
<1>4. QED
  BY <1>2, <1>3, Zenon DEF n, m

\* And have the rows that they had.
LEMMA TakenJoined ==
  ASSUME NEW x \in Seq(Byte), NEW y \in Seq(Byte), NEW z \in Seq(Byte), Joins(z, x, y)
  PROVE  /\ \A i \in 1 .. Len(x), e \in 1 .. Len(x) :
              Closes(x, i, e) => Taken(z, i, e) = Taken(x, i, e)
         /\ \A i \in 1 .. Len(y), e \in 1 .. Len(y) :
              Closes(y, i, e) => Taken(z, Len(x) + i, Len(x) + e) = Taken(y, i, e)
<1> DEFINE n == Len(x)
           m == Len(y)
           l == Len(z)
<1>1. /\ n \in Nat /\ m \in Nat /\ l = n + m
      /\ \A i \in 1 .. n : z[i] = x[i]
      /\ \A i \in 1 .. m : z[n + i] = y[i]
  BY JoinedAt
<1> HIDE DEF n, m, l
<1>2. ASSUME NEW s \in Seq(Byte), NEW a \in Nat \ {0}, NEW b \in Nat, a <= b + 1, b <= Len(s)
      PROVE  /\ SubSeq(s, a, b) \in Seq(Byte) /\ Len(SubSeq(s, a, b)) = b - a + 1
             /\ \A k \in 1 .. b - a + 1 : SubSeq(s, a, b)[k] = s[a + k - 1]
  BY <1>2, PartFacts, ZenonT(40)
<1>3. ASSUME NEW i \in 1 .. n, NEW e \in 1 .. n, Closes(x, i, e)
      PROVE  SubSeq(z, i + 1, e - 1) = SubSeq(x, i + 1, e - 1)
  <2> DEFINE p == SubSeq(z, i + 1, e - 1)
             q == SubSeq(x, i + 1, e - 1)
             h == e - 1 - (i + 1) + 1
  <2>1. e \in i + 1 .. n
    BY <1>3 DEF Closes, n
  <2>2. /\ i + 1 \in Nat \ {0} /\ e - 1 \in Nat /\ i + 1 <= (e - 1) + 1
        /\ e - 1 <= n /\ e - 1 <= l /\ h \in Nat
    BY <1>1, <2>1
  <2>3. /\ p \in Seq(Byte) /\ Len(p) = h
        /\ \A k \in 1 .. h : p[k] = z[i + 1 + k - 1]
    BY <1>2, <2>2 DEF l
  <2>4. /\ q \in Seq(Byte) /\ Len(q) = h
        /\ \A k \in 1 .. h : q[k] = x[i + 1 + k - 1]
    BY <1>2, <2>2 DEF n
  <2>5. \A k \in 1 .. h : i + 1 + k - 1 \in 1 .. n
    BY <1>1, <2>1
  <2> HIDE DEF p, q, h
  <2>6. \A k \in 1 .. h : p[k] = q[k]
    BY <1>1, <2>3, <2>4, <2>5
  <2>7. p = q
    BY <2>3, <2>4, <2>6, SeqEqual
  <2>8. QED
    BY <2>7 DEF p, q
<1>4. ASSUME NEW i \in 1 .. m, NEW e \in 1 .. m, Closes(y, i, e)
      PROVE  SubSeq(z, (n + i) + 1, (n + e) - 1) = SubSeq(y, i + 1, e - 1)
  <2> DEFINE p == SubSeq(z, (n + i) + 1, (n + e) - 1)
             q == SubSeq(y, i + 1, e - 1)
             h == e - 1 - (i + 1) + 1
  <2>1. e \in i + 1 .. m
    BY <1>4 DEF Closes, m
  <2>2. /\ i + 1 \in Nat \ {0} /\ e - 1 \in Nat /\ i + 1 <= (e - 1) + 1 /\ e - 1 <= m /\ h \in Nat
        /\ (n + i) + 1 \in Nat \ {0} /\ (n + e) - 1 \in Nat /\ (n + i) + 1 <= ((n + e) - 1) + 1
        /\ (n + e) - 1 <= l /\ (n + e) - 1 - ((n + i) + 1) + 1 = h
    BY <1>1, <2>1
  <2>3. /\ p \in Seq(Byte) /\ Len(p) = (n + e) - 1 - ((n + i) + 1) + 1
        /\ \A k \in 1 .. (n + e) - 1 - ((n + i) + 1) + 1 : p[k] = z[(n + i) + 1 + k - 1]
    BY <1>2, <2>2 DEF l
  <2>4. /\ q \in Seq(Byte) /\ Len(q) = h
        /\ \A k \in 1 .. h : q[k] = y[i + 1 + k - 1]
    BY <1>2, <2>2 DEF m
  <2>5. \A k \in 1 .. h : /\ i + 1 + k - 1 \in 1 .. m
                          /\ n + (i + 1 + k - 1) = (n + i) + 1 + k - 1
    BY <1>1, <2>1
  <2> HIDE DEF p, q, h
  <2>6. ASSUME NEW k \in 1 .. h
        PROVE  p[k] = q[k]
    <3>1. p[k] = z[(n + i) + 1 + k - 1]
      BY <2>2, <2>3
    <3>2. z[n + (i + 1 + k - 1)] = y[i + 1 + k - 1]
      BY <1>1, <2>5
    <3>3. QED
      BY <2>4, <2>5, <3>1, <3>2
  <2>7. p = q
    BY <2>2, <2>3, <2>4, <2>6, SeqEqual
  <2>8. QED
    BY <2>7 DEF p, q
<1>5. ASSUME NEW i \in 1 .. m, NEW e \in 1 .. m
      PROVE  n + e = (n + i) + 1 <=> e = i + 1
  BY <1>1
<1>6. QED
  BY <1>3, <1>4, <1>5, Zenon DEF Taken, n, m

\* What is shut may be joined.
LEMMA ShutJoined ==
  ASSUME NEW x \in Seq(Byte), NEW y \in Seq(Byte), NEW z \in Seq(Byte), Joins(z, x, y),
         Shut(x), Shut(y)
  PROVE  Shut(z)
<1> DEFINE n == Len(x)
           m == Len(y)
           l == Len(z)
<1>1. /\ n \in Nat /\ m \in Nat /\ l = n + m
      /\ \A i \in 1 .. n : z[i] = x[i]
      /\ \A i \in 1 .. m : z[n + i] = y[i]
  BY JoinedAt
<1>2. /\ \A j \in 1 .. n : x[j] = Section => \E k \in j + 1 .. n : x[k] = EndSection
      /\ \A j \in 1 .. m : y[j] = Section => \E k \in j + 1 .. m : y[k] = EndSection
  BY DEF Shut
<1> HIDE DEF n, m, l
<1>3. ASSUME NEW j \in 1 .. l, z[j] = Section
      PROVE  \E k \in j + 1 .. l : z[k] = EndSection
  <2>1. CASE j <= n
    <3>1. j \in 1 .. n
      BY <1>1, <2>1
    <3>2. PICK k \in j + 1 .. n : x[k] = EndSection
      BY <1>1, <1>2, <1>3, <3>1
    <3>3. k \in 1 .. n /\ k \in j + 1 .. l
      BY <1>1, <3>1
    <3>4. QED
      BY <1>1, <3>2, <3>3
  <2>2. CASE j > n
    <3>1. j - n \in 1 .. m /\ n + (j - n) = j
      BY <1>1, <2>2
    <3>2. y[j - n] = Section
      <4>1. z[n + (j - n)] = y[j - n]
        BY <1>1, <3>1
      <4>2. QED
        BY <1>3, <3>1, <4>1
    <3>3. PICK k \in (j - n) + 1 .. m : y[k] = EndSection
      BY <1>2, <3>1, <3>2
    <3>4. k \in 1 .. m /\ n + k \in j + 1 .. l
      BY <1>1, <3>1
    <3>5. z[n + k] = EndSection
      BY <1>1, <3>3, <3>4
    <3>6. QED
      BY <3>4, <3>5
  <2>3. QED
    BY <1>1, <2>1, <2>2
<1>4. QED
  BY <1>3 DEF Shut, l
-----------------------------------------------------------------------------
Parts == Seq(Byte)

\* The rows of a section are bytes.
LEMMA SectionAtType ==
  ASSUME NEW x \in Seq(Byte), Shut(x), NEW i \in 1 .. Len(x)
  PROVE  SectionAt(x, i) \in Seq(Parts)
<1>1. <<Leaf>> \in Parts /\ <<Section>> \in Parts
  <2>1. 2 \in Byte /\ 4 \in Byte
    BY ByteIs
  <2>2. \A w \in Byte : <<w>> \in Seq(Byte)
    OBVIOUS
  <2>3. QED
    BY <2>1, <2>2, Zenon DEF Parts, Section, Leaf
<1>2. \A w \in Parts : <<w>> \in Seq(Parts)
  OBVIOUS
<1>3. CASE x[i] = Leaf
  BY <1>1, <1>2, <1>3, SectionAtIs
<1>4. CASE x[i] # Leaf /\ x[i] # Section
  <2>1. SectionAt(x, i) = <<>>
    BY <1>4, SectionAtIs
  <2>2. QED
    BY <2>1, EmptySeq
<1>5. CASE x[i] = Section
  <2>1. PICK e \in 1 .. Len(x) : Closes(x, i, e)
    BY <1>5, SectionEnds
  <2>2. SectionAt(x, i) = Taken(x, i, e)
    BY <1>5, <2>1, SectionAtIs
  <2>3. SubSeq(x, i + 1, e - 1) \in Parts
    <3>1. e \in i + 1 .. Len(x) /\ Len(x) \in Nat
      BY <2>1, LenProperties DEF Closes
    <3> DEFINE a == i + 1
               b == e - 1
    <3>2. a \in Nat \ {0} /\ b \in Nat /\ a <= b + 1 /\ b <= Len(x)
      BY <3>1
    <3> HIDE DEF a, b
    <3>3. SubSeq(x, a, b) \in Seq(Byte)
      BY <3>2, PartFacts
    <3>4. QED
      BY <3>3 DEF a, b, Parts
  <2>4. QED
    BY <1>1, <1>2, <2>2, <2>3, Zenon DEF Taken
<1>6. QED
  BY <1>3, <1>4, <1>5

\* What is read where.
SectionMap(x) == [i \in DOMAIN x |-> SectionAt(x, i)]

\* Sections joins what is found at each position.
LEMMA SectionMapFacts ==
  ASSUME NEW x \in Seq(Byte), Shut(x)
  PROVE  /\ SectionMap(x) \in Seq(Seq(Parts)) /\ Len(SectionMap(x)) = Len(x)
         /\ \A i \in 1 .. Len(x) : SectionMap(x)[i] = SectionAt(x, i)
         /\ Sections(x) = FlattenSeq(SectionMap(x))
<1> DEFINE m == SectionMap(x)
<1>1. Len(x) \in Nat /\ DOMAIN x = 1 .. Len(x)
  BY LenProperties
<1>2. m = [i \in 1 .. Len(x) |-> SectionAt(x, i)]
  BY <1>1 DEF SectionMap
<1>3. \A i \in 1 .. Len(x) : SectionAt(x, i) \in Seq(Parts)
  BY SectionAtType
<1>4. Sections(x) = FlattenSeq(m)
  BY DEF Sections, SectionMap
<1> HIDE DEF m
<1>5. m \in [1 .. Len(x) -> Seq(Parts)]
  BY <1>2, <1>3
<1>6. m \in Seq(Seq(Parts)) /\ Len(m) = Len(x)
  BY <1>1, <1>5, FunctionIsSeq
<1>7. QED
  BY <1>2, <1>4, <1>6 DEF m

\* Each part of a join has its own sections.
LEMMA SectionAtJoined ==
  ASSUME NEW x \in Seq(Byte), NEW y \in Seq(Byte), NEW z \in Seq(Byte), Joins(z, x, y),
         Shut(x), Shut(y)
  PROVE  /\ \A i \in 1 .. Len(x) : SectionAt(z, i) = SectionAt(x, i)
         /\ \A i \in 1 .. Len(y) : SectionAt(z, Len(x) + i) = SectionAt(y, i)
<1>1. /\ Len(x) \in Nat /\ Len(y) \in Nat /\ Len(z) = Len(x) + Len(y)
      /\ \A i \in 1 .. Len(x) : z[i] = x[i]
      /\ \A i \in 1 .. Len(y) : z[Len(x) + i] = y[i]
  BY JoinedAt
<1>2. /\ \A i \in 1 .. Len(x) : i \in 1 .. Len(z)
      /\ \A i \in 1 .. Len(y) : Len(x) + i \in 1 .. Len(z)
  <2> DEFINE n == Len(x)
             m == Len(y)
             l == Len(z)
  <2>1. n \in Nat /\ m \in Nat /\ l = n + m
    BY <1>1
  <2> HIDE DEF n, m, l
  <2>2. (\A i \in 1 .. n : i \in 1 .. l) /\ (\A i \in 1 .. m : n + i \in 1 .. l)
    BY <2>1
  <2>3. QED
    BY <2>2, Zenon DEF n, m, l
<1>3. ASSUME NEW i \in 1 .. Len(x)
      PROVE  SectionAt(z, i) = SectionAt(x, i)
  <2>1. z[i] = x[i] /\ i \in 1 .. Len(z)
    BY <1>1, <1>2
  <2>2. CASE x[i] = Section
    <3>1. PICK e \in 1 .. Len(x) : Closes(x, i, e)
      BY <2>2, SectionEnds
    <3>2. Closes(z, i, e) /\ Taken(z, i, e) = Taken(x, i, e)
      BY <3>1, ClosesJoined, TakenJoined
    <3>3. SectionAt(x, i) = Taken(x, i, e)
      BY <2>2, <3>1, SectionAtIs
    <3>4. SectionAt(z, i) = Taken(z, i, e)
      BY <2>1, <2>2, <3>2, SectionAtIs
    <3>5. QED
      BY <3>2, <3>3, <3>4
  <2>3. CASE x[i] # Section
    BY <2>1, <2>3, SectionAtIs
  <2>4. QED
    BY <2>2, <2>3
<1>4. ASSUME NEW i \in 1 .. Len(y)
      PROVE  SectionAt(z, Len(x) + i) = SectionAt(y, i)
  <2> DEFINE k == Len(x) + i
  <2>1. z[k] = y[i] /\ k \in 1 .. Len(z)
    BY <1>1, <1>2
  <2>2. CASE y[i] = Section
    <3>1. PICK e \in 1 .. Len(y) : Closes(y, i, e)
      BY <2>2, SectionEnds
    <3> DEFINE f == Len(x) + e
    <3>2. Closes(z, k, f) /\ Taken(z, k, f) = Taken(y, i, e)
      BY <3>1, ClosesJoined, TakenJoined
    <3>3. SectionAt(y, i) = Taken(y, i, e)
      BY <2>2, <3>1, SectionAtIs
    <3> HIDE DEF k, f
    <3>4. SectionAt(z, k) = Taken(z, k, f)
      BY <2>1, <2>2, <3>2, SectionAtIs
    <3>5. QED
      BY <3>2, <3>3, <3>4 DEF k
  <2>3. CASE y[i] # Section
    <3> HIDE DEF k
    <3>1. SectionAt(z, k) = SectionAt(y, i)
      BY <2>1, <2>3, SectionAtIs
    <3>2. QED
      BY <3>1 DEF k
  <2>4. QED
    BY <2>2, <2>3
<1>5. QED
  BY <1>3, <1>4

\* So the sections of both are those of the first and then of the second.
LEMMA SectionsConcat ==
  ASSUME NEW x \in Seq(Byte), NEW y \in Seq(Byte), Shut(x), Shut(y)
  PROVE  /\ x \o y \in Seq(Byte) /\ Shut(x \o y)
         /\ Sections(x) \in Seq(Parts) /\ Sections(y) \in Seq(Parts)
         /\ Sections(x \o y) = Sections(x) \o Sections(y)
<1> DEFINE z == x \o y
           a == SectionMap(x)
           b == SectionMap(y)
           c == SectionMap(z)
           ab == a \o b
<1>1. z \in Seq(Byte) /\ Joins(z, x, y)
  BY JoinedBytes
<1> HIDE DEF z
<1>2. Shut(z)
  BY <1>1, ShutJoined
<1>3. /\ a \in Seq(Seq(Parts)) /\ Len(a) = Len(x)
      /\ \A i \in 1 .. Len(x) : a[i] = SectionAt(x, i)
      /\ Sections(x) = FlattenSeq(a)
  BY SectionMapFacts
<1>4. /\ b \in Seq(Seq(Parts)) /\ Len(b) = Len(y)
      /\ \A i \in 1 .. Len(y) : b[i] = SectionAt(y, i)
      /\ Sections(y) = FlattenSeq(b)
  BY SectionMapFacts
<1>5. /\ c \in Seq(Seq(Parts)) /\ Len(c) = Len(z)
      /\ \A i \in 1 .. Len(z) : c[i] = SectionAt(z, i)
      /\ Sections(z) = FlattenSeq(c)
  BY <1>1, <1>2, SectionMapFacts
<1>6. /\ \A i \in 1 .. Len(x) : SectionAt(z, i) = SectionAt(x, i)
      /\ \A i \in 1 .. Len(y) : SectionAt(z, Len(x) + i) = SectionAt(y, i)
  BY <1>1, SectionAtJoined
<1> HIDE DEF a, b, c
<1>7. /\ ab \in Seq(Seq(Parts)) /\ Len(ab) = Len(a) + Len(b)
      /\ \A i \in 1 .. Len(a) : ab[i] = a[i]
      /\ \A i \in 1 .. Len(b) : ab[Len(a) + i] = b[i]
  <2>1. a \in Seq(Seq(Parts)) /\ b \in Seq(Seq(Parts))
    BY <1>3, <1>4
  <2>2. QED
    BY <2>1, Joined
<1> HIDE DEF ab
<1>8. /\ Len(x) \in Nat /\ Len(y) \in Nat
      /\ Len(z) = Len(x) + Len(y) /\ Len(c) = Len(x) + Len(y) /\ Len(ab) = Len(x) + Len(y)
  BY <1>1, <1>3, <1>4, <1>5, <1>7, JoinedAt
<1>9. ASSUME NEW i \in 1 .. Len(c)
      PROVE  c[i] = ab[i]
  <2>1. CASE i <= Len(x)
    <3>1. i \in 1 .. Len(x) /\ i \in 1 .. Len(a) /\ i \in 1 .. Len(z)
      BY <1>3, <1>8, <2>1
    <3>2. QED
      BY <1>3, <1>5, <1>6, <1>7, <3>1
  <2>2. CASE i > Len(x)
    <3> DEFINE j == i - Len(x)
    <3>1. j \in 1 .. Len(y) /\ j \in 1 .. Len(b) /\ i \in 1 .. Len(z) /\ Len(x) + j = i /\ Len(a) + j = i
      BY <1>3, <1>4, <1>8, <2>2
    <3> HIDE DEF j
    <3>2. c[i] = SectionAt(z, i) /\ b[j] = SectionAt(y, j)
      BY <1>4, <1>5, <3>1
    <3>3. SectionAt(z, Len(x) + j) = SectionAt(y, j) /\ ab[Len(a) + j] = b[j]
      BY <1>6, <1>7, <3>1
    <3>4. QED
      BY <3>1, <3>2, <3>3
  <2>3. QED
    BY <1>8, <2>1, <2>2
<1>10. c = ab
  <2>1. c \in Seq(Seq(Parts)) /\ ab \in Seq(Seq(Parts)) /\ Len(c) = Len(ab)
    BY <1>5, <1>7, <1>8
  <2>2. QED
    BY <1>9, <2>1, SeqEqual
<1>11. FlattenSeq(ab) = FlattenSeq(a) \o FlattenSeq(b)
  BY <1>3, <1>4, FlattenConcat DEF ab
<1>12. Sections(x) \in Seq(Parts) /\ Sections(y) \in Seq(Parts)
  BY <1>3, <1>4, FlattenType
<1>13. QED
  BY <1>1, <1>2, <1>3, <1>4, <1>5, <1>10, <1>11, <1>12, Zenon DEF z

-----------------------------------------------------------------------------
\* The first conjunct of WellFormedBody, and what its second one is for.
Regular(x) ==
  \A i \in 1 .. Len(x) :
    IF Inside(x, i) THEN x[i] \in Row \cup {EndSection} ELSE x[i] \in {Section, Leaf}
Ends(x) == x = <<>> \/ x[Len(x)] \in {EndSection, Leaf}

\* And what is well formed stays so.
LEMMA RegularConcat ==
  ASSUME NEW x \in Seq(Byte), NEW y \in Seq(Byte), Shut(x), Regular(x), Regular(y),
         y # <<>>, Ends(y)
  PROVE  Regular(x \o y) /\ Ends(x \o y)
<1> DEFINE z == x \o y
<1>1. z \in Seq(Byte) /\ Joins(z, x, y)
  BY JoinedBytes
<1> HIDE DEF z
<1>2. /\ \A i \in 1 .. Len(x) : Inside(z, i) <=> Inside(x, i)
      /\ \A i \in 1 .. Len(y) + 1 : Inside(z, Len(x) + i) <=> Inside(y, i)
  BY <1>1, InsideJoined
<1>3. /\ Len(x) \in Nat /\ Len(y) \in Nat /\ Len(z) = Len(x) + Len(y)
      /\ \A i \in 1 .. Len(x) : z[i] = x[i]
      /\ \A i \in 1 .. Len(y) : z[Len(x) + i] = y[i]
  BY <1>1, JoinedAt
<1>4. ASSUME NEW i \in 1 .. Len(z)
      PROVE  IF Inside(z, i) THEN z[i] \in Row \cup {EndSection} ELSE z[i] \in {Section, Leaf}
  <2>1. CASE i <= Len(x)
    <3>1. i \in 1 .. Len(x)
      BY <1>3, <2>1
    <3>2. z[i] = x[i] /\ (Inside(z, i) <=> Inside(x, i))
      BY <1>2, <1>3, <3>1
    <3>3. QED
      BY <3>1, <3>2, Zenon DEF Regular
  <2>2. CASE i > Len(x)
    <3> DEFINE j == i - Len(x)
    <3>1. j \in 1 .. Len(y) /\ j \in 1 .. Len(y) + 1 /\ Len(x) + j = i
      BY <1>3, <2>2
    <3> HIDE DEF j
    <3>2. z[i] = y[j] /\ (Inside(z, i) <=> Inside(y, j))
      <4>1. z[Len(x) + j] = y[j] /\ (Inside(z, Len(x) + j) <=> Inside(y, j))
        BY <1>2, <1>3, <3>1
      <4>2. QED
        BY <3>1, <4>1
    <3>3. QED
      BY <3>1, <3>2, Zenon DEF Regular
  <2>3. QED
    BY <1>3, <2>1, <2>2
<1>5. z[Len(z)] \in {EndSection, Leaf}
  <2>1. Len(y) \in 1 .. Len(y)
    BY EmptySeq
  <2>2. z[Len(x) + Len(y)] = y[Len(y)]
    BY <1>3, <2>1
  <2>3. QED
    BY <1>3, <2>2 DEF Ends
<1>6. QED
  BY <1>4, <1>5 DEF Regular, Ends, z
-----------------------------------------------------------------------------
Sectional == Seq(Row) \cup {<<Leaf>>}

\* What the reader makes of a section.
ReadAs(s) == IF s = <<>> THEN <<Section>> ELSE s

\* The bytes that stand for tags.
LEMMA RowIs ==
  /\ \A b \in Row : b \in Byte /\ b \notin {1, 2, 3, 4, 5, 6}
  /\ {1, 2, 3, 4, 5, 6} \subseteq Byte
<1>1. \A b \in Row : b \in Nat /\ 64 <= b /\ b < 256
  BY DEF Row
<1>2. QED
  BY <1>1, ByteIs

\* A leaf by itself.
LEMMA LeafFacts ==
  LET o == <<Leaf>>
  IN /\ o \in Seq(Byte) /\ o # <<>> /\ Shut(o) /\ Regular(o) /\ Ends(o)
     /\ Sections(o) = <<<<Leaf>>>>
<1> DEFINE o == <<Leaf>>
<1>1. Leaf \in Byte
  BY RowIs DEF Leaf
<1>2. o \in Seq(Byte) /\ Len(o) = 1 /\ o[1] = Leaf /\ o # <<>> /\ DOMAIN o = {1}
  BY <1>1
<1> HIDE DEF o
<1>3. \A i \in 1 .. Len(o) : i = 1 /\ o[i] = Leaf
  BY <1>2
<1>4. Shut(o)
  BY <1>3 DEF Shut, Leaf, Section
<1>5. ~ Inside(o, 1)
  BY DEF Inside
<1>6. Regular(o) /\ Ends(o)
  BY <1>2, <1>3, <1>5 DEF Regular, Ends
<1>7. SectionAt(o, 1) = <<<<Leaf>>>>
  BY <1>2 DEF SectionAt
<1>8. SectionMap(o) = <<<<<<Leaf>>>>>>
  BY <1>2, <1>7 DEF SectionMap
<1>9. <<<<Leaf>>>> \in Seq(Parts)
  <2>1. o \in Parts
    BY <1>2 DEF Parts
  <2>2. <<o>> \in Seq(Parts)
    BY <2>1
  <2>3. QED
    BY <2>2 DEF o
<1>10. FlattenSeq(<<<<<<Leaf>>>>>>) = <<<<Leaf>>>>
  BY <1>9, FlattenOne
<1>11. Sections(o) = <<<<Leaf>>>>
  BY <1>8, <1>10 DEF Sections, SectionMap
<1>12. QED
  BY <1>2, <1>4, <1>6, <1>11 DEF o

\* A section with rows, position by position.
LEMMA RowsAt ==
  ASSUME NEW s \in Seq(Row)
  PROVE  LET o == <<Section>> \o s \o <<EndSection>>
             n == Len(s)
         IN /\ o \in Seq(Byte) /\ Len(o) = n + 2 /\ n \in Nat
            /\ o[1] = Section /\ At(o, 1, s) /\ o[n + 2] = EndSection
            /\ \A i \in 2 .. n + 1 : o[i] \in Row
            /\ s \in Seq(Byte)
<1> DEFINE h == <<Section>>
           k == <<EndSection>>
           m == h \o s
           o == m \o k
           n == Len(s)
<1>1. h \in Seq(Byte) /\ k \in Seq(Byte) /\ Len(h) = 1 /\ Len(k) = 1 /\ h[1] = Section /\ k[1] = EndSection
  <2>1. Section \in Byte /\ EndSection \in Byte
    BY RowIs DEF Section, EndSection
  <2>2. \A w \in Byte : <<w>> \in Seq(Byte) /\ Len(<<w>>) = 1 /\ <<w>>[1] = w
    OBVIOUS
  <2>3. QED
    BY <2>1, <2>2, Zenon
<1>2. s \in Seq(Byte) /\ \A i \in 1 .. n : s[i] \in Row
  BY RowIs, SeqMonotonic, ElementOfSeq
<1>3. n \in Nat
  BY LenProperties
<1> HIDE DEF h, k
<1>4. h \in Seq(Byte) /\ k \in Seq(Byte) /\ s \in Seq(Byte)
  BY <1>1, <1>2
<1>5. m \in Seq(Byte) /\ Joins(m, h, s)
  BY <1>4, JoinedBytes
<1> HIDE DEF m
<1>6. o \in Seq(Byte) /\ Joins(o, m, k)
  BY <1>4, <1>5, JoinedBytes
<1> HIDE DEF o
<1>7. /\ Len(m) = Len(h) + n
      /\ \A i \in 1 .. Len(h) : m[i] = h[i]
      /\ \A i \in 1 .. n : m[Len(h) + i] = s[i]
  BY <1>4, <1>5, JoinedAt
<1>8. /\ Len(o) = Len(m) + Len(k)
      /\ \A i \in 1 .. Len(m) : o[i] = m[i]
      /\ \A i \in 1 .. Len(k) : o[Len(m) + i] = k[i]
  BY <1>4, <1>5, <1>6, JoinedAt
<1> DEFINE lm == Len(m)
           lo == Len(o)
<1> HIDE DEF n
<1>9. /\ lm = 1 + n /\ lo = lm + 1
      /\ m[1] = Section /\ \A i \in 1 .. n : m[1 + i] = s[i]
      /\ \A i \in 1 .. lm : o[i] = m[i]
      /\ o[lm + 1] = EndSection
  <2>1. 1 \in 1 .. Len(h) /\ 1 \in 1 .. Len(k)
    BY <1>1
  <2>2. QED
    BY <1>1, <1>7, <1>8, <2>1
<1> HIDE DEF lm, lo
<1>10. lo = n + 2 /\ lm + 1 = n + 2 /\ 1 \in 1 .. lm
  BY <1>3, <1>9
<1>11. o[1] = Section /\ o[n + 2] = EndSection
  BY <1>9, <1>10
<1>12. ASSUME NEW i \in 1 .. n
       PROVE  o[1 + i] = s[i]
  <2>1. 1 + i \in 1 .. lm
    BY <1>3, <1>9
  <2>2. QED
    BY <1>9, <2>1
<1>13. ASSUME NEW i \in 2 .. n + 1
       PROVE  o[i] \in Row
  <2>1. i - 1 \in 1 .. n /\ 1 + (i - 1) = i
    BY <1>3
  <2>2. o[1 + (i - 1)] = s[i - 1] /\ s[i - 1] \in Row
    BY <1>2, <1>12, <2>1
  <2>3. QED
    BY <2>1, <2>2
<1>14. At(o, 1, s)
  BY <1>12 DEF At, n
<1>15. QED
  BY <1>2, <1>3, <1>6, <1>10, <1>11, <1>13, <1>14, Zenon DEF lo, n, o, m, h, k

\* A section with rows by itself.
LEMMA RowsFacts ==
  ASSUME NEW s \in Seq(Row)
  PROVE  LET o == <<Section>> \o s \o <<EndSection>>
         IN /\ o \in Seq(Byte) /\ o # <<>> /\ Shut(o) /\ Regular(o) /\ Ends(o)
            /\ Sections(o) = <<ReadAs(s)>>
<1> DEFINE o == <<Section>> \o s \o <<EndSection>>
           n == Len(s)
           l == Len(o)
<1>1. /\ o \in Seq(Byte) /\ l = n + 2 /\ n \in Nat
      /\ o[1] = Section /\ At(o, 1, s) /\ o[n + 2] = EndSection
      /\ \A i \in 2 .. n + 1 : o[i] \in Row
      /\ s \in Seq(Byte)
  BY RowsAt
<1> HIDE DEF o, l, n
<1>2. /\ \A b \in Row : b # Section /\ b # EndSection /\ b # Leaf
      /\ EndSection # Section /\ EndSection # Leaf /\ Section # Leaf
  BY RowIs DEF Section, EndSection, Leaf
<1>3. \A i \in 1 .. l : i = 1 \/ i \in 2 .. n + 1 \/ i = n + 2
  BY <1>1
<1>4. \A i \in 1 .. l : o[i] = Section => i = 1
  BY <1>1, <1>2, <1>3
<1>5. Closes(o, 1, n + 2)
  <2>1. n + 2 \in 1 + 1 .. l
    BY <1>1
  <2>2. \A m \in 1 + 1 .. (n + 2) - 1 : m \in 2 .. n + 1
    BY <1>1
  <2>3. \A m \in 1 + 1 .. (n + 2) - 1 : o[m] # EndSection
    BY <1>1, <1>2, <2>2
  <2>4. QED
    BY <1>1, <2>1, <2>3 DEF Closes, l
<1>6. Shut(o)
  <2>1. ASSUME NEW j \in 1 .. l, o[j] = Section
        PROVE  \E m \in j + 1 .. l : o[m] = EndSection
    <3>1. j = 1
      BY <1>4, <2>1
    <3>2. n + 2 \in j + 1 .. l
      BY <1>1, <3>1
    <3>3. QED
      BY <1>1, <3>2
  <2>2. QED
    BY <2>1 DEF Shut, l
<1>7. ASSUME NEW i \in 1 .. l
      PROVE  IF Inside(o, i) THEN o[i] \in Row \cup {EndSection} ELSE o[i] \in {Section, Leaf}
  <2>1. CASE i = 1
    <3>1. ~ Inside(o, i)
      BY <2>1 DEF Inside
    <3>2. QED
      BY <1>1, <2>1, <3>1
  <2>2. CASE i # 1
    <3>1. Inside(o, i)
      <4>1. 1 \in 1 .. i - 1
        BY <1>1, <2>2
      <4>2. \A k \in 1 + 1 .. i - 1 : k \in 2 .. n + 1
        BY <1>1
      <4>3. \A k \in 1 + 1 .. i - 1 : o[k] # EndSection
        BY <1>1, <1>2, <4>2
      <4>4. QED
        BY <1>1, <4>1, <4>3 DEF Inside
    <3>2. o[i] \in Row \cup {EndSection}
      BY <1>1, <1>3, <2>2
    <3>3. QED
      BY <3>1, <3>2
  <2>3. QED
    BY <2>1, <2>2
<1>8. Ends(o) /\ o # <<>>
  <2>1. o[l] = EndSection
    BY <1>1
  <2>2. l # 0
    BY <1>1
  <2>3. o # <<>>
    BY <2>2, EmptySeq DEF l
  <2>4. QED
    BY <2>1, <2>3 DEF Ends, l
<1>9. SectionAt(o, 1) = <<ReadAs(s)>>
  <2>1. 1 \in 1 .. Len(o)
    BY <1>1 DEF l
  <2>2. SectionAt(o, 1) = Taken(o, 1, n + 2)
    BY <1>1, <1>5, <2>1, SectionAtIs
  <2>3. SubSeq(o, 1 + 1, 1 + n) = s
    <3>1. 1 + n <= l /\ 1 \in Nat
      BY <1>1
    <3>2. 1 + Len(s) <= Len(o)
      BY <3>1 DEF n, l
    <3>3. SubSeq(o, 1 + 1, 1 + Len(s)) = s
      BY <1>1, <3>1, <3>2, AtIsPart, Zenon
    <3>4. QED
      BY <3>3 DEF n
  <2>4. 1 + n = (n + 2) - 1 /\ (n + 2 = 1 + 1 <=> n = 0)
    BY <1>1
  <2>5. n = 0 <=> s = <<>>
    BY EmptySeq DEF n
  <2>6. QED
    BY <2>2, <2>3, <2>4, <2>5, Zenon DEF Taken, ReadAs
<1>10. \A i \in 2 .. l : SectionAt(o, i) = <<>>
  <2>1. \A i \in 2 .. l : i \in 1 .. l /\ o[i] # Leaf /\ o[i] # Section
    BY <1>1, <1>2, <1>3
  <2>2. QED
    BY <1>1, <2>1, SectionAtIs DEF l
<1>11. Sections(o) = <<ReadAs(s)>>
  <2> DEFINE t == SectionMap(o)
             e == <<ReadAs(s)>>
  <2>1. /\ t \in Seq(Seq(Parts)) /\ Len(t) = l /\ Sections(o) = FlattenSeq(t)
        /\ \A i \in 1 .. l : t[i] = SectionAt(o, i)
    BY <1>1, <1>6, SectionMapFacts DEF l
  <2> HIDE DEF t, e
  <2>2. 1 \in 1 .. l /\ \A i \in 2 .. l : i \in 1 .. l
    BY <1>1
  <2>3. t[1] = e /\ \A i \in 2 .. Len(t) : t[i] = <<>>
    BY <1>9, <1>10, <2>1, <2>2 DEF e
  <2>4. t # <<>>
    BY <2>1, <2>2, EmptySeq
  <2>5. e \in Seq(Parts)
    BY <2>1, <2>2, <2>3, ElementOfSeq
  <2>6. FlattenSeq(t) = e
    BY <2>1, <2>3, <2>4, <2>5, FlattenFirst
  <2>7. QED
    BY <2>1, <2>6 DEF e
<1>12. QED
  BY <1>1, <1>6, <1>7, <1>8, <1>11 DEF Regular, l, o

\* A section as the panel sends it, by itself.
LEMMA OpenedFacts ==
  ASSUME NEW s \in Sectional
  PROVE  LET o == Opened(s)
         IN /\ o \in Seq(Byte) /\ o # <<>> /\ Shut(o) /\ Regular(o) /\ Ends(o)
            /\ Sections(o) = <<ReadAs(s)>>
<1>1. CASE s = <<Leaf>>
  <2>1. Opened(s) = <<Leaf>> /\ ReadAs(s) = <<Leaf>>
    BY <1>1 DEF Opened, ReadAs
  <2>2. QED
    BY <2>1, LeafFacts
<1>2. CASE s # <<Leaf>>
  <2>1. s \in Seq(Row) /\ Opened(s) = <<Section>> \o s \o <<EndSection>>
    BY <1>2 DEF Opened, Sectional
  <2>2. QED
    BY <2>1, RowsFacts
<1>3. QED
  BY <1>1, <1>2
-----------------------------------------------------------------------------
OpenedOf == [s \in Sectional |-> Opened(s)]
ReadAll(ss) == [i \in DOMAIN ss |-> ReadAs(ss[i])]

\* The sections are read one by one.
LEMMA ReadAllFacts ==
  /\ ReadAll(<<>>) = <<>>
  /\ \A ss \in Seq(Sectional), s \in Sectional :
       ReadAll(ss) \o <<ReadAs(s)>> = ReadAll(Append(ss, s))
<1>1. ReadAll(<<>>) = <<>>
  BY DEF ReadAll
<1>2. ASSUME NEW ss \in Seq(Sectional), NEW s \in Sectional
      PROVE  ReadAll(ss) \o <<ReadAs(s)>> = ReadAll(Append(ss, s))
  <2> DEFINE T == {ReadAs(r) : r \in Sectional}
             u == Append(ss, s)
             a == ReadAll(ss)
             b == ReadAll(u)
             c == a \o <<ReadAs(s)>>
  <2>1. /\ u \in Seq(Sectional) /\ Len(u) = Len(ss) + 1 /\ Len(ss) \in Nat
        /\ \A i \in 1 .. Len(ss) : u[i] = ss[i]
        /\ u[Len(ss) + 1] = s
    BY AppendProperties, LenProperties
  <2> HIDE DEF u
  <2>2. ASSUME NEW w \in Seq(Sectional)
        PROVE  /\ ReadAll(w) \in Seq(T) /\ Len(ReadAll(w)) = Len(w)
               /\ \A i \in 1 .. Len(w) : ReadAll(w)[i] = ReadAs(w[i])
    <3> DEFINE m == ReadAll(w)
    <3>1. Len(w) \in Nat /\ DOMAIN w = 1 .. Len(w) /\ \A i \in 1 .. Len(w) : w[i] \in Sectional
      BY LenProperties, ElementOfSeq
    <3>2. m = [i \in 1 .. Len(w) |-> ReadAs(w[i])]
      BY <3>1 DEF ReadAll
    <3>3. \A i \in 1 .. Len(w) : ReadAs(w[i]) \in T
      BY <3>1
    <3> HIDE DEF m, T
    <3>4. m \in [1 .. Len(w) -> T]
      BY <3>2, <3>3
    <3>5. m \in Seq(T) /\ Len(m) = Len(w)
      BY <3>1, <3>4, FunctionIsSeq
    <3>6. QED
      BY <3>2, <3>5 DEF m
  <2>3. ReadAs(s) \in T
    OBVIOUS
  <2> HIDE DEF T
  <2>4. /\ a \in Seq(T) /\ Len(a) = Len(ss)
        /\ \A i \in 1 .. Len(ss) : a[i] = ReadAs(ss[i])
    BY <2>2
  <2>5. /\ b \in Seq(T) /\ Len(b) = Len(u)
        /\ \A i \in 1 .. Len(u) : b[i] = ReadAs(u[i])
    BY <2>1, <2>2
  <2> HIDE DEF a, b
  <2>6. c = Append(a, ReadAs(s))
    BY <2>3, <2>4, AppendIsConcat
  <2>7. /\ c \in Seq(T) /\ Len(c) = Len(a) + 1
        /\ \A i \in 1 .. Len(a) : c[i] = a[i]
        /\ c[Len(a) + 1] = ReadAs(s)
    BY <2>3, <2>4, <2>6, AppendProperties
  <2> HIDE DEF c
  <2>8. Len(c) = Len(b) /\ Len(c) = Len(ss) + 1
    BY <2>1, <2>4, <2>5, <2>7
  <2>9. ASSUME NEW i \in 1 .. Len(c)
        PROVE  c[i] = b[i]
    <3>1. CASE i \in 1 .. Len(ss)
      <4>1. i \in 1 .. Len(u)
        BY <2>1, <3>1
      <4>2. QED
        BY <2>1, <2>4, <2>5, <2>7, <3>1, <4>1
    <3>2. CASE i = Len(ss) + 1
      <4>1. i \in 1 .. Len(u)
        BY <2>1, <3>2
      <4>2. b[i] = ReadAs(s)
        BY <2>1, <2>5, <3>2, <4>1
      <4>3. c[i] = ReadAs(s)
        BY <2>4, <2>7, <3>2
      <4>4. QED
        BY <4>2, <4>3
    <3>3. QED
      BY <2>1, <2>8, <3>1, <3>2
  <2>10. c = b
    BY <2>5, <2>7, <2>8, <2>9, SeqEqual
  <2>11. QED
    BY <2>10 DEF a, b, c, u
<1>3. QED
  BY <1>1, <1>2

\* All sections of a reply, by induction on how many they are.
LEMMA InnerFacts ==
  ASSUME NEW ss \in Seq(Sectional)
  PROVE  LET b == Spread(OpenedOf, ss)
         IN /\ b \in Seq(Byte) /\ Shut(b) /\ Regular(b) /\ Ends(b)
            /\ Sections(b) = ReadAll(ss)
<1> DEFINE Inner(t) == Spread(OpenedOf, t)
           Good(t) == /\ Inner(t) \in Seq(Byte) /\ Shut(Inner(t)) /\ Regular(Inner(t))
                      /\ Ends(Inner(t)) /\ Sections(Inner(t)) = ReadAll(t)
           Q == {t \in Seq(Sectional) : Good(t)}
<1>1. OpenedOf \in [Sectional -> Seq(Byte)] /\ \A s \in Sectional : OpenedOf[s] = Opened(s)
  BY OpenedFacts DEF OpenedOf
<1>2. Good(<<>>)
  <2>1. Inner(<<>>) = <<>> /\ <<>> \in Seq(Byte) /\ Len(<<>>) = 0
    BY SpreadEmpty, EmptySeq
  <2>2. Shut(<<>>) /\ Regular(<<>>) /\ Ends(<<>>)
    BY DEF Shut, Regular, Ends
  <2>3. SectionMap(<<>>) = <<>>
    BY DEF SectionMap
  <2>4. Sections(<<>>) = <<>>
    BY <2>3, FlattenEmpty DEF Sections, SectionMap
  <2>5. QED
    BY <2>1, <2>2, <2>4, ReadAllFacts
<1>3. ASSUME NEW t \in Seq(Sectional), Good(t), NEW s \in Sectional
      PROVE  Good(Append(t, s))
  <2> DEFINE b == Inner(t)
             o == Opened(s)
  <2>1. Inner(Append(t, s)) = b \o o
    BY <1>1, SpreadAppend
  <2>2. b \in Seq(Byte) /\ Shut(b) /\ Regular(b) /\ Ends(b) /\ Sections(b) = ReadAll(t)
    BY <1>3
  <2>3. /\ o \in Seq(Byte) /\ o # <<>> /\ Shut(o) /\ Regular(o) /\ Ends(o)
        /\ Sections(o) = <<ReadAs(s)>>
    BY OpenedFacts
  <2> HIDE DEF b, o
  <2>4. b \o o \in Seq(Byte) /\ Shut(b \o o) /\ Sections(b \o o) = Sections(b) \o Sections(o)
    BY <2>2, <2>3, SectionsConcat
  <2>5. Regular(b \o o) /\ Ends(b \o o)
    BY <2>2, <2>3, RegularConcat
  <2>6. ReadAll(t) \o <<ReadAs(s)>> = ReadAll(Append(t, s))
    BY ReadAllFacts
  <2>7. QED
    BY <2>1, <2>2, <2>3, <2>4, <2>5, <2>6
<1> HIDE DEF Good
<1>4. <<>> \in Q /\ \A t \in Seq(Sectional), s \in Sectional : t \in Q => Append(t, s) \in Q
  BY <1>2, <1>3, EmptySeq, AppendProperties
<1> HIDE DEF Q
<1>5. \A t \in Seq(Sectional) : t \in Q
  BY <1>4, SeqInduction, Zenon
<1>6. Good(ss)
  BY <1>5 DEF Q
<1>7. QED
  BY <1>6 DEF Good

\* The bytes of a reply are the Spread of its sections, between tags.
LEMMA BytesOfReply ==
  ASSUME NEW ss \in Seq(Sectional)
  PROVE  ReplyBytes(ss) = <<Root>> \o Spread(OpenedOf, ss) \o <<CloseHead, CloseTail>>
<1>1. \A i \in DOMAIN ss : ss[i] \in Sectional
  BY LenProperties, ElementOfSeq
<1>2. [i \in DOMAIN ss |-> Opened(ss[i])] = Each(OpenedOf, ss)
  BY <1>1 DEF Each, OpenedOf
<1>3. QED
  BY <1>2, Zenon DEF ReplyBytes, Spread

\* Where those tags are.
LEMMA ReplyLayout ==
  ASSUME NEW ss \in Seq(Sectional)
  PROVE  LET x == ReplyBytes(ss)
             b == Spread(OpenedOf, ss)
             n == Len(b)
         IN /\ x \in Seq(Byte) /\ n \in Nat /\ Len(x) = n + 3
            /\ x[1] = Root /\ At(x, 1, b) /\ x[n + 2] = CloseHead /\ x[n + 3] = CloseTail
<1> DEFINE b == Spread(OpenedOf, ss)
           n == Len(b)
           h == <<Root>>
           k == <<CloseHead, CloseTail>>
           m == h \o b
           x == m \o k
<1>1. /\ h \in Seq(Byte) /\ k \in Seq(Byte) /\ Len(h) = 1 /\ Len(k) = 2
      /\ h[1] = Root /\ k[1] = CloseHead /\ k[2] = CloseTail
  <2>1. Root \in Byte /\ CloseHead \in Byte /\ CloseTail \in Byte
    BY RowIs DEF Root, CloseHead, CloseTail
  <2>2. \A w \in Byte : <<w>> \in Seq(Byte) /\ Len(<<w>>) = 1 /\ <<w>>[1] = w
    OBVIOUS
  <2>3. \A v, w \in Byte : /\ <<v, w>> \in Seq(Byte) /\ Len(<<v, w>>) = 2
                           /\ <<v, w>>[1] = v /\ <<v, w>>[2] = w
    OBVIOUS
  <2>4. QED
    BY <2>1, <2>2, <2>3, Zenon
<1>2. b \in Seq(Byte)
  BY InnerFacts
<1>3. n \in Nat
  BY <1>2, LenProperties
<1>4. x = ReplyBytes(ss)
  BY BytesOfReply
<1> HIDE DEF b, h, k
<1>5. h \in Seq(Byte) /\ k \in Seq(Byte)
  BY <1>1
<1>6. m \in Seq(Byte) /\ Joins(m, h, b) /\ At(m, Len(h), b)
  BY <1>2, <1>5, JoinedBytes, AtEnd
<1>7. m[1] = Root /\ Len(m) = 1 + n
  <2>1. 1 \in 1 .. Len(h)
    BY <1>1
  <2>2. /\ Len(m) = Len(h) + Len(b) /\ \A i \in 1 .. Len(h) : m[i] = h[i]
    BY <1>2, <1>5, <1>6, JoinedAt
  <2>3. QED
    BY <1>1, <2>1, <2>2
<1> HIDE DEF m
<1>8. x \in Seq(Byte) /\ Joins(x, m, k)
  BY <1>5, <1>6, JoinedBytes
<1> HIDE DEF x
<1>9. /\ Len(x) = Len(m) + Len(k)
      /\ \A i \in 1 .. Len(m) : x[i] = m[i]
      /\ \A i \in 1 .. Len(k) : x[Len(m) + i] = k[i]
  BY <1>5, <1>6, <1>8, JoinedAt
<1>10. At(x, 1, b)
  <2>1. Begins(x, m) /\ At(m, 1, b) /\ 1 + Len(b) <= Len(m) /\ 1 \in Nat
    <3>1. At(m, 1, b)
      BY <1>1, <1>6
    <3>2. 1 + n <= 1 + n
      BY <1>3
    <3>3. 1 + Len(b) <= Len(m)
      BY <1>7, <3>2
    <3>4. QED
      BY <1>9, <3>1, <3>3 DEF Begins
  <2>2. QED
    BY <1>2, <1>6, <2>1, AtPrefix, Zenon
<1> DEFINE lm == Len(m)
           lx == Len(x)
<1> HIDE DEF n
<1>11. /\ lm = 1 + n /\ lx = lm + 2 /\ m[1] = Root
       /\ \A i \in 1 .. lm : x[i] = m[i]
       /\ x[lm + 1] = CloseHead /\ x[lm + 2] = CloseTail
  <2>1. 1 \in 1 .. Len(k) /\ 2 \in 1 .. Len(k)
    BY <1>1
  <2>2. QED
    BY <1>1, <1>7, <1>9, <2>1
<1> HIDE DEF lm, lx
<1>12. /\ 1 \in 1 .. lm /\ lx = n + 3 /\ lm + 1 = n + 2 /\ lm + 2 = n + 3
  BY <1>3, <1>11
<1>13. x[1] = Root /\ x[n + 2] = CloseHead /\ x[n + 3] = CloseTail
  BY <1>11, <1>12
<1>14. QED
  BY <1>3, <1>4, <1>8, <1>10, <1>12, <1>13, Zenon DEF n, lx, b
-----------------------------------------------------------------------------
\* parse_reply undoes what the panel does to its sections.
THEOREM ReplyIsParsed ==
  ASSUME NEW ss \in Seq(Sectional)
  PROVE  /\ ReplyBytes(ss) \in Seq(Byte)
         /\ ParseReply(ReplyBytes(ss)) = [kind |-> "reply", sections |-> ReadAll(ss)]
<1> DEFINE x == ReplyBytes(ss)
           b == Spread(OpenedOf, ss)
           n == Len(b)
<1>1. /\ x \in Seq(Byte) /\ n \in Nat /\ Len(x) = n + 3
      /\ x[1] = Root /\ At(x, 1, b) /\ x[n + 2] = CloseHead /\ x[n + 3] = CloseTail
  BY ReplyLayout
<1>2. b \in Seq(Byte) /\ Regular(b) /\ Ends(b) /\ Sections(b) = ReadAll(ss)
  BY InnerFacts
<1> HIDE DEF x, b
<1>3. BodyOf(x) = b
  <2>1. 1 + Len(b) <= Len(x) /\ 1 \in Nat
    BY <1>1
  <2>2. SubSeq(x, 1 + 1, 1 + Len(b)) = b
    BY <1>1, <1>2, <2>1, AtIsPart, Zenon
  <2> HIDE DEF n
  <2>3. 1 + n = Len(x) - 2 /\ 1 + 1 = 2
    BY <1>1
  <2>4. QED
    BY <2>2, <2>3, Zenon DEF BodyOf, n
<1>4. WellFormedBody(b)
  <2>1. DOMAIN b = 1 .. Len(b)
    BY <1>2, LenProperties
  <2>2. \A i \in DOMAIN b :
          IF Inside(b, i) THEN b[i] \in Row \cup {EndSection} ELSE b[i] \in {Section, Leaf}
    BY <1>2, <2>1, Zenon DEF Regular
  <2>3. b # <<>> => Last(b) \in {EndSection, Leaf}
    BY <1>2, Zenon DEF Ends, Last
  <2>4. QED
    BY <2>2, <2>3, Zenon DEF WellFormedBody
<1>5. WellFormed(x)
  <2>1. Len(x) >= 3 /\ Len(x) - 1 = n + 2 /\ Len(x) = n + 3
    BY <1>1
  <2>2. QED
    BY <1>1, <1>3, <1>4, <2>1, Zenon DEF WellFormed
<1>6. ParseReply(x) = [kind |-> "reply", sections |-> Sections(BodyOf(x))]
  BY <1>5, Zenon DEF ParseReply
<1>7. QED
  BY <1>1, <1>2, <1>3, <1>6, Zenon DEF x

\* The closing tag is where a reply ends and nowhere else in it.
LEMMA TagIsAtEnd ==
  ASSUME NEW ss \in Seq(Sectional)
  PROVE  LET x == ReplyBytes(ss)
         IN /\ Tagged(x)
            /\ \A i \in 1 .. Len(x) - 1 : x[i] = CloseHead => i = Len(x) - 1
<1> DEFINE x == ReplyBytes(ss)
           b == Spread(OpenedOf, ss)
           n == Len(b)
<1>1. /\ x \in Seq(Byte) /\ n \in Nat /\ Len(x) = n + 3
      /\ x[1] = Root /\ At(x, 1, b) /\ x[n + 2] = CloseHead /\ x[n + 3] = CloseTail
  BY ReplyLayout
<1>2. \A i \in 1 .. n : x[1 + i] = b[i]
  BY <1>1 DEF At
<1>3. \A i \in 1 .. n : b[i] \in Row \cup {EndSection, Section, Leaf}
  BY InnerFacts, Zenon DEF Regular
<1> HIDE DEF x, b, n
<1>4. \A w \in Row \cup {EndSection, Section, Leaf} : w # CloseHead
  BY RowIs DEF EndSection, Section, Leaf, CloseHead
<1>5. ASSUME NEW i \in 1 .. Len(x) - 1, x[i] = CloseHead
      PROVE  i = Len(x) - 1
  <2>1. i # 1
    BY <1>1, <1>5 DEF Root, CloseHead
  <2>2. ~ (i <= n + 1)
    <3>1. SUFFICES ASSUME i <= n + 1 PROVE FALSE
      OBVIOUS
    <3>2. i - 1 \in 1 .. n /\ 1 + (i - 1) = i
      BY <1>1, <2>1, <3>1
    <3>3. x[1 + (i - 1)] = b[i - 1] /\ b[i - 1] # CloseHead
      BY <1>2, <1>3, <1>4, <3>2
    <3>4. QED
      BY <1>5, <3>2, <3>3
  <2>3. QED
    BY <1>1, <2>2
<1>6. Tagged(x)
  <2>1. n + 2 \in 1 .. Len(x) - 1 /\ (n + 2) + 1 = n + 3
    BY <1>1
  <2>2. QED
    BY <1>1, <2>1, Zenon DEF Tagged
<1>7. QED
  BY <1>5, <1>6 DEF x

\* Until all of a reply has come it is not closed.
LEMMA NotTaggedBefore ==
  ASSUME NEW ss \in Seq(Sectional), NEW p \in Seq(Byte), NEW q \in Seq(Byte),
         p \o q = ReplyBytes(ss)
  PROVE  Tagged(p) <=> q = <<>>
<1> DEFINE x == ReplyBytes(ss)
<1>1. x \in Seq(Byte) /\ Joins(x, p, q)
  BY JoinedBytes
<1>2. /\ Tagged(x)
      /\ \A i \in 1 .. Len(x) - 1 : x[i] = CloseHead => i = Len(x) - 1
  BY TagIsAtEnd
<1>3. q = <<>> => x = p
  BY ConcatEmptySeq
<1> HIDE DEF x
<1>4. /\ Len(p) \in Nat /\ Len(q) \in Nat /\ Len(x) = Len(p) + Len(q)
      /\ \A i \in 1 .. Len(p) : x[i] = p[i]
  BY <1>1, JoinedAt
<1>5. ASSUME q # <<>>, Tagged(p) PROVE FALSE
  <2>1. PICK i \in 1 .. Len(p) - 1 : p[i] = CloseHead
    BY <1>5 DEF Tagged
  <2>2. Len(q) # 0
    BY <1>5, EmptySeq
  <2>3. i \in 1 .. Len(p) /\ i \in 1 .. Len(x) - 1 /\ i # Len(x) - 1
    BY <1>4, <2>2
  <2>4. QED
    BY <1>2, <1>4, <2>1, <2>3
<1>6. QED
  BY <1>2, <1>3, <1>5
-----------------------------------------------------------------------------
\* What the panel may put on the line.
Kinds == {Event, Reply, Poll}

-----------------------------------------------------------------------------
(***************************************************************************)
(* What the panel sends.                                                   *)
(***************************************************************************)

\* The frames of the panel are frames.
LEMMA FrameIs ==
  ASSUME NEW codes \in Kinds, NEW payload \in Seq(Byte)
  PROVE  /\ FrameOf(codes, payload) \in Frames
         /\ FrameOf(codes, payload).payload = payload
         /\ <<FrameOf(codes, payload).major, FrameOf(codes, payload).minor>> = codes
<1>1. codes[1] \in Byte /\ codes[2] \in Byte /\ <<codes[1], codes[2]>> = codes
  <2>1. {0, 1, 2, 10} \subseteq Byte
    BY ByteIs
  <2>2. QED
    BY <2>1 DEF Kinds, Event, Reply, Poll
<1>2. 50462977 \in Numbers /\ 1000 \in Numbers /\ 1 \in Numbers
  BY SMT DEF Numbers, Wide
<1>3. 0 \in Flags
  <2>1. 0 \in Byte
    BY ByteIs
  <2>2. QED
    BY <2>1 DEF Flags, IsMarked
<1>4. QED
  BY <1>1, <1>2, <1>3 DEF FrameOf, Frames

\* An encoded frame has some bytes.
LEMMA EncodedIsThere ==
  ASSUME NEW f \in Frames, NEW key \in Byte, Encodable(f, key)
  PROVE  Encode(f, key) \in Seq(Byte) /\ Encode(f, key) # <<>> /\ 23 <= Len(Encode(f, key))
<1> DEFINE frame == Encode(f, key)
           n == Len(f.payload)
           m == Len(frame)
<1>1. frame \in Seq(Byte) /\ 23 + n <= m /\ n \in Wide
  BY EncodedFacts
<1>2. n \in Nat /\ m \in Nat
  BY <1>1, LenProperties DEF Wide
<1> HIDE DEF n, m
<1>3. 23 <= m /\ m # 0
  BY <1>1, <1>2
<1> HIDE DEF frame
<1>4. frame # <<>>
  BY <1>3, EmptySeq DEF m
<1>5. QED
  BY <1>1, <1>3, <1>4, Zenon DEF frame, m

\* A poll always fits into a frame.
LEMMA PollFits ==
  ASSUME NEW key \in Byte
  PROVE  FrameOf(Poll, <<>>) \in Frames /\ Encodable(FrameOf(Poll, <<>>), key)
<1> DEFINE f == FrameOf(Poll, <<>>)
           m == Len(Body(f, key))
<1>1. <<>> \in Seq(Byte) /\ Len(<<>>) = 0
  BY EmptySeq
<1>2. f \in Frames /\ f.payload = <<>>
  BY <1>1, FrameIs DEF Kinds
<1> HIDE DEF f
<1>3. Body(f, key) \in Seq(Byte) /\ m < 37 + Len(f.payload)
  BY <1>2, BodyFacts
<1>4. m \in Nat
  BY <1>3, LenProperties
<1>5. Len(f.payload) = 0
  BY <1>1, <1>2
<1> HIDE DEF m
<1>6. m <= 65535
  BY <1>3, <1>4, <1>5
<1>7. QED
  BY <1>2, <1>6 DEF Encodable, MaxFrameLen, f, m

-----------------------------------------------------------------------------
\* A frame that reached a receiver as it was sent is read as it was sent, or not at all.
LEMMA ReadIfDecoded ==
  ASSUME NEW f \in Frames, NEW key \in Byte, Encodable(f, key), NEW recv \in Byte,
         key = NoKey \/ recv = NoKey \/ recv = key,
         Fate(Encode(f, key), recv) = "decoded"
  PROVE  Decode(Encode(f, key), recv) = f
<1>1. CASE key = NoKey \/ recv = key
  BY <1>1, RoundTrip
<1>2. CASE key # NoKey /\ recv = NoKey
  BY <1>2, KeyIsNeeded
<1>3. QED
  BY <1>1, <1>2

\* Whatever byte the line changed, a payload is made of bytes.
LEMMA SpoiltPayload ==
  ASSUME NEW f \in Frames, Encodable(f, NoKey), NEW recv \in Byte,
         NEW frame, NEW i, Spoilt(frame, Encode(f, NoKey), i), Fate(frame, recv) = "decoded"
  PROVE  Decode(frame, recv).payload \in Seq(Byte)
<1> DEFINE good == Encode(f, NoKey)
           n == Len(good)
           c == Clear(frame, recv)
           total == Total(frame)
<1>0. NoKey \in Byte
  BY ByteIs DEF NoKey
<1>1. good \in Seq(Byte) /\ 23 <= n /\ Total(good) = n /\ ~ IsEncrypted(good)
  BY <1>0, EncodedIsThere, EncodedFacts
<1>2. n \in Nat
  BY <1>1, LenProperties
<1>3. /\ frame \in Seq(Byte) /\ Len(frame) = n
      /\ \A j \in 1 .. n : j # i => frame[j] = good[j]
  BY DEF Spoilt
<1>4. ~ (23 + Dlen(c) > total)
  BY DecodedMeans
<1> HIDE DEF good, n
<1>5. \A j \in 1 .. n : frame[j] \in Nat
  BY <1>3, ElementOfSeq, ByteIs
<1>6. /\ 1 \in 1 .. n /\ 2 \in 1 .. n /\ 5 \in 1 .. n /\ 22 \in 1 .. n /\ 23 \in 1 .. n
  BY <1>1, <1>2
<1>7. 23 <= total
  <2>1. CASE i = 5
    <3>1. frame[1] = good[1] /\ frame[2] = good[2]
      BY <1>3, <1>6, <2>1
    <3>2. total = n
      BY <1>1, <3>1 DEF Total, Word
    <3>3. QED
      BY <1>1, <3>2
  <2>2. CASE i # 5
    <3>1. frame[5] = good[5]
      BY <1>3, <1>6, <2>2
    <3>2. c = frame
      BY <1>1, <3>1 DEF IsEncrypted, Clear
    <3>3. frame[22] \in Nat /\ frame[23] \in Nat /\ frame[1] \in Nat /\ frame[2] \in Nat
      BY <1>5, <1>6
    <3>4. Dlen(frame) \in Nat /\ total \in Nat
      BY <3>3 DEF Dlen, Word, Total
    <3>5. ~ (23 + Dlen(frame) > total)
      BY <1>4, <3>2
    <3> HIDE DEF total, c
    <3>6. QED
      BY <3>4, <3>5
  <2>3. QED
    BY <2>1, <2>2
<1>8. QED
  BY <1>3, <1>7, PayloadType

-----------------------------------------------------------------------------
\* The characters of descriptions, legible or not.
Sendable == {char \in Nat : char < 2048}
SentAny == [char \in Sendable |-> Sent(char)]

\* Any character is sent as bytes.
LEMMA SentType ==
  /\ SentAny \in [Sendable -> Seq(Byte)]
  /\ \A char \in Sendable : SentAny[char] = Sent(char)
<1>1. ASSUME NEW char \in Sendable
      PROVE  Sent(char) \in Seq(Byte)
  <2>1. char \in Nat /\ char < 2048
    BY DEF Sendable
  <2>2. \A T : \A p \in T : <<p>> \in Seq(T)
    OBVIOUS
  <2>3. \A T : \A p, q \in T : <<p, q>> \in Seq(T)
    OBVIOUS
  <2>4. CASE char = BrokenBar \/ char < 128
    <3>1. char \in Byte
      BY <2>1, <2>4, ByteIs DEF BrokenBar
    <3>2. Sent(char) = <<char>>
      BY <2>4 DEF Sent
    <3>3. QED
      BY <2>2, <3>1, <3>2, Zenon
  <2>5. CASE ~ (char = BrokenBar \/ char < 128)
    <3> DEFINE p == 192 + (char \div 64)
               q == 128 + (char % 64)
    <3>1. Sent(char) = <<p, q>>
      BY <2>5 DEF Sent
    <3>2. p \in Nat /\ p < 256 /\ q \in Nat /\ q < 256
      BY <2>1
    <3>3. p \in Byte /\ q \in Byte
      BY <3>2, ByteIs
    <3> HIDE DEF p, q
    <3>4. QED
      BY <2>3, <3>1, <3>3, Zenon
  <2>6. QED
    BY <2>4, <2>5
<1>2. QED
  BY <1>1 DEF SentAny

\* Plain text is text.
LEMMA PlainType ==
  ASSUME NEW n \in Nat
  PROVE  Plain(n) \in Seq(Sendable)
<1>1. 97 \in Sendable
  BY DEF Sendable
<1>2. Plain(n) \in [1 .. n -> Sendable]
  BY <1>1 DEF Plain
<1>3. QED
  BY <1>2, FunctionIsSeq

\* The fields of the events of the panel.
LEMMA EventIs ==
  ASSUME NEW e \in Events
  PROVE  /\ e.kind = "event" /\ e.raw \in {GoodTime, BadTime}
         /\ e.code = <<66, 65>> /\ e.address = <<55>> /\ e.verification = <<48>>
         /\ e.extra = <<>> \/ e.extra = <<120>>
         /\ e.description \in Descriptions
<1>1. e \in [kind : {"event"}, raw : {GoodTime, BadTime}, code : {<<66, 65>>}, address : {<<55>>},
             description : Descriptions, extra : {<<>>, <<120>>}, verification : {<<48>>}]
  BY DEF Events
<1>2. QED
  BY <1>1

\* A description is text.
LEMMA DescriptionType ==
  ASSUME NEW e \in Events
  PROVE  e.description \in Seq(Sendable)
<1>0. e.description \in Descriptions
  BY EventIs, Zenon
<1>1. PICK n \in Fillers, text \in Texts : e.description = Plain(n) \o text
  BY <1>0, Zenon DEF Descriptions
<1>2. Plain(n) \in Seq(Sendable)
  BY MessagesAssumption, PlainType
<1>3. text \in Seq(Sendable)
  <2>1. PICK m \in 0 .. MaxText : text \in [1 .. m -> Characters]
    BY DEF Texts
  <2>2. m \in Nat
    BY MessagesAssumption
  <2>3. \A c \in Characters : c \in Sendable
    BY MessagesAssumption DEF Sendable
  <2>4. text \in [1 .. m -> Sendable]
    BY <2>1, <2>3
  <2>5. QED
    BY <2>2, <2>4, FunctionIsSeq
<1>4. QED
  BY <1>1, <1>2, <1>3, Joined

\* An event is sent as bytes.
LEMMA EventBytesType ==
  ASSUME NEW e \in Events
  PROVE  EventBytes(e) \in Seq(Byte)
<1> DEFINE t == EventText(e)
<1>1. t \in Seq(Sendable)
  <2>1. /\ e.code = <<66, 65>> /\ e.address = <<55>> /\ e.verification = <<48>>
        /\ e.extra = <<>> \/ e.extra = <<120>>
        /\ e.raw = 2 \/ e.raw = 3
    BY EventIs DEF GoodTime, BadTime
  <2>2. \A n \in Nat : n < 2048 => n \in Sendable
    BY DEF Sendable
  <2>3. /\ 66 \in Sendable /\ 65 \in Sendable /\ 55 \in Sendable /\ 48 \in Sendable
        /\ 120 \in Sendable /\ 2 \in Sendable /\ 3 \in Sendable /\ 1 \in Sendable
        /\ 93 \in Sendable /\ 124 \in Sendable
    BY <2>2
  <2>4. e.raw \in Sendable /\ Bar \in Sendable /\ Open \in Sendable /\ Close \in Sendable
    BY <2>1, <2>3 DEF Bar, Open, Close
  <2>5. \A T : \A p, q \in T : <<p, q>> \in Seq(T)
    OBVIOUS
  <2>6. \A T : <<>> \in Seq(T) /\ \A p \in T : <<p>> \in Seq(T)
    OBVIOUS
  <2>7. /\ <<Bar>> \in Seq(Sendable) /\ <<Close>> \in Seq(Sendable) /\ <<Open, e.raw>> \in Seq(Sendable)
        /\ <<66, 65>> \in Seq(Sendable) /\ <<55>> \in Seq(Sendable) /\ <<48>> \in Seq(Sendable)
        /\ <<120>> \in Seq(Sendable) /\ <<>> \in Seq(Sendable)
    BY <2>3, <2>4, <2>5, <2>6, Zenon
  <2>8. /\ e.code \in Seq(Sendable) /\ e.address \in Seq(Sendable) /\ e.verification \in Seq(Sendable)
        /\ e.extra \in Seq(Sendable) /\ e.description \in Seq(Sendable)
    <3>1. e.description \in Seq(Sendable)
      BY DescriptionType
    <3>2. e.code \in Seq(Sendable)
      BY <2>1, <2>7, ZenonT(40)
    <3>3. e.address \in Seq(Sendable)
      BY <2>1, <2>7, Zenon
    <3>4. e.verification \in Seq(Sendable)
      BY <2>1, <2>7, ZenonT(40)
    <3>5. e.extra \in Seq(Sendable)
      BY <2>1, <2>7, Zenon
    <3>6. QED
      BY <3>1, <3>2, <3>3, <3>4, <3>5
  <2>9. \A x, y \in Seq(Sendable) : x \o y \in Seq(Sendable)
    BY Joined
  <2>10. QED
    BY <2>7, <2>8, <2>9 DEF EventText, FieldsText
<1> HIDE DEF t
<1>2. \A i \in DOMAIN t : t[i] \in Sendable
  BY <1>1, LenProperties, ElementOfSeq
<1>3. [i \in DOMAIN t |-> Sent(t[i])] = Each(SentAny, t)
  BY <1>2, SentType DEF Each
<1>4. EventBytes(e) = FlattenSeq([i \in DOMAIN t |-> Sent(t[i])])
  BY DEF EventBytes, t
<1>5. EventBytes(e) = Spread(SentAny, t)
  BY <1>3, <1>4, Zenon DEF Spread
<1>6. QED
  BY <1>1, <1>5, SentType, SpreadType

\* The replies of the panel are of the kind that ReplyIsParsed is about.
LEMMA RepliesAre ==
  /\ Replies \subseteq Seq(Sectional)
  /\ \A m \in Messages : \/ m.kind = "event" /\ m \in Events
                         \/ m.kind = "reply" /\ m.sections \in Seq(Sectional)
<1>1. Replies \subseteq Seq(Sectional)
  BY MessagesAssumption DEF Sectional
<1>2. ASSUME NEW m \in Messages
      PROVE  \/ m.kind = "event" /\ m \in Events
             \/ m.kind = "reply" /\ m.sections \in Seq(Sectional)
  <2>1. CASE m \in Events
    BY <2>1, EventIs, ZenonT(40)
  <2>2. CASE m \in [kind : {"reply"}, sections : Replies]
    BY <1>1, <2>2
  <2>3. QED
    BY <2>1, <2>2 DEF Messages
<1>3. QED
  BY <1>1, <1>2, Zenon

\* Any message is.
LEMMA BytesType ==
  ASSUME NEW m \in Messages
  PROVE  Bytes(m) \in Seq(Byte)
<1>1. CASE m.kind = "event" /\ m \in Events
  BY <1>1, EventBytesType DEF Bytes
<1>2. CASE m.kind = "reply" /\ m.sections \in Seq(Sectional)
  BY <1>2, ReplyIsParsed DEF Bytes
<1>3. QED
  BY <1>1, <1>2, RepliesAre

\* A legible event is one that EventIsParsed is about.
LEMMA EventIsSayable ==
  ASSUME NEW e \in Events, e.description \in Seq(Legible)
  PROVE  e \in Sayable
<1>1. \A n \in Nat : n < 124 => n \in {char \in Legible : char # Bar}
  BY LegibleIs DEF Bar
<1> DEFINE P == {char \in Legible : char # Bar}
<1>2. 66 \in P /\ 65 \in P /\ 55 \in P /\ 48 \in P /\ 120 \in P
  BY <1>1
<1> HIDE DEF P
<1>3. \A T : \A p, q \in T : <<p, q>> \in Seq(T)
  OBVIOUS
<1>4. \A T : <<>> \in Seq(T) /\ \A p \in T : <<p>> \in Seq(T)
  OBVIOUS
<1>5. /\ <<66, 65>> \in Seq(P) /\ <<55>> \in Seq(P) /\ <<48>> \in Seq(P)
      /\ <<120>> \in Seq(P) /\ <<>> \in Seq(P)
  BY <1>2, <1>3, <1>4, Zenon
<1> DEFINE S == Seq(P)
           C == {<<66, 65>>}
           A == {<<55>>}
           X == {<<>>, <<120>>}
           V == {<<48>>}
<1>6. \A w \in C \cup A \cup X \cup V : w \in S
  BY <1>5, ZenonT(40)
<1>7. e \in [kind : {"event"}, raw : {GoodTime, BadTime}, code : C, address : A,
             description : Descriptions, extra : X, verification : V]
  BY DEF Events
<1> HIDE DEF C, A, X, V, S
<1>8. e \in [kind : {"event"}, raw : {GoodTime, BadTime}, code : S, address : S,
             description : Seq(Legible), extra : S, verification : S]
  BY <1>6, <1>7
<1>9. QED
  BY <1>8 DEF Sayable, Plainly, P, S

\* A reply is parsed to what it was sent as.
LEMMA ReplyMeans ==
  ASSUME NEW m \in Messages, m.kind = "reply"
  PROVE  /\ m.sections \in Seq(Sectional) /\ Bytes(m) = ReplyBytes(m.sections)
         /\ ParseReply(Bytes(m)) = Meaning(m) /\ Bytes(m) # <<>>
<1>1. m.sections \in Seq(Sectional)
  BY RepliesAre
<1>2. Bytes(m) = ReplyBytes(m.sections)
  BY DEF Bytes
<1>3. Meaning(m) = [kind |-> "reply", sections |-> ReadAll(m.sections)]
  BY DEF Meaning, ReadAll, ReadAs
<1>4. Bytes(m) # <<>>
  <2> DEFINE x == ReplyBytes(m.sections)
             n == Len(Spread(OpenedOf, m.sections))
  <2>1. Len(x) = n + 3 /\ n \in Nat /\ x \in Seq(Byte)
    BY <1>1, ReplyLayout
  <2> HIDE DEF x, n
  <2>2. Len(x) # 0
    BY <2>1
  <2>3. x # <<>>
    BY <2>2, EmptySeq
  <2>4. QED
    BY <1>2, <2>3 DEF x
<1>5. QED
  BY <1>1, <1>2, <1>3, <1>4, ReplyIsParsed
-----------------------------------------------------------------------------
(***************************************************************************)
(* What a frame on its way is: one that the panel encoded, which the line  *)
(* has left alone, or changed in a byte.  A frame behind one that was      *)
(* changed and yet not noticed is as it was sent.                          *)
(***************************************************************************)
OnItsWay ==
  line # <<>> =>
    \E f \in Frames :
      /\ Encodable(f, sendKey)
      /\ \/ line = Encode(f, sendKey) /\ (damaged = 0 \/ damaged \in Unvouched)
         \/ sendKey = NoKey /\ damaged # 0 /\ Spoilt(line, Encode(f, NoKey), damaged)

\* The receiver has made up its mind only when nothing is on its way.
Awaited == line # <<>> => got = Nothing

\* Of an event nothing was sent yet, or all of it is on its way, or it was read.
EventProgress ==
  said.kind = "event" /\ said.description \in Seq(Legible) /\ Readable =>
    IF got = Nothing
    THEN \/ /\ rest = Bytes(said)
            /\ line = <<>> \/ line = Encode(FrameOf(Poll, <<>>), sendKey)
         \/ /\ Encodable(FrameOf(Event, Bytes(said)), sendKey)
            /\ line = Encode(FrameOf(Event, Bytes(said)), sendKey)
    ELSE got = Meaning(said)

\* Nothing of the reply is on its way, and some of it is still to be sent; the panel
\* has sent a fragment for each pass, and perhaps one that brings nothing.
BetweenFragments ==
  /\ rest # <<>> /\ buf \o rest = Bytes(said)
  /\ \/ cuts = passes /\ (line = <<>> \/ line = Encode(FrameOf(Poll, <<>>), sendKey))
     \/ /\ cuts = passes + 1
        /\ Encodable(FrameOf(Reply, <<>>), sendKey)
        /\ line = Encode(FrameOf(Reply, <<>>), sendKey)

\* A piece of it is on its way: what was assembled, the piece and what is still to be
\* sent are the reply.
FragmentOnItsWay ==
  /\ cuts = passes + 1
  /\ \E mark \in Marker, piece \in Seq(Byte) :
       /\ Encodable(FrameOf(Reply, <<mark>> \o piece), sendKey)
       /\ line = Encode(FrameOf(Reply, <<mark>> \o piece), sendKey)
       /\ (buf \o piece) \o rest = Bytes(said)

\* The command goes on while it has a pass left; when it has made up its mind it has
\* taken a pass for each fragment, and all of the passes if it has given up.
Settled(outcome, n) ==
  /\ outcome = Outcome
  /\ cuts = n /\ n <= MaxFragments
  /\ outcome = Unclosed => n = MaxFragments

ReplyProgress ==
  said.kind = "reply" /\ Readable =>
    IF got = Nothing THEN passes < MaxFragments /\ (BetweenFragments \/ FragmentOnItsWay)
    ELSE Settled(got, passes)

IInv ==
  /\ TypeOK /\ OnItsWay /\ Awaited
  /\ DamageIsNoticed /\ EventProgress /\ ReplyProgress

\* A receiver has the key of the panel or none.
LEMMA KeysAreBytes ==
  ASSUME TypeOK
  PROVE  sendKey \in Byte /\ recvKey \in Byte /\ NoKey \in Byte
         /\ (sendKey = NoKey \/ recvKey = NoKey \/ recvKey = sendKey)
<1>1. Key \in Byte /\ NoKey \in Byte
  BY MessagesAssumption, ByteIs DEF NoKey
<1>2. QED
  BY <1>1 DEF TypeOK

\* At first nothing is on its way, and all of the message is still to be sent.
LEMMA InitIInv == Init => IInv
<1> SUFFICES ASSUME Init PROVE IInv
  OBVIOUS
<1> USE DEF Init
<1>1. said \in Messages /\ rest = Bytes(said) /\ rest \in Seq(Byte)
  BY BytesType
<1>2. <<>> \in Seq(Byte) /\ Len(<<>>) = 0
  BY EmptySeq
<1>3. TypeOK
  BY <1>1, <1>2, MessagesAssumption DEF TypeOK, Nothing
<1>4. OnItsWay /\ Awaited /\ DamageIsNoticed
  BY DEF OnItsWay, Awaited, DamageIsNoticed
<1>5. EventProgress
  BY DEF EventProgress
<1>6. ReplyProgress
  <2>1. SUFFICES ASSUME said.kind = "reply" PROVE BetweenFragments
    BY MessagesAssumption DEF ReplyProgress
  <2>2. Bytes(said) # <<>>
    BY <1>1, <2>1, ReplyMeans
  <2>3. buf \o rest = Bytes(said)
    BY <1>1, ConcatEmptySeq
  <2>4. QED
    BY <1>1, <2>2, <2>3 DEF BetweenFragments
<1>7. QED
  BY <1>3, <1>4, <1>5, <1>6 DEF IInv

\* A piece behind a fragment marker.
LEMMA MarkedType ==
  ASSUME NEW mark \in Marker, NEW piece \in Seq(Byte)
  PROVE  <<mark>> \o piece \in Seq(Byte) /\ <<mark>> \in Seq(Byte)
<1>1. \A T : \A p \in T : <<p>> \in Seq(T)
  OBVIOUS
<1>2. mark \in Byte
  BY ByteIs DEF Marker
<1>3. <<mark>> \in Seq(Byte)
  BY <1>1, <1>2, Zenon
<1>4. QED
  BY <1>3, Joined

-----------------------------------------------------------------------------
\* Sending.
LEMMA FragmentIs ==
  ASSUME TypeOK, NEW k \in 0 .. Len(rest)
  PROVE  /\ Fragment(k) \in Frames
         /\ SubSeq(rest, k + 1, Len(rest)) \in Seq(Byte)
         /\ k = Len(rest) => SubSeq(rest, k + 1, Len(rest)) = <<>>
         /\ k = 0 => SubSeq(rest, k + 1, Len(rest)) = rest
         /\ said.kind = "event" => Fragment(k) = FrameOf(Event, rest)
         /\ said.kind # "event" /\ k = 0 => Fragment(k) = FrameOf(Reply, <<>>)
         /\ said.kind # "event" /\ k # 0 =>
              \E mark \in Marker, piece \in Seq(Byte) :
                /\ Fragment(k) = FrameOf(Reply, <<mark>> \o piece)
                /\ piece \o SubSeq(rest, k + 1, Len(rest)) = rest
<1> DEFINE n == Len(rest)
           piece == SubSeq(rest, 1, k)
           left == SubSeq(rest, k + 1, n)
           mark == IF rest = Bytes(said) THEN 1 ELSE 2
<1>1. rest \in Seq(Byte) /\ n \in Nat
  BY LenProperties DEF TypeOK
<1> HIDE DEF piece, left, mark
<1>2. k \in Nat /\ k <= n
  <2>1. k \in 0 .. n
    BY Zenon
  <2> HIDE DEF n
  <2>2. QED
    BY <1>1, <2>1
<1> USE DEF piece, left, mark
<1>3. piece \in Seq(Byte) /\ left \in Seq(Byte) /\ piece \o left = rest
  <2>1. /\ 1 \in Nat \ {0} /\ k + 1 \in Nat \ {0} /\ 1 <= k + 1 /\ k + 1 <= n + 1
        /\ k <= n /\ n <= n
    BY <1>1, <1>2
  <2>2. piece \in Seq(Byte) /\ left \in Seq(Byte)
    BY <1>1, <1>2, <2>1, PartFacts
  <2>3. piece \o left = SubSeq(rest, 1, n)
    <3>1. 1 \in 1 .. n + 1 /\ k \in 1 - 1 .. n /\ n \in k .. n
      BY <1>1, <1>2
    <3>2. \A T : \A s \in Seq(T) : \A m \in 1 .. Len(s) + 1 : \A j \in m - 1 .. Len(s) :
            \A i \in j .. Len(s) : SubSeq(s, m, j) \o SubSeq(s, j + 1, i) = SubSeq(s, m, i)
      BY ConcatAdjacentSubSeq
    <3>3. QED
      BY <1>1, <3>1, <3>2, Zenon
  <2>4. SubSeq(rest, 1, n) = rest
    BY <1>1, SubSeqFull
  <2>5. QED
    BY <2>2, <2>3, <2>4, Zenon
<1>4. k = n => left = <<>>
  <2>1. k + 1 \in Int /\ n \in Int /\ (k = n => n < k + 1)
    BY <1>1, <1>2
  <2>2. QED
    BY <2>1, SubSeqEmpty
<1>5. k = 0 => left = rest
  BY <1>1, SubSeqFull
<1>6. mark \in Marker
  BY DEF Marker
<1>7. said.kind = "event" => Fragment(k) = FrameOf(Event, rest)
  BY DEF Fragment
<1>8. said.kind # "event" /\ k = 0 => Fragment(k) = FrameOf(Reply, <<>>)
  BY DEF Fragment
<1>9. said.kind # "event" /\ k # 0 => Fragment(k) = FrameOf(Reply, <<mark>> \o piece)
  BY DEF Fragment
<1> HIDE DEF mark, piece, left, n
<1>10. <<mark>> \o piece \in Seq(Byte) /\ <<>> \in Seq(Byte)
  BY <1>3, <1>6, MarkedType, EmptySeq
<1>11. Fragment(k) \in Frames
  BY <1>1, <1>7, <1>8, <1>9, <1>10, FrameIs DEF Kinds
<1>12. QED
  BY <1>3, <1>4, <1>5, <1>6, <1>7, <1>8, <1>9, <1>11, Zenon DEF left, n
-----------------------------------------------------------------------------
\* When nothing is on its way and the receiver waits, the line has done no damage that
\* had to be noticed, and all that was sent was read.
LEMMA WhenIdle ==
  ASSUME IInv, got = Nothing, line = <<>>
  PROVE  /\ damaged = 0 \/ damaged \in Unvouched
         /\ said.kind = "event" /\ said.description \in Seq(Legible) /\ Readable => rest = Bytes(said)
         /\ said.kind = "reply" /\ Readable =>
              /\ rest # <<>> /\ buf \o rest = Bytes(said)
              /\ cuts = passes /\ passes < MaxFragments
<1>1. sendKey \in Byte
  BY KeysAreBytes DEF IInv
<1>2. damaged = 0 \/ damaged \in Unvouched
  BY DEF IInv, DamageIsNoticed, Nothing
<1>3. ASSUME said.kind = "event", said.description \in Seq(Legible), Readable
      PROVE  rest = Bytes(said)
  <2> DEFINE f == FrameOf(Event, Bytes(said))
  <2>1. SUFFICES ASSUME Encodable(f, sendKey), line = Encode(f, sendKey) PROVE FALSE
    BY <1>3 DEF IInv, EventProgress
  <2>2. Bytes(said) \in Seq(Byte)
    BY BytesType DEF IInv, TypeOK
  <2>3. f \in Frames
    BY <2>2, FrameIs DEF Kinds
  <2> HIDE DEF f
  <2>4. QED
    BY <1>1, <2>1, <2>3, EncodedIsThere
<1>4. ASSUME said.kind = "reply", Readable
      PROVE  /\ rest # <<>> /\ buf \o rest = Bytes(said)
             /\ cuts = passes /\ passes < MaxFragments
  <2>1. passes < MaxFragments /\ (BetweenFragments \/ FragmentOnItsWay)
    BY <1>4 DEF IInv, ReplyProgress
  <2>2. ~ FragmentOnItsWay
    <3>1. SUFFICES ASSUME NEW mark \in Marker, NEW piece \in Seq(Byte),
                          Encodable(FrameOf(Reply, <<mark>> \o piece), sendKey),
                          line = Encode(FrameOf(Reply, <<mark>> \o piece), sendKey)
                   PROVE  FALSE
      BY DEF FragmentOnItsWay
    <3>2. <<mark>> \o piece \in Seq(Byte)
      BY MarkedType
    <3> DEFINE p == <<mark>> \o piece
               f == FrameOf(Reply, p)
    <3> HIDE DEF p
    <3>3. f \in Frames
      BY <3>2, FrameIs DEF Kinds, p
    <3> HIDE DEF f
    <3>4. QED
      BY <1>1, <3>1, <3>3, EncodedIsThere DEF f, p
  <2>3. ~ (/\ Encodable(FrameOf(Reply, <<>>), sendKey)
           /\ line = Encode(FrameOf(Reply, <<>>), sendKey))
    <3> DEFINE f == FrameOf(Reply, <<>>)
    <3>1. f \in Frames
      BY EmptySeq, FrameIs DEF Kinds
    <3> HIDE DEF f
    <3>2. ~ (Encodable(f, sendKey) /\ line = Encode(f, sendKey))
      BY <1>1, <3>1, EncodedIsThere
    <3>3. QED
      BY <3>2 DEF f
  <2>4. QED
    BY <2>1, <2>2, <2>3 DEF BetweenFragments
<1>5. QED
  BY <1>2, <1>3, <1>4

\* An event, or a piece of a reply, is put on the line.
LEMMA SendStep ==
  ASSUME IInv, Send
  PROVE  IInv'
<1>1. /\ TypeOK /\ got = Nothing /\ line = <<>>
      /\ UNCHANGED <<said, sendKey, recvKey, damaged, buf, passes, got>>
      /\ cuts' = IF said.kind = "event" THEN cuts ELSE cuts + 1
  BY DEF IInv, Send
<1>2. PICK k \in IF said.kind = "event" THEN {Len(rest)} ELSE 0 .. Len(rest) :
        /\ Encodable(Fragment(k), sendKey)
        /\ line' = Encode(Fragment(k), sendKey)
        /\ rest' = SubSeq(rest, k + 1, Len(rest))
  BY DEF Send
<1>3. /\ rest \in Seq(Byte) /\ Len(rest) \in Nat /\ k \in 0 .. Len(rest)
      /\ said.kind = "event" => k = Len(rest)
  BY <1>1, <1>2, LenProperties DEF TypeOK
<1> DEFINE f == Fragment(k)
<1>4. /\ f \in Frames /\ rest' \in Seq(Byte)
      /\ k = Len(rest) => rest' = <<>>
      /\ k = 0 => rest' = rest
      /\ said.kind = "event" => f = FrameOf(Event, rest)
      /\ said.kind # "event" /\ k = 0 => f = FrameOf(Reply, <<>>)
      /\ said.kind # "event" /\ k # 0 =>
           \E mark \in Marker, piece \in Seq(Byte) :
             /\ f = FrameOf(Reply, <<mark>> \o piece)
             /\ piece \o rest' = rest
  BY <1>1, <1>2, <1>3, FragmentIs, Zenon
<1> HIDE DEF f
<1>5. Encodable(f, sendKey) /\ line' = Encode(f, sendKey)
  BY <1>2 DEF f
<1>6. sendKey \in Byte
  BY <1>1, KeysAreBytes
<1>7. line' \in Seq(Byte) /\ line' # <<>>
  BY <1>4, <1>5, <1>6, EncodedIsThere
<1>8. /\ damaged = 0 \/ damaged \in Unvouched
      /\ said.kind = "event" /\ said.description \in Seq(Legible) /\ Readable => rest = Bytes(said)
      /\ said.kind = "reply" /\ Readable =>
           /\ rest # <<>> /\ buf \o rest = Bytes(said)
           /\ cuts = passes /\ passes < MaxFragments
  BY <1>1, WhenIdle
<1>9. TypeOK'
  BY <1>1, <1>4, <1>7 DEF TypeOK
<1>10. OnItsWay'
  <2>1. Unvouched' = Unvouched
    BY <1>1 DEF Unvouched
  <2>2. QED
    BY <1>1, <1>4, <1>5, <1>8, <2>1 DEF OnItsWay
<1>11. Awaited' /\ DamageIsNoticed'
  BY <1>1, <1>7 DEF Awaited, DamageIsNoticed
<1>12. EventProgress'
  <2>1. Readable' = Readable
    BY <1>1 DEF Readable
  <2>2. SUFFICES ASSUME said.kind = "event", said.description \in Seq(Legible), Readable
                 PROVE  /\ Encodable(FrameOf(Event, Bytes(said)), sendKey)
                        /\ line' = Encode(FrameOf(Event, Bytes(said)), sendKey)
    BY <1>1, <2>1 DEF EventProgress
  <2>3. QED
    BY <1>4, <1>5, <1>8, <2>2
<1>13. ReplyProgress'
  <2>1. Readable' = Readable
    BY <1>1 DEF Readable
  <2>2. SUFFICES ASSUME said.kind = "reply", Readable
                 PROVE  BetweenFragments' \/ FragmentOnItsWay'
    BY <1>1, <1>8, <2>1 DEF ReplyProgress
  <2>3. rest # <<>> /\ buf \o rest = Bytes(said) /\ cuts' = passes' + 1
    BY <1>1, <1>8, <2>2
  <2>4. CASE k = 0
    BY <1>1, <1>4, <1>5, <2>2, <2>3, <2>4 DEF BetweenFragments
  <2>5. CASE k # 0
    <3>1. PICK mark \in Marker, piece \in Seq(Byte) :
            f = FrameOf(Reply, <<mark>> \o piece) /\ piece \o rest' = rest
      BY <1>4, <2>2, <2>5
    <3>2. (buf \o piece) \o rest' = buf \o (piece \o rest')
      <4>1. buf \in Seq(Byte) /\ piece \in Seq(Byte) /\ rest' \in Seq(Byte)
        BY <1>1, <1>4 DEF TypeOK
      <4>2. Regrouped(buf, piece, rest')
        BY <4>1, Regroup, Zenon
      <4>3. QED
        BY <4>2, Zenon DEF Regrouped
    <3>3. (buf \o piece) \o rest' = Bytes(said)
      BY <2>3, <3>1, <3>2
    <3>4. QED
      BY <1>1, <1>5, <2>3, <3>1, <3>3, Zenon DEF FragmentOnItsWay
  <2>6. QED
    BY <2>4, <2>5
<1>14. QED
  BY <1>9, <1>10, <1>11, <1>12, <1>13 DEF IInv

\* A poll is.
LEMMA SendPollStep ==
  ASSUME IInv, SendPoll
  PROVE  IInv'
<1> DEFINE f == FrameOf(Poll, <<>>)
<1>1. /\ TypeOK /\ got = Nothing /\ line = <<>> /\ line' = Encode(f, sendKey)
      /\ UNCHANGED <<said, rest, sendKey, recvKey, damaged, buf, passes, got, cuts>>
  BY DEF IInv, SendPoll
<1>2. sendKey \in Byte
  BY <1>1, KeysAreBytes
<1>3. f \in Frames /\ Encodable(f, sendKey)
  BY <1>2, PollFits
<1> HIDE DEF f
<1>4. line' \in Seq(Byte) /\ line' # <<>>
  BY <1>1, <1>2, <1>3, EncodedIsThere
<1>5. /\ damaged = 0 \/ damaged \in Unvouched
      /\ said.kind = "event" /\ said.description \in Seq(Legible) /\ Readable => rest = Bytes(said)
      /\ said.kind = "reply" /\ Readable =>
           /\ rest # <<>> /\ buf \o rest = Bytes(said)
           /\ cuts = passes /\ passes < MaxFragments
  BY <1>1, WhenIdle
<1>6. TypeOK'
  BY <1>1, <1>4 DEF TypeOK
<1>7. OnItsWay'
  BY <1>1, <1>3, <1>5 DEF OnItsWay, Unvouched
<1>8. Awaited' /\ DamageIsNoticed'
  BY <1>1, <1>4 DEF Awaited, DamageIsNoticed
<1>9. EventProgress'
  BY <1>1, <1>5 DEF EventProgress, Readable, f
<1>10. ReplyProgress'
  BY <1>1, <1>5 DEF ReplyProgress, Readable, BetweenFragments, f
<1>11. QED
  BY <1>6, <1>7, <1>8, <1>9, <1>10 DEF IInv
-----------------------------------------------------------------------------
(***************************************************************************)
(* The line, and what may come of it.                                      *)
(***************************************************************************)

\* A byte to which something was added, modulo 256, is another one.
LEMMA NoiseTells ==
  ASSUME NEW b \in Byte, NEW noise \in Noises
  PROVE  (b + noise) % 256 \in Byte /\ (b + noise) % 256 # b
<1>1. b \in Nat /\ b < 256
  BY ByteIs
<1>2. noise \in Nat /\ noise # 0 /\ noise < 256
  BY MessagesAssumption
<1>3. (b + noise) % 256 \in Nat /\ (b + noise) % 256 < 256 /\ (b + noise) % 256 # b
  BY <1>1, <1>2
<1>4. QED
  BY <1>3, ByteIs

\* The line changes a byte of a frame, which was whole until then.
LEMMA DamageStep ==
  ASSUME IInv, NEW i \in DOMAIN line, NEW noise \in Noises, Damage(i, noise)
  PROVE  IInv'
<1>1. /\ TypeOK /\ sendKey = NoKey /\ damaged = 0 /\ damaged' = i
      /\ line' = [line EXCEPT ![i] = (@ + noise) % 256]
      /\ UNCHANGED <<said, rest, sendKey, recvKey, buf, passes, got, cuts>>
  BY DEF IInv, Damage
<1>2. /\ line \in Seq(Byte) /\ i \in 1 .. Len(line) /\ Len(line) \in Nat /\ line # <<>>
      /\ line[i] \in Byte /\ i # 0 /\ i \in Nat
  <2>1. line \in Seq(Byte) /\ DOMAIN line = 1 .. Len(line) /\ Len(line) \in Nat
    BY <1>1, LenProperties DEF TypeOK
  <2>2. i \in Nat /\ i # 0 /\ Len(line) # 0
    BY <2>1
  <2>3. line[i] \in Byte /\ line # <<>>
    BY <2>1, <2>2, ElementOfSeq, EmptySeq
  <2>4. QED
    BY <2>1, <2>2, <2>3
<1>3. (line[i] + noise) % 256 \in Byte /\ (line[i] + noise) % 256 # line[i]
  BY <1>2, NoiseTells
<1>4. /\ line' \in Seq(Byte) /\ Len(line') = Len(line)
      /\ line'[i] # line[i] /\ \A j \in 1 .. Len(line) : j # i => line'[j] = line[j]
  <2> DEFINE n == Len(line)
             b == (line[i] + noise) % 256
  <2>1. line \in [1 .. n -> Byte] /\ n \in Nat /\ i \in 1 .. n
    BY <1>2, ElementOfSeq, LenProperties
  <2>2. line' = [line EXCEPT ![i] = b] /\ b \in Byte /\ b # line[i]
    BY <1>1, <1>3
  <2> HIDE DEF n, b
  <2>3. /\ line' \in [1 .. n -> Byte] /\ line'[i] # line[i]
        /\ \A j \in 1 .. n : j # i => line'[j] = line[j]
    BY <2>1, <2>2
  <2>4. line' \in Seq(Byte) /\ Len(line') = n
    BY <2>1, <2>3, FunctionIsSeq
  <2>5. QED
    BY <2>3, <2>4 DEF n
<1>5. line' # <<>>
  <2>1. Len(line) # 0 /\ Len(<<>>) = 0
    BY <1>2
  <2>2. QED
    BY <1>4, <2>1
<1>6. TypeOK'
  BY <1>1, <1>2, <1>4 DEF TypeOK
<1>7. OnItsWay'
  <2>1. PICK f \in Frames : Encodable(f, NoKey) /\ line = Encode(f, NoKey)
    BY <1>1, <1>2 DEF IInv, OnItsWay
  <2>2. Spoilt(line', Encode(f, NoKey), i)
    BY <1>2, <1>4, <2>1 DEF Spoilt
  <2>3. QED
    BY <1>1, <1>2, <2>1, <2>2 DEF OnItsWay
<1>8. Awaited'
  BY <1>1, <1>2 DEF IInv, Awaited
<1>9. DamageIsNoticed' /\ EventProgress' /\ ReplyProgress'
  BY <1>1, <1>2, <1>5 DEF DamageIsNoticed, EventProgress, ReplyProgress, Readable
<1>10. QED
  BY <1>6, <1>7, <1>8, <1>9 DEF IInv

-----------------------------------------------------------------------------
\* What a frame on its way may be read as.
LEMMA WhatIsRead ==
  ASSUME IInv, line # <<>>, Fate(line, recvKey) = "decoded"
  PROVE  /\ Decode(line, recvKey).payload \in Seq(Byte)
         /\ damaged = 0 \/ damaged \in Unvouched
         /\ \A f \in Frames :
              Encodable(f, sendKey) /\ line = Encode(f, sendKey) => Decode(line, recvKey) = f
<1>1. sendKey \in Byte /\ recvKey \in Byte /\ NoKey \in Byte
      /\ (sendKey = NoKey \/ recvKey = NoKey \/ recvKey = sendKey)
  BY KeysAreBytes DEF IInv
<1>2. ASSUME NEW f \in Frames, Encodable(f, sendKey), line = Encode(f, sendKey)
      PROVE  Decode(line, recvKey) = f
  BY <1>1, <1>2, ReadIfDecoded
<1>3. PICK f \in Frames :
        /\ Encodable(f, sendKey)
        /\ \/ line = Encode(f, sendKey) /\ (damaged = 0 \/ damaged \in Unvouched)
           \/ sendKey = NoKey /\ damaged # 0 /\ Spoilt(line, Encode(f, NoKey), damaged)
  BY DEF IInv, OnItsWay
<1>4. CASE line = Encode(f, sendKey) /\ (damaged = 0 \/ damaged \in Unvouched)
  <2>1. Decode(line, recvKey) = f
    BY <1>2, <1>3, <1>4
  <2>2. f.payload \in Seq(Byte)
    BY DEF Frames
  <2>3. QED
    BY <1>2, <1>4, <2>1, <2>2
<1>5. CASE sendKey = NoKey /\ damaged # 0 /\ Spoilt(line, Encode(f, NoKey), damaged)
  <2>1. Decode(line, recvKey).payload \in Seq(Byte)
    BY <1>1, <1>3, <1>5, SpoiltPayload
  <2>2. damaged \in {22, 23} \/ (damaged = 5 /\ recvKey # NoKey)
    BY <1>1, <1>3, <1>5, DamagedFrame
  <2>3. damaged \in Unvouched
    BY <2>2 DEF Unvouched
  <2>4. QED
    BY <1>2, <2>1, <2>3
<1>6. QED
  BY <1>3, <1>4, <1>5
-----------------------------------------------------------------------------
\* A receiver that can read frames reads this one.
LEMMA ReadableIsRead ==
  ASSUME IInv, Readable, NEW f \in Frames, Encodable(f, sendKey), line = Encode(f, sendKey)
  PROVE  Fate(line, recvKey) = "decoded" /\ Decode(line, recvKey) = f
<1>1. sendKey \in Byte /\ recvKey \in Byte /\ NoKey \in Byte
  BY KeysAreBytes DEF IInv
<1>2. sendKey = NoKey \/ recvKey = sendKey
  BY DEF IInv, TypeOK, Readable
<1>3. QED
  BY <1>1, <1>2, RoundTrip

\* What the receiver makes of a frame on its way, of an event and of a reply.
LEMMA EventArrives ==
  ASSUME IInv, line # <<>>, said.kind = "event", said.description \in Seq(Legible), Readable
  PROVE  /\ Fate(line, recvKey) = "decoded"
         /\ \/ rest = Bytes(said) /\ Decode(line, recvKey) = FrameOf(Poll, <<>>)
            \/ Decode(line, recvKey) = FrameOf(Event, Bytes(said))
<1>1. got = Nothing
  BY DEF IInv, Awaited
<1>2. sendKey \in Byte
  BY KeysAreBytes DEF IInv
<1>3. CASE rest = Bytes(said) /\ line = Encode(FrameOf(Poll, <<>>), sendKey)
  <2> DEFINE f == FrameOf(Poll, <<>>)
  <2>1. f \in Frames /\ Encodable(f, sendKey) /\ line = Encode(f, sendKey)
    BY <1>2, <1>3, PollFits
  <2> HIDE DEF f
  <2>2. Fate(line, recvKey) = "decoded" /\ Decode(line, recvKey) = f
    BY <2>1, ReadableIsRead
  <2>3. QED
    BY <1>3, <2>2 DEF f
<1>4. CASE /\ Encodable(FrameOf(Event, Bytes(said)), sendKey)
           /\ line = Encode(FrameOf(Event, Bytes(said)), sendKey)
  <2> DEFINE f == FrameOf(Event, Bytes(said))
  <2>1. Bytes(said) \in Seq(Byte)
    BY BytesType DEF IInv, TypeOK
  <2>2. f \in Frames /\ Encodable(f, sendKey) /\ line = Encode(f, sendKey)
    BY <1>4, <2>1, FrameIs DEF Kinds
  <2> HIDE DEF f
  <2>3. Fate(line, recvKey) = "decoded" /\ Decode(line, recvKey) = f
    BY <2>2, ReadableIsRead
  <2>4. QED
    BY <2>3 DEF f
<1>5. QED
  BY <1>1, <1>3, <1>4 DEF IInv, EventProgress

\* ... and of a reply.
LEMMA ReplyArrives ==
  ASSUME IInv, line # <<>>, said.kind = "reply", Readable
  PROVE  /\ Fate(line, recvKey) = "decoded"
         /\ passes < MaxFragments
         /\ \/ /\ rest # <<>> /\ buf \o rest = Bytes(said)
               /\ \/ cuts = passes /\ Decode(line, recvKey) = FrameOf(Poll, <<>>)
                  \/ cuts = passes + 1 /\ Decode(line, recvKey) = FrameOf(Reply, <<>>)
            \/ /\ cuts = passes + 1
               /\ \E mark \in Marker, piece \in Seq(Byte) :
                    /\ Decode(line, recvKey) = FrameOf(Reply, <<mark>> \o piece)
                    /\ (buf \o piece) \o rest = Bytes(said)
<1>1. got = Nothing /\ passes < MaxFragments
  BY DEF IInv, Awaited, ReplyProgress
<1>2. sendKey \in Byte
  BY KeysAreBytes DEF IInv
<1>3. CASE BetweenFragments
  <2>1. <<>> \in Seq(Byte)
    BY EmptySeq
  <2>2. CASE cuts = passes /\ line = Encode(FrameOf(Poll, <<>>), sendKey)
    <3> DEFINE f == FrameOf(Poll, <<>>)
    <3>1. f \in Frames /\ Encodable(f, sendKey) /\ line = Encode(f, sendKey)
      BY <1>2, <2>2, PollFits
    <3> HIDE DEF f
    <3>2. Fate(line, recvKey) = "decoded" /\ Decode(line, recvKey) = f
      BY <3>1, ReadableIsRead
    <3>3. QED
      BY <1>1, <1>3, <2>2, <3>2 DEF f, BetweenFragments
  <2>3. CASE /\ cuts = passes + 1
             /\ Encodable(FrameOf(Reply, <<>>), sendKey)
             /\ line = Encode(FrameOf(Reply, <<>>), sendKey)
    <3> DEFINE f == FrameOf(Reply, <<>>)
    <3>1. f \in Frames /\ Encodable(f, sendKey) /\ line = Encode(f, sendKey)
      BY <2>1, <2>3, FrameIs DEF Kinds
    <3> HIDE DEF f
    <3>2. Fate(line, recvKey) = "decoded" /\ Decode(line, recvKey) = f
      BY <3>1, ReadableIsRead
    <3>3. QED
      BY <1>1, <1>3, <2>3, <3>2 DEF f, BetweenFragments
  <2>4. QED
    BY <1>3, <2>2, <2>3 DEF BetweenFragments
<1>4. CASE FragmentOnItsWay
  <2>0. cuts = passes + 1
    BY <1>4 DEF FragmentOnItsWay
  <2>1. PICK mark \in Marker, piece \in Seq(Byte) :
          /\ Encodable(FrameOf(Reply, <<mark>> \o piece), sendKey)
          /\ line = Encode(FrameOf(Reply, <<mark>> \o piece), sendKey)
          /\ (buf \o piece) \o rest = Bytes(said)
    BY <1>4 DEF FragmentOnItsWay
  <2> DEFINE p == <<mark>> \o piece
             f == FrameOf(Reply, p)
  <2>2. p \in Seq(Byte)
    BY MarkedType
  <2>3. Encodable(f, sendKey) /\ line = Encode(f, sendKey)
    BY <2>1
  <2> HIDE DEF p
  <2>4. f \in Frames
    BY <2>2, FrameIs DEF Kinds
  <2> HIDE DEF f
  <2>5. Fate(line, recvKey) = "decoded" /\ Decode(line, recvKey) = f
    BY <2>3, <2>4, ReadableIsRead
  <2>6. Decode(line, recvKey) = FrameOf(Reply, <<mark>> \o piece)
    BY <2>5 DEF f, p
  <2>7. QED
    BY <1>1, <2>0, <2>1, <2>5, <2>6, Zenon
<1>5. QED
  BY <1>1, <1>3, <1>4 DEF IInv, ReplyProgress

-----------------------------------------------------------------------------
\* The codes of what the panel sends tell its frames apart.
LEMMA CodesAre ==
  ASSUME NEW codes \in Kinds, NEW payload, NEW frame, frame = FrameOf(codes, payload)
  PROVE  <<frame.major, frame.minor>> = codes /\ frame.payload = payload
BY DEF Kinds, Event, Reply, Poll, FrameOf

\* No two kinds of frames have the same codes.
LEMMA KindsDiffer == Event # Reply /\ Event # Poll /\ Reply # Poll
BY DEF Event, Reply, Poll

\* What parsing may yield.
LEMMA ParseKind ==
  ASSUME NEW bytes
  PROVE  Parse(bytes).kind \in {"event", "rejected"}
BY DEF Parse, Fields, NotAnEvent

\* And parsing a reply.
LEMMA ParseReplyKind ==
  ASSUME NEW xml
  PROVE  ParseReply(xml).kind \in {"reply", "rejected"}
BY DEF ParseReply, NotAReply

\* The fragment marker is the head of a payload.
LEMMA MarkedTail ==
  ASSUME NEW mark \in Marker, NEW piece \in Seq(Byte)
  PROVE  <<mark>> \o piece # <<>> /\ Tail(<<mark>> \o piece) = piece
<1> DEFINE h == <<mark>>
           p == h \o piece
           t == Tail(p)
<1>1. h \in Seq(Byte) /\ p \in Seq(Byte)
  BY MarkedType
<1>2. Len(h) = 1
  OBVIOUS
<1> HIDE DEF h
<1>3. /\ Len(p) = Len(h) + Len(piece)
      /\ \A i \in 1 .. Len(piece) : p[Len(h) + i] = piece[i]
  BY <1>1, Joined
<1>4. Len(piece) \in Nat
  BY LenProperties
<1> HIDE DEF p
<1> DEFINE n == Len(piece)
           m == Len(p)
<1>5. m = 1 + n /\ n \in Nat /\ \A i \in 1 .. n : p[1 + i] = piece[i]
  BY <1>2, <1>3, <1>4
<1> HIDE DEF n, m
<1>6. m # 0
  BY <1>5
<1>7. p # <<>>
  BY <1>6, EmptySeq DEF m
<1>8. t \in Seq(Byte) /\ Len(t) = m - 1 /\ \A i \in 1 .. Len(t) : t[i] = p[i + 1]
  BY <1>1, <1>7, HeadTailProperties DEF m
<1> HIDE DEF t
<1>9. Len(t) = n /\ \A i \in 1 .. n : i + 1 = 1 + i
  BY <1>5, <1>8
<1>10. \A i \in 1 .. n : t[i] = piece[i]
  BY <1>5, <1>8, <1>9
<1>11. t = piece
  BY <1>8, <1>9, <1>10, SeqEqual DEF n
<1>12. QED
  BY <1>7, <1>11 DEF t, p, h

\* ReplyAssembler.feed.
LEMMA FeedIs ==
  ASSUME NEW b \in Seq(Byte), NEW payload \in Seq(Byte)
  PROVE  \/ payload = <<>> /\ Feed(b, payload) = "more"
         \/ /\ payload # <<>> /\ Grown(b, payload) \in Seq(Byte)
            /\ \/ Len(Grown(b, payload)) > MaxReply /\ Feed(b, payload) = "tooLong"
               \/ /\ Len(Grown(b, payload)) <= MaxReply
                  /\ \/ Tagged(Grown(b, payload)) /\ Feed(b, payload) = "close"
                     \/ ~ Tagged(Grown(b, payload)) /\ Feed(b, payload) = "more"
<1>1. CASE payload = <<>>
  BY <1>1 DEF Feed
<1>2. CASE payload # <<>>
  <2> DEFINE g == Grown(b, payload)
  <2>1. Tail(payload) \in Seq(Byte)
    BY <1>2, HeadTailProperties
  <2>2. g \in Seq(Byte)
    BY <2>1, Joined DEF Grown
  <2>3. Len(g) \in Nat /\ MaxReply \in Nat
    BY <2>2, MessagesAssumption, LenProperties
  <2>4. TooLong(b, payload) <=> Len(g) > MaxReply
    BY DEF TooLong
  <2>5. Closed(b, payload) <=> Tagged(g)
    BY DEF Closed
  <2>6. Feed(b, payload) = IF TooLong(b, payload) THEN "tooLong"
                           ELSE IF Closed(b, payload) THEN "close" ELSE "more"
    BY <1>2 DEF Feed
  <2> HIDE DEF g
  <2>7. Len(g) > MaxReply \/ Len(g) <= MaxReply
    BY <2>3
  <2>8. ~ (Len(g) > MaxReply /\ Len(g) <= MaxReply)
    BY <2>3
  <2>9. QED
    BY <1>2, <2>2, <2>4, <2>5, <2>6, <2>7, <2>8 DEF g
<1>3. QED
  BY <1>1, <1>2

\* The four things that a reply frame can do.
LEMMA ReadReplyIs ==
  ASSUME TypeOK, ReadReply("decoded"), Decode(line, recvKey).payload \in Seq(Byte)
  PROVE  LET payload == Decode(line, recvKey).payload
             g == Grown(buf, payload)
             more == IF LastPass THEN Unclosed ELSE Nothing
         IN /\ passes' = passes + 1
            /\ \/ payload = <<>> /\ buf' = buf /\ got' = more
               \/ /\ payload # <<>> /\ g \in Seq(Byte)
                  /\ \/ Len(g) > MaxReply /\ buf' = <<>> /\ got' = NotAReply
                     \/ /\ Len(g) <= MaxReply /\ Tagged(g)
                        /\ buf' = <<>> /\ got' = ParseReply(g)
                     \/ /\ Len(g) <= MaxReply /\ ~ Tagged(g)
                        /\ buf' = g /\ got' = more
<1> DEFINE payload == Decode(line, recvKey).payload
           g == Grown(buf, payload)
           verdict == Feed(buf, payload)
           more == IF LastPass THEN Unclosed ELSE Nothing
<1>1. /\ passes' = passes + 1
      /\ buf' = IF verdict # "more" THEN <<>> ELSE IF payload = <<>> THEN buf ELSE g
      /\ got' = IF verdict = "more" THEN more
                ELSE IF verdict = "close" THEN ParseReply(g) ELSE NotAReply
  BY DEF ReadReply
<1>2. buf \in Seq(Byte) /\ payload \in Seq(Byte)
  BY DEF TypeOK
<1>3. \/ payload = <<>> /\ verdict = "more"
      \/ /\ payload # <<>> /\ g \in Seq(Byte)
         /\ \/ Len(g) > MaxReply /\ verdict = "tooLong"
            \/ /\ Len(g) <= MaxReply
               /\ \/ Tagged(g) /\ verdict = "close"
                  \/ ~ Tagged(g) /\ verdict = "more"
  BY <1>2, FeedIs
<1> HIDE DEF payload, g, verdict, more
<1>4. QED
  BY <1>1, <1>3 DEF payload, g, more
-----------------------------------------------------------------------------
\* What any receipt leaves alone, and how the verdict must fit.
LEMMA ReceiveKeeps ==
  ASSUME IInv, line # <<>>, line' = <<>>,
         UNCHANGED <<said, rest, sendKey, recvKey, damaged, cuts>>,
         buf' \in Seq(Byte), Len(buf') <= MaxReply, passes' \in Nat,
         got'.kind \in {"nothing", "event", "reply", "rejected", "unclosed", "lost"},
         damaged # 0 /\ damaged \notin Unvouched => got'.kind = "lost",
         said.kind = "event" /\ said.description \in Seq(Legible) /\ Readable =>
           IF got' = Nothing THEN rest = Bytes(said) ELSE got' = Meaning(said),
         said.kind = "reply" /\ Readable =>
           IF got' = Nothing
           THEN /\ rest # <<>> /\ buf' \o rest = Bytes(said)
                /\ cuts = passes' /\ passes' < MaxFragments
           ELSE Settled(got', passes')
  PROVE  IInv'
<1>1. TypeOK'
  BY EmptySeq DEF IInv, TypeOK
<1>2. OnItsWay' /\ Awaited'
  BY DEF OnItsWay, Awaited
<1>3. DamageIsNoticed'
  BY DEF DamageIsNoticed, Unvouched
<1>4. EventProgress'
  BY DEF EventProgress, Readable
<1>5. ReplyProgress'
  BY DEF ReplyProgress, Readable, BetweenFragments, Settled, Outcome
<1>6. QED
  BY <1>1, <1>2, <1>3, <1>4, <1>5 DEF IInv

\* A frame is not decoded: the line changed it, or the key is not there.
LEMMA RefuseStep ==
  ASSUME IInv, line # <<>>, line' = <<>>,
         UNCHANGED <<said, rest, sendKey, recvKey, damaged, cuts>>,
         Refuse(Fate(line, recvKey))
  PROVE  IInv'
<1>1. /\ Fate(line, recvKey) # "decoded" /\ buf' = buf /\ passes' = passes
      /\ got' = [kind |-> "lost", fate |-> Fate(line, recvKey)]
  BY DEF Refuse
<1>2. buf' \in Seq(Byte) /\ Len(buf') <= MaxReply /\ passes' \in Nat /\ got'.kind = "lost"
  BY <1>1 DEF IInv, TypeOK
<1>3. ~ (said.kind = "event" /\ said.description \in Seq(Legible) /\ Readable)
  BY <1>1, EventArrives
<1>4. ~ (said.kind = "reply" /\ Readable)
  BY <1>1, ReplyArrives
<1>5. QED
  BY <1>2, <1>3, <1>4, ReceiveKeeps

\* An event is parsed to what it was sent as.
LEMMA EventMeans ==
  ASSUME TypeOK, said.kind = "event", said.description \in Seq(Legible)
  PROVE  Parse(Bytes(said)) = Meaning(said) /\ Bytes(said) # <<>>
         /\ Meaning(said) # Nothing
<1>1. said \in Events
  BY RepliesAre DEF TypeOK
<1>2. said \in Sayable
  BY <1>1, EventIsSayable
<1>3. Bytes(said) = EventBytes(said)
  BY DEF Bytes
<1>4. Meaning(said).kind = "event"
  BY DEF Meaning
<1>5. Nothing.kind = "nothing"
  BY DEF Nothing
<1>6. QED
  BY <1>2, <1>3, <1>4, <1>5, EventIsParsed

\* A frame with an event is parsed.
LEMMA ReadEventStep ==
  ASSUME IInv, line # <<>>, line' = <<>>,
         UNCHANGED <<said, rest, sendKey, recvKey, damaged, cuts>>,
         ReadEvent(Fate(line, recvKey))
  PROVE  IInv'
<1> DEFINE frame == Decode(line, recvKey)
<1>1. /\ Fate(line, recvKey) = "decoded" /\ buf' = buf /\ passes' = passes
      /\ <<frame.major, frame.minor>> = Event /\ got' = Parse(frame.payload)
  BY DEF ReadEvent
<1>2. buf' \in Seq(Byte) /\ Len(buf') <= MaxReply /\ passes' \in Nat
  BY <1>1 DEF IInv, TypeOK
<1>3. got'.kind \in {"event", "rejected"}
  BY <1>1, ParseKind
<1>4. damaged = 0 \/ damaged \in Unvouched
  BY <1>1, WhatIsRead
<1>5. ASSUME said.kind = "event", said.description \in Seq(Legible), Readable
      PROVE  got' = Meaning(said) /\ got' # Nothing
  <2>1. \/ frame = FrameOf(Poll, <<>>)
        \/ frame = FrameOf(Event, Bytes(said))
    BY <1>5, EventArrives
  <2> HIDE DEF frame
  <2>2. frame # FrameOf(Poll, <<>>)
    BY <1>1, CodesAre, KindsDiffer DEF Kinds
  <2>3. frame.payload = Bytes(said)
    BY <2>1, <2>2, CodesAre DEF Kinds
  <2>4. QED
    BY <1>1, <1>5, <2>3, EventMeans DEF IInv
<1>6. ~ (said.kind = "reply" /\ Readable)
  <2>1. SUFFICES ASSUME said.kind = "reply", Readable PROVE FALSE
    OBVIOUS
  <2>2. \/ frame = FrameOf(Poll, <<>>)
        \/ \E payload : frame = FrameOf(Reply, payload)
    BY <2>1, ReplyArrives
  <2> HIDE DEF frame
  <2>3. QED
    BY <1>1, <2>2, CodesAre, KindsDiffer DEF Kinds
<1> HIDE DEF frame
<1>7. QED
  BY <1>2, <1>3, <1>4, <1>5, <1>6, ReceiveKeeps

\* A frame of another kind is neither.
LEMMA ReadOtherStep ==
  ASSUME IInv, line # <<>>, line' = <<>>,
         UNCHANGED <<said, rest, sendKey, recvKey, damaged, cuts>>,
         ReadOther(Fate(line, recvKey))
  PROVE  IInv'
<1> DEFINE frame == Decode(line, recvKey)
<1>1. /\ Fate(line, recvKey) = "decoded" /\ buf' = buf /\ passes' = passes /\ got' = got
      /\ <<frame.major, frame.minor>> # Event /\ <<frame.major, frame.minor>> # Reply
  BY DEF ReadOther
<1>2. buf' \in Seq(Byte) /\ Len(buf') <= MaxReply /\ passes' \in Nat
  BY <1>1 DEF IInv, TypeOK
<1>3. got' = Nothing /\ got'.kind = "nothing"
  BY <1>1 DEF IInv, Awaited, Nothing
<1>4. damaged = 0 \/ damaged \in Unvouched
  BY <1>1, WhatIsRead
<1>5. ASSUME said.kind = "event", said.description \in Seq(Legible), Readable
      PROVE  rest = Bytes(said)
  <2>1. \/ rest = Bytes(said)
        \/ frame = FrameOf(Event, Bytes(said))
    BY <1>5, EventArrives
  <2> HIDE DEF frame
  <2>2. QED
    BY <1>1, <2>1, CodesAre DEF Kinds
<1>6. ASSUME said.kind = "reply", Readable
      PROVE  /\ rest # <<>> /\ buf' \o rest = Bytes(said)
             /\ cuts = passes' /\ passes' < MaxFragments
  <2>1. /\ passes < MaxFragments
        /\ \/ rest # <<>> /\ buf \o rest = Bytes(said) /\ cuts = passes
           \/ \E payload : frame = FrameOf(Reply, payload)
    BY <1>6, ReplyArrives
  <2> HIDE DEF frame
  <2>2. QED
    BY <1>1, <2>1, CodesAre DEF Kinds
<1> HIDE DEF frame
<1>7. QED
  BY <1>2, <1>3, <1>4, <1>5, <1>6, ReceiveKeeps

\* What has been assembled decides over a reply as the whole of it does, or it is not
\* the whole.
LEMMA AssembledSoFar ==
  ASSUME TypeOK, said.kind = "reply",
         NEW g \in Seq(Byte), g \o rest = Bytes(said)
  PROVE  /\ Len(g) > MaxReply => Outcome = NotAReply
         /\ Len(g) <= MaxReply /\ Tagged(g) => Outcome = ParseReply(g)
         /\ ~ Tagged(g) => rest # <<>>
         /\ Len(g) <= MaxReply /\ rest # <<>> => Outcome = Unclosed
<1>1. /\ said.sections \in Seq(Sectional) /\ Bytes(said) = ReplyBytes(said.sections)
      /\ ParseReply(Bytes(said)) = Meaning(said)
  BY ReplyMeans DEF TypeOK
<1>2. rest \in Seq(Byte) /\ Len(rest) \in Nat /\ Len(g) \in Nat /\ MaxReply \in Nat
  BY MessagesAssumption, LenProperties DEF TypeOK
<1>3. Tagged(g) <=> rest = <<>>
  BY <1>1, <1>2, NotTaggedBefore
<1>4. Len(Bytes(said)) = Len(g) + Len(rest)
  <2>1. g \in Seq(Byte) /\ rest \in Seq(Byte)
    BY <1>2
  <2>2. Len(g \o rest) = Len(g) + Len(rest)
    BY <2>1, Joined
  <2>3. QED
    BY <2>2, Zenon
<1>5. /\ Len(g) > MaxReply => Outcome = NotAReply
      /\ Len(g) <= MaxReply /\ rest # <<>> => Outcome = Unclosed
      /\ Len(g) <= MaxReply /\ rest = <<>> => Outcome = Meaning(said)
  <2> DEFINE n == Len(Bytes(said))
             a == Len(g)
             b == Len(rest)
  <2>1. n = a + b /\ a \in Nat /\ b \in Nat
    BY <1>2, <1>4
  <2>2. Outcome = IF n - b > MaxReply THEN NotAReply
                  ELSE IF rest = <<>> THEN Meaning(said) ELSE Unclosed
    BY DEF Outcome
  <2> HIDE DEF n, a, b
  <2>3. n - b = a /\ (a <= MaxReply <=> ~ (a > MaxReply))
    BY <1>2, <2>1
  <2>4. QED
    BY <2>2, <2>3 DEF a
<1>6. ASSUME Len(g) <= MaxReply, Tagged(g)
      PROVE  Outcome = ParseReply(g)
  <2>1. g = Bytes(said)
    <3>1. g \o <<>> = g
      BY ConcatEmptySeq
    <3>2. QED
      BY <1>3, <1>6, <3>1
  <2>2. Outcome = Meaning(said)
    BY <1>3, <1>5, <1>6
  <2>3. QED
    BY <1>1, <2>1, <2>2
<1>7. QED
  BY <1>3, <1>5, <1>6

\* The outcomes of a command are told apart, and from none.
LEMMA OutcomesDiffer ==
  ASSUME NEW xml
  PROVE  /\ Unclosed # Nothing /\ NotAReply # Nothing /\ NotAReply # Unclosed
         /\ ParseReply(xml) # Nothing /\ ParseReply(xml) # Unclosed
         /\ Unclosed.kind = "unclosed" /\ NotAReply.kind = "rejected" /\ Nothing.kind = "nothing"
<1>1. Unclosed.kind = "unclosed" /\ NotAReply.kind = "rejected" /\ Nothing.kind = "nothing"
  BY DEF Unclosed, NotAReply, Nothing
<1>2. ParseReply(xml).kind \in {"reply", "rejected"}
  BY ParseReplyKind
<1>3. QED
  BY <1>1, <1>2

\* A frame of a reply is assembled.
LEMMA ReadReplyStep ==
  ASSUME IInv, line # <<>>, line' = <<>>,
         UNCHANGED <<said, rest, sendKey, recvKey, damaged, cuts>>,
         ReadReply(Fate(line, recvKey))
  PROVE  IInv'
<1> DEFINE frame == Decode(line, recvKey)
           payload == frame.payload
           g == Grown(buf, payload)
           more == IF LastPass THEN Unclosed ELSE Nothing
<1>1. /\ Fate(line, recvKey) = "decoded" /\ <<frame.major, frame.minor>> = Reply
      /\ ReadReply("decoded")
  BY DEF ReadReply
<1>2. payload \in Seq(Byte) /\ (damaged = 0 \/ damaged \in Unvouched)
  BY <1>1, WhatIsRead
<1>3. /\ passes' = passes + 1
      /\ \/ payload = <<>> /\ buf' = buf /\ got' = more
         \/ /\ payload # <<>> /\ g \in Seq(Byte)
            /\ \/ Len(g) > MaxReply /\ buf' = <<>> /\ got' = NotAReply
               \/ /\ Len(g) <= MaxReply /\ Tagged(g)
                  /\ buf' = <<>> /\ got' = ParseReply(g)
               \/ /\ Len(g) <= MaxReply /\ ~ Tagged(g)
                  /\ buf' = g /\ got' = more
  BY <1>1, <1>2, ReadReplyIs DEF IInv
<1>4. ~ (said.kind = "event" /\ said.description \in Seq(Legible) /\ Readable)
  <2>1. SUFFICES ASSUME said.kind = "event", said.description \in Seq(Legible), Readable
                 PROVE  FALSE
    OBVIOUS
  <2>2. \/ frame = FrameOf(Poll, <<>>)
        \/ frame = FrameOf(Event, Bytes(said))
    BY <2>1, EventArrives
  <2> HIDE DEF frame
  <2>3. QED
    BY <1>1, <2>2, CodesAre, KindsDiffer DEF Kinds
<1>5. ASSUME said.kind = "reply", Readable
      PROVE  /\ passes < MaxFragments /\ cuts = passes + 1
             /\ \/ payload = <<>> /\ rest # <<>> /\ buf \o rest = Bytes(said)
                \/ payload # <<>> /\ g \o rest = Bytes(said)
  <2>0. passes < MaxFragments
    BY <1>5, ReplyArrives
  <2>1. CASE rest # <<>> /\ buf \o rest = Bytes(said) /\ frame = FrameOf(Poll, <<>>)
    <3> HIDE DEF frame
    <3>1. QED
      BY <1>1, <2>1, CodesAre, KindsDiffer DEF Kinds
  <2>2. CASE /\ rest # <<>> /\ buf \o rest = Bytes(said)
             /\ cuts = passes + 1 /\ frame = FrameOf(Reply, <<>>)
    <3>1. payload = <<>>
      BY <2>2, CodesAre DEF Kinds
    <3>2. QED
      BY <2>0, <2>2, <3>1
  <2>3. CASE /\ cuts = passes + 1
             /\ \E mark \in Marker, piece \in Seq(Byte) :
                  /\ frame = FrameOf(Reply, <<mark>> \o piece)
                  /\ (buf \o piece) \o rest = Bytes(said)
    <3>1. PICK mark \in Marker, piece \in Seq(Byte) :
            /\ frame = FrameOf(Reply, <<mark>> \o piece)
            /\ (buf \o piece) \o rest = Bytes(said)
      BY <2>3
    <3>2. payload = <<mark>> \o piece
      BY <3>1, CodesAre DEF Kinds
    <3>3. payload # <<>> /\ Tail(payload) = piece
      BY <3>2, MarkedTail
    <3>4. g = buf \o piece
      BY <3>3 DEF Grown
    <3> HIDE DEF frame, payload, g
    <3>5. QED
      BY <2>0, <2>3, <3>1, <3>3, <3>4
  <2>4. QED
    BY <1>5, <2>1, <2>2, <2>3, ReplyArrives
<1>6. buf \in Seq(Byte) /\ Len(buf) <= MaxReply /\ MaxReply \in Nat
  BY MessagesAssumption DEF IInv, TypeOK
<1>7. ASSUME said.kind = "reply", Readable, payload # <<>>, g \in Seq(Byte)
      PROVE  /\ g \o rest = Bytes(said)
             /\ Len(g) > MaxReply => Outcome = NotAReply
             /\ Len(g) <= MaxReply /\ Tagged(g) => Outcome = ParseReply(g)
             /\ ~ Tagged(g) => rest # <<>>
             /\ Len(g) <= MaxReply /\ rest # <<>> => Outcome = Unclosed
  <2>1. g \o rest = Bytes(said)
    BY <1>5, <1>7
  <2> HIDE DEF g
  <2>2. QED
    BY <1>7, <2>1, AssembledSoFar DEF IInv
<1>8. ASSUME said.kind = "reply", Readable, payload = <<>>
      PROVE  rest # <<>> /\ buf \o rest = Bytes(said) /\ Outcome = Unclosed
  <2>1. rest # <<>> /\ buf \o rest = Bytes(said)
    BY <1>5, <1>8
  <2>2. QED
    BY <1>6, <1>8, <2>1, AssembledSoFar DEF IInv
<1>9. /\ Unclosed # Nothing /\ NotAReply # Nothing /\ NotAReply # Unclosed
      /\ ParseReply(g) # Nothing /\ ParseReply(g) # Unclosed
      /\ Unclosed.kind = "unclosed" /\ NotAReply.kind = "rejected" /\ Nothing.kind = "nothing"
  BY OutcomesDiffer
<1>10. ParseReply(g).kind \in {"reply", "rejected"}
  BY ParseReplyKind
<1>11. \/ more = Unclosed /\ passes + 1 = MaxFragments
       \/ more = Nothing /\ passes + 1 # MaxFragments
  BY DEF LastPass
<1> HIDE DEF frame, payload, g, more
<1>12. <<>> \in Seq(Byte) /\ Len(<<>>) <= MaxReply
  BY <1>6, EmptySeq
<1>13. buf' \in Seq(Byte) /\ Len(buf') <= MaxReply /\ passes' \in Nat
  <2>1. passes' \in Nat
    BY <1>3 DEF IInv, TypeOK
  <2>2. QED
    BY <1>3, <1>6, <1>12, <2>1
<1>14. got'.kind \in {"nothing", "event", "reply", "rejected", "unclosed", "lost"}
  BY <1>3, <1>9, <1>10, <1>11
<1>15. ASSUME said.kind = "reply", Readable
       PROVE  IF got' = Nothing
              THEN /\ rest # <<>> /\ buf' \o rest = Bytes(said)
                   /\ cuts = passes' /\ passes' < MaxFragments
              ELSE Settled(got', passes')
  <2>1. cuts = passes' /\ passes' <= MaxFragments /\ (passes + 1 # MaxFragments => passes' < MaxFragments)
    <3>1. passes \in Nat /\ MaxFragments \in Nat
      BY MessagesAssumption DEF IInv, TypeOK
    <3>2. passes < MaxFragments /\ cuts = passes + 1 /\ passes' = passes + 1
      BY <1>3, <1>5, <1>15
    <3>3. QED
      BY <3>1, <3>2
  <2>2. ASSUME got' = more, rest # <<>>, buf' \o rest = Bytes(said), Outcome = Unclosed
        PROVE  IF got' = Nothing
               THEN /\ rest # <<>> /\ buf' \o rest = Bytes(said)
                    /\ cuts = passes' /\ passes' < MaxFragments
               ELSE Settled(got', passes')
    <3>1. CASE more = Unclosed /\ passes + 1 = MaxFragments
      BY <1>3, <1>9, <2>1, <2>2, <3>1 DEF Settled
    <3>2. CASE more = Nothing /\ passes + 1 # MaxFragments
      BY <2>1, <2>2, <3>2
    <3>3. QED
      BY <1>11, <3>1, <3>2
  <2>3. CASE payload = <<>>
    BY <1>3, <1>8, <1>15, <2>2, <2>3
  <2>4. CASE payload # <<>> /\ g \in Seq(Byte) /\ Len(g) > MaxReply /\ got' = NotAReply
    BY <1>7, <1>9, <1>15, <2>1, <2>4 DEF Settled
  <2>5. CASE /\ payload # <<>> /\ g \in Seq(Byte) /\ Len(g) <= MaxReply /\ Tagged(g)
             /\ got' = ParseReply(g)
    BY <1>7, <1>9, <1>15, <2>1, <2>5 DEF Settled
  <2>6. CASE /\ payload # <<>> /\ g \in Seq(Byte) /\ Len(g) <= MaxReply /\ ~ Tagged(g)
             /\ buf' = g /\ got' = more
    BY <1>7, <1>15, <2>2, <2>6
  <2>7. QED
    BY <1>3, <2>3, <2>4, <2>5, <2>6
<1>16. QED
  BY <1>2, <1>4, <1>13, <1>14, <1>15, ReceiveKeeps

\* Receipt, by what becomes of the frame.
LEMMA ReceiveStep ==
  ASSUME IInv, Receive
  PROVE  IInv'
<1>1. /\ line # <<>> /\ line' = <<>>
      /\ UNCHANGED <<said, rest, sendKey, recvKey, damaged, cuts>>
      /\ \/ Refuse(Fate(line, recvKey))
         \/ ReadEvent(Fate(line, recvKey))
         \/ ReadReply(Fate(line, recvKey))
         \/ ReadOther(Fate(line, recvKey))
  BY DEF Receive
<1>2. QED
  BY <1>1, RefuseStep, ReadEventStep, ReadReplyStep, ReadOtherStep

\* The inductive invariant: where a message is, and that a byte changed on the way
\* was noticed.
THEOREM Inductive == Spec => []IInv
<1>1. Init => IInv
  BY InitIInv
<1>2. IInv /\ [Next]_vars => IInv'
  <2> SUFFICES ASSUME IInv, [Next]_vars
               PROVE  IInv'
    OBVIOUS
  <2>1. CASE Send
    BY <2>1, SendStep
  <2>2. CASE SendPoll
    BY <2>2, SendPollStep
  <2>3. CASE \E i \in DOMAIN line, n \in Noises : Damage(i, n)
    BY <2>3, DamageStep
  <2>4. CASE Receive
    BY <2>4, ReceiveStep
  <2>5. CASE UNCHANGED vars
    BY <2>5, ZenonT(40) DEF vars, IInv, TypeOK, OnItsWay, Awaited, DamageIsNoticed, EventProgress,
                ReplyProgress, Readable, Unvouched, BetweenFragments, FragmentOnItsWay,
                Settled, Outcome
  <2>6. QED
    BY <2>1, <2>2, <2>3, <2>4, <2>5 DEF Next
<1>3. QED
  BY <1>1, <1>2, PTL DEF Spec

-----------------------------------------------------------------------------
(***************************************************************************)
(* The type of the state: payloads, whatever the line made of them, are    *)
(* bytes, and what ReplyAssembler keeps of a reply stays within            *)
(* MAX_REPLY_BYTES.                                                        *)
(***************************************************************************)
THEOREM TypeCorrect == Spec => []TypeOK
<1>1. IInv => TypeOK
  BY DEF IInv
<1>2. QED
  BY <1>1, Inductive, PTL

(***************************************************************************)
(* One byte of a clear frame that the line changed is noticed by           *)
(* Frame.decode, wherever the checksum vouches for it, in any payload of   *)
(* any length.                                                             *)
(***************************************************************************)
THEOREM DamageNoticed == Spec => []DamageIsNoticed
<1>1. IInv => DamageIsNoticed
  BY DEF IInv
<1>2. QED
  BY <1>1, Inductive, PTL

(***************************************************************************)
(* SiaEvent.parse reads an event with the fields it was sent with: any     *)
(* description of legible characters, behind any padding and encryption,   *)
(* with polls before it.                                                   *)
(***************************************************************************)
THEOREM EventsRead == Spec => []EventsAreRead
<1>1. IInv => EventsAreRead
  <2>1. SUFFICES ASSUME IInv, said.kind = "event", said.description \in Seq(Legible),
                        Readable, Over
                 PROVE  got = Meaning(said)
    BY DEF EventsAreRead
  <2>2. TypeOK /\ line = <<>> /\ (rest = <<>> \/ got # Nothing)
    BY <2>1 DEF IInv, Over
  <2>3. CASE got = Nothing
    <3>1. rest = Bytes(said)
      BY <2>1, <2>2, <2>3, WhenIdle
    <3>2. Bytes(said) # <<>>
      BY <2>1, <2>2, EventMeans
    <3>3. QED
      BY <2>2, <2>3, <3>1, <3>2
  <2>4. CASE got # Nothing
    BY <2>1, <2>4 DEF IInv, EventProgress
  <2>5. QED
    BY <2>3, <2>4
<1>2. QED
  BY <1>1, Inductive, PTL

(***************************************************************************)
(* xml_command reads a reply of any number of sections and rows as a       *)
(* whole, wherever it is cut into fragments, when there are no more of     *)
(* them than MAX_XML_FRAGMENTS and it is not too long; otherwise it gives  *)
(* up, not before and not after the last fragment it may read.             *)
(***************************************************************************)
THEOREM RepliesRead == Spec => []RepliesAreRead
<1>1. IInv => RepliesAreRead
  <2>1. SUFFICES ASSUME IInv, said.kind = "reply", Readable, Over
                 PROVE  /\ got = Outcome /\ cuts <= MaxFragments
                        /\ got = Unclosed => cuts = MaxFragments
    BY DEF RepliesAreRead
  <2>2. line = <<>> /\ (rest = <<>> \/ got # Nothing)
    BY <2>1 DEF Over
  <2>3. CASE got = Nothing
    BY <2>1, <2>2, <2>3, WhenIdle
  <2>4. CASE got # Nothing
    BY <2>1, <2>4 DEF IInv, ReplyProgress, Settled
  <2>5. QED
    BY <2>3, <2>4
<1>2. QED
  BY <1>1, Inductive, PTL

=============================================================================

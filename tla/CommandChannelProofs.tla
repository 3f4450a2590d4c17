------------------------ MODULE CommandChannelProofs ------------------------
(***************************************************************************)
(* The safety properties of CommandChannel, proved for every set of        *)
(* callers, sequence space, quiet time and fragment limit.                 *)
(***************************************************************************)
EXTENDS CommandChannel, SequenceTheorems, TLAPS

\* Who is in the lock's queue, and how often.
LockInv ==
  /\ \A i \in 1 .. Len(queue) : cmd[queue[i]].pc # "idle"
  /\ \A c \in Callers : cmd[c].pc # "idle" => \E i \in 1 .. Len(queue) : queue[i] = c
  /\ \A i, j \in 1 .. Len(queue) : queue[i] = queue[j] => i = j

\* Which locals a command has at each of its awaits.
CommandInv ==
  \A c \in Callers :
    /\ cmd[c].fut # "none" <=> cmd[c].pc = "reply"
    /\ cmd[c].pc = "lock" => cmd[c].frags = 0
    /\ cmd[c].pc = "reply" => cmd[c].what \in Tables

\* What the requests out at the panel have in common with their commands.
RequestInv ==
  \A a \in asked :
    /\ a.id \in 1 .. sent
    /\ \A c \in Callers :
         cmd[c].pc = "reply" /\ cmd[c].id = a.id =>
           a.table = cmd[c].what /\ a.seq = cmd[c].slot

\* Before the counter wraps a sequence belongs to one request only.
SequenceInv ==
  ~wrapped => \A a \in asked : /\ a.seq <= next_seq
                               /\ pending[a.table][a.seq] \in {0, a.id}

ClosedInv == tornDown => closed

IInv ==
  /\ TypeOK
  /\ LockInv
  /\ CommandInv
  /\ RequestInv
  /\ SequenceInv
  /\ ClosedInv
  /\ Serialized
  /\ AwaitedIsPending
  /\ NoAbandonedEntry
  /\ OwnReply
  /\ NoWaitAfterTeardown

-----------------------------------------------------------------------------
(***************************************************************************)
(* Lemmas about the helpers.                                               *)
(***************************************************************************)

\* Removing one element of a sequence shifts those behind it.
LEMMA RemoveAtProperties ==
  ASSUME NEW S, NEW q \in Seq(S), NEW i \in 1 .. Len(q)
  PROVE  /\ RemoveAt(q, i) \in Seq(S)
         /\ Len(RemoveAt(q, i)) = Len(q) - 1
         /\ \A j \in 1 .. Len(q) - 1 :
              RemoveAt(q, i)[j] = IF j < i THEN q[j] ELSE q[j + 1]
<1> DEFINE front == SubSeq(q, 1, i - 1)
           back == SubSeq(q, i + 1, Len(q))
<1>1. /\ front \in Seq(S) /\ Len(front) = i - 1
      /\ \A j \in 1 .. i - 1 : front[j] = q[j]
  BY SubSeqProperties
<1>2. /\ back \in Seq(S) /\ Len(back) = Len(q) - i
      /\ \A j \in 1 .. Len(q) - i : back[j] = q[i + j]
  BY SubSeqProperties
<1>3. RemoveAt(q, i) = front \o back
  BY DEF RemoveAt
<1> HIDE DEF front, back
<1>4. /\ front \o back \in Seq(S)
      /\ Len(front \o back) = Len(front) + Len(back)
      /\ \A j \in 1 .. Len(front) + Len(back) :
           (front \o back)[j] = IF j <= Len(front) THEN front[j] ELSE back[j - Len(front)]
  BY <1>1, <1>2, ConcatProperties
<1>5. \A j \in 1 .. Len(q) - 1 :
        (front \o back)[j] = IF j < i THEN q[j] ELSE q[j + 1]
  <2> SUFFICES ASSUME NEW j \in 1 .. Len(q) - 1
               PROVE  (front \o back)[j] = IF j < i THEN q[j] ELSE q[j + 1]
    OBVIOUS
  <2>1. CASE j < i
    BY <1>1, <1>2, <1>4, <2>1
  <2>2. CASE j >= i
    <3>1. (front \o back)[j] = back[j - (i - 1)]
      BY <1>1, <1>2, <1>4, <2>2
    <3>2. j - (i - 1) \in 1 .. Len(q) - i /\ i + (j - (i - 1)) = j + 1
      BY <2>2
    <3> QED
      BY <1>2, <2>2, <3>1, <3>2
  <2>3. j < i \/ j >= i
    OBVIOUS
  <2> QED
    BY <2>1, <2>2, <2>3
<1> QED
  BY <1>1, <1>2, <1>3, <1>4, <1>5

LEMMA TailProperties ==
  ASSUME NEW S, NEW q \in Seq(S), q # <<>>
  PROVE  /\ Tail(q) \in Seq(S)
         /\ Len(q) \in Nat \ {0}
         /\ Len(Tail(q)) = Len(q) - 1
         /\ \A j \in 1 .. Len(q) - 1 : Tail(q)[j] = q[j + 1]
         /\ Head(q) = q[1]
  OBVIOUS

LEMMA NextSeqProperties ==
  ASSUME NEW s \in Seqs
  PROVE  /\ NextSeq(s) \in Seqs
         /\ s # SeqSpace - 1 => NextSeq(s) = s + 1
  BY SeqSpaceAssumption DEF NextSeq, Seqs

\* The lock holder is the only caller past the lock.
LEMMA OneHolder ==
  ASSUME IInv, NEW c \in Callers, Holds(c), NEW d \in Callers, d # c
  PROVE  cmd[d].pc \in {"idle", "lock"} /\ cmd[d].fut = "none"
  BY DEF IInv, TypeOK, CommandRecords, CommandInv, Serialized, Holds

LEMMA IdleType ==
  ASSUME NEW o \in Outcomes
  PROVE  Idle(o) \in CommandRecords
  BY FragmentsAssumption, QuietAssumption, SeqSpaceAssumption
     DEF Idle, CommandRecords, Seqs, Futures, FutureErrors, Bodies, Requests

-----------------------------------------------------------------------------
(***************************************************************************)
(* Every way for the lock holder to end its command preserves the          *)
(* invariant.                                                              *)
(***************************************************************************)
LEMMA LeaveInv ==
  ASSUME IInv, NEW c \in Callers, Holds(c), NEW o \in Outcomes, Leave(c, o),
         UNCHANGED <<since, asked, closed, tornDown, calls>>,
         next_seq' \in Seqs, wrapped' \in BOOLEAN,
         sent' \in {sent, sent + 1},
         ~wrapped' => ~wrapped /\ next_seq' >= next_seq,
         pending' \in [Tables -> [Seqs -> Nat]],
         \A a \in asked :
           /\ pending'[a.table][a.seq] \in {pending[a.table][a.seq], 0, sent + 1}
           /\ ~wrapped' => pending'[a.table][a.seq] \in {pending[a.table][a.seq], 0}
           /\ cmd[c].pc = "reply" /\ cmd[c].id = a.id => pending'[a.table][a.seq] # a.id
  PROVE  IInv'
<1> USE DEF IInv
<1>q. /\ queue \in Seq(Callers) /\ queue # <<>> /\ Head(queue) = c
      /\ queue' = Tail(queue)
  BY DEF TypeOK, Holds, Leave
<1>t. /\ queue' \in Seq(Callers)
      /\ Len(queue) \in Nat \ {0}
      /\ Len(queue') = Len(queue) - 1
      /\ \A j \in 1 .. Len(queue) - 1 : queue'[j] = queue[j + 1]
      /\ queue[1] = c
  BY <1>q, TailProperties
<1>c. /\ cmd' = [cmd EXCEPT ![c] = Idle(o)]
      /\ cmd'[c] = Idle(o)
      /\ \A d \in Callers : d # c => cmd'[d] = cmd[d]
      /\ cmd'[c].pc = "idle" /\ cmd'[c].fut = "none"
  BY DEF TypeOK, Leave, Idle
<1>o. \A d \in Callers : d # c => cmd[d].pc \in {"idle", "lock"} /\ cmd[d].fut = "none"
  BY OneHolder
<1>n. \A d \in Callers : cmd'[d].pc \in {"idle", "lock"} /\ cmd'[d].fut = "none"
  BY <1>c, <1>o
<1>1. TypeOK'
  BY <1>t, <1>c, IdleType DEF TypeOK
<1>2. LockInv'
  <2>1. \A j \in 1 .. Len(queue') : j + 1 \in 1 .. Len(queue) /\ queue'[j] = queue[j + 1]
                                    /\ queue'[j] \in Callers /\ queue'[j] # c
    BY <1>t DEF LockInv
  <2>2. \A j \in 1 .. Len(queue') : cmd'[queue'[j]].pc # "idle"
    BY <2>1, <1>c DEF LockInv
  <2>3. \A d \in Callers : cmd'[d].pc # "idle" => \E i \in 1 .. Len(queue') : queue'[i] = d
    <3> SUFFICES ASSUME NEW d \in Callers, cmd'[d].pc # "idle"
                 PROVE  \E i \in 1 .. Len(queue') : queue'[i] = d
      OBVIOUS
    <3>1. d # c /\ cmd[d].pc # "idle"
      BY <1>c
    <3>2. PICK i \in 1 .. Len(queue) : queue[i] = d
      BY <3>1 DEF LockInv
    <3>3. i - 1 \in 1 .. Len(queue') /\ queue'[i - 1] = d
      BY <3>1, <3>2, <1>t
    <3> QED
      BY <3>3
  <2>4. \A i, j \in 1 .. Len(queue') : queue'[i] = queue'[j] => i = j
    BY <2>1, <1>t DEF LockInv
  <2> QED
    BY <2>2, <2>3, <2>4 DEF LockInv
<1>3. CommandInv'
  BY <1>n, <1>c DEF CommandInv, Idle
<1>4. RequestInv'
  <2> SUFFICES ASSUME NEW a \in asked
               PROVE  a.id \in 1 .. sent'
    BY <1>n DEF RequestInv
  <2>1. a.id \in 1 .. sent
    BY DEF RequestInv
  <2> QED
    BY <2>1 DEF TypeOK
<1>5. SequenceInv'
  <2> SUFFICES ASSUME ~wrapped', NEW a \in asked
               PROVE  a.seq <= next_seq' /\ pending'[a.table][a.seq] \in {0, a.id}
    BY DEF SequenceInv
  <2>1. a.seq <= next_seq /\ pending[a.table][a.seq] \in {0, a.id}
    BY DEF SequenceInv
  <2>2. a.seq \in Nat /\ next_seq \in Nat /\ next_seq' \in Nat
    BY DEF TypeOK, Seqs
  <2> QED
    BY <2>1, <2>2
<1>6. ClosedInv'
  BY DEF ClosedInv
<1>7. Serialized'
  BY <1>n DEF Serialized
<1>8. AwaitedIsPending'
  BY <1>n DEF AwaitedIsPending
<1>9. NoAbandonedEntry'
  <2> SUFFICES ASSUME NEW a \in asked, pending'[a.table][a.seq] = a.id
               PROVE  FALSE
    BY DEF NoAbandonedEntry
  <2>1. a.id \in 1 .. sent /\ sent \in Nat
    BY DEF RequestInv, TypeOK
  <2>2. pending[a.table][a.seq] = a.id
    BY <2>1
  <2>3. PICK d \in Callers : cmd[d].pc = "reply" /\ cmd[d].id = a.id
    BY <2>2 DEF NoAbandonedEntry
  <2>4. d = c
    BY <2>3, <1>o
  <2> QED
    BY <2>3, <2>4
<1>10. OwnReply'
  BY <1>n DEF OwnReply
<1>11. NoWaitAfterTeardown'
  BY <1>n DEF NoWaitAfterTeardown
<1> QED
  BY <1>1, <1>2, <1>3, <1>4, <1>5, <1>6, <1>7, <1>8, <1>9, <1>10, <1>11

-----------------------------------------------------------------------------
(***************************************************************************)
(* One turn of _wait_to_send by the lock holder preserves the invariant,   *)
(* whatever it goes on to do.  p differs from pending by what the command  *)
(* has popped: its own entry, if it was waiting for a reply.               *)
(***************************************************************************)
LEMMA ToSendInv ==
  ASSUME IInv, NEW c \in Callers, Holds(c),
         NEW r \in CommandRecords, r.fut = "none", sent = r.start + r.frags,
         NEW p \in [Tables -> [Seqs -> Nat]],
         \A a \in asked :
           /\ p[a.table][a.seq] \in {pending[a.table][a.seq], 0}
           /\ cmd[c].pc = "reply" /\ cmd[c].id = a.id => p[a.table][a.seq] # a.id,
         ToSend(c, r, p)
  PROVE  IInv'
<1> USE DEF IInv
<1>a. asked \subseteq [table : Tables, seq : Seqs, id : Nat] /\ sent \in Nat /\ next_seq \in Seqs
  BY DEF TypeOK
<1>b. \A a \in asked : a.table \in Tables /\ a.seq \in Seqs /\ a.id \in 1 .. sent
  BY <1>a DEF RequestInv
<1>o. \A d \in Callers : d # c => cmd[d].pc \in {"idle", "lock"} /\ cmd[d].fut = "none"
  BY OneHolder
<1>e. \A o \in {"SpcConnectionLost", "ValueError"} : o \in Outcomes
  BY DEF Outcomes, SpcErrors
<1>q. /\ \E i \in 1 .. Len(queue) : queue[i] = c
      /\ cmd[c].pc # "idle"
  BY DEF Holds, LockInv, TypeOK
<1> DEFINE s == NextSeq(next_seq)
<1>s. s \in Seqs /\ (next_seq # SeqSpace - 1 => s = next_seq + 1)
  BY <1>a, NextSeqProperties
<1>1. CASE /\ closed
           /\ Leave(c, "SpcConnectionLost")
           /\ pending' = p
           /\ UNCHANGED <<next_seq, since, asked, closed, tornDown, sent, wrapped, calls>>
  <2>1. next_seq' \in Seqs /\ wrapped' \in BOOLEAN /\ next_seq' >= next_seq
    BY <1>1, <1>a DEF TypeOK, Seqs
  <2> QED
    BY <1>1, <1>e, <2>1, LeaveInv
<1>2. CASE /\ ~closed
           /\ since < QuietTime
           /\ cmd' = [cmd EXCEPT ![c] = [r EXCEPT !.pc = "quiet", !.timer = QuietTime - since]]
           /\ pending' = p
           /\ UNCHANGED <<next_seq, since, queue, asked, closed, tornDown, sent, wrapped, calls>>
  <2> DEFINE n == [r EXCEPT !.pc = "quiet", !.timer = QuietTime - since]
  <2>1. /\ cmd'[c] = n
        /\ \A d \in Callers : d # c => cmd'[d] = cmd[d]
    BY <1>2 DEF TypeOK
  <2>2. /\ n \in CommandRecords
        /\ n.pc = "quiet" /\ n.fut = "none" /\ n.start = r.start /\ n.frags = r.frags
    <3>1. QuietTime - since \in 0 .. QuietTime
      BY QuietAssumption DEF TypeOK
    <3>2. n \in CommandRecords
      BY <3>1 DEF CommandRecords
    <3> QED
      BY <3>2 DEF CommandRecords
  <2> HIDE DEF n
  <2>3. \A d \in Callers : cmd'[d].fut = "none" /\ cmd'[d].pc # "reply"
    BY <2>1, <2>2, <1>o
  <2>4. TypeOK'
    BY <1>2, <2>2 DEF TypeOK, n
  <2>5. LockInv'
    BY <1>2, <1>q, <2>1, <2>2 DEF LockInv, TypeOK
  <2>6. CommandInv'
    BY <2>1, <2>2, <2>3 DEF CommandInv
  <2>7. RequestInv'
    BY <1>2, <1>b, <2>3 DEF RequestInv
  <2>8. SequenceInv'
    <3> SUFFICES ASSUME ~wrapped, NEW a \in asked
                 PROVE  a.seq <= next_seq /\ p[a.table][a.seq] \in {0, a.id}
      BY <1>2 DEF SequenceInv
    <3> QED
      BY DEF SequenceInv
  <2>9. ClosedInv'
    BY <1>2 DEF ClosedInv
  <2>10. Serialized'
    <3>1. Holds(c)' /\ sent' = n.start + n.frags
      BY <1>2, <2>2 DEF Holds
    <3> QED
      BY <1>o, <2>1, <2>2, <3>1 DEF Serialized
  <2>11. AwaitedIsPending' /\ OwnReply' /\ NoWaitAfterTeardown'
    BY <2>3 DEF AwaitedIsPending, OwnReply, NoWaitAfterTeardown
  <2>12. NoAbandonedEntry'
    <3> SUFFICES ASSUME NEW a \in asked, p[a.table][a.seq] = a.id
                 PROVE  FALSE
      BY <1>2 DEF NoAbandonedEntry
    <3>1. pending[a.table][a.seq] = a.id
      BY <1>b
    <3>2. PICK d \in Callers : cmd[d].pc = "reply" /\ cmd[d].id = a.id
      BY <3>1 DEF NoAbandonedEntry
    <3> QED
      BY <3>2, <1>o
  <2> QED
    BY <2>4, <2>5, <2>6, <2>7, <2>8, <2>9, <2>10, <2>11, <2>12
<1>3. ASSUME ~closed, AllocSeq
      PROVE  /\ next_seq' = s /\ wrapped' \in BOOLEAN
             /\ ~wrapped' => /\ ~wrapped
                             /\ next_seq' = next_seq + 1
                             /\ \A a \in asked : a.seq # s /\ a.seq <= next_seq'
  <2>1. next_seq' = s /\ wrapped' = (wrapped \/ next_seq = SeqSpace - 1)
    BY <1>3 DEF AllocSeq
  <2>2. ASSUME ~wrapped' PROVE ~wrapped /\ next_seq' = next_seq + 1
    BY <2>1, <2>2, <1>s
  <2>3. ASSUME ~wrapped', NEW a \in asked PROVE a.seq # s /\ a.seq <= next_seq'
    BY <2>1, <2>2, <2>3, <1>a, <1>b, <1>s DEF SequenceInv, Seqs
  <2> QED
    BY <2>1, <2>2, <2>3 DEF TypeOK
<1>4. CASE ~closed /\ BuildFails(c, r, p)
  <2>1. /\ AllocSeq /\ Leave(c, "ValueError") /\ pending' = p
        /\ UNCHANGED <<since, asked, closed, tornDown, sent, calls>>
    BY <1>4 DEF BuildFails
  <2>2. next_seq' \in Seqs /\ (~wrapped' => ~wrapped /\ next_seq' >= next_seq) /\ wrapped' \in BOOLEAN
    BY <1>4, <1>3, <1>s, <1>a, <2>1 DEF Seqs
  <2> QED
    BY <2>1, <2>2, <1>e, LeaveInv
<1>r. ASSUME NEW t \in Tables, Register(p, t), ~closed, AllocSeq
      PROVE  /\ sent' = sent + 1
             /\ pending' \in [Tables -> [Seqs -> Nat]]
             /\ pending'[t][s] = sent + 1
             /\ \A a \in asked :
                  /\ pending'[a.table][a.seq] \in {p[a.table][a.seq], sent + 1}
                  /\ ~wrapped' => pending'[a.table][a.seq] = p[a.table][a.seq]
  <2>1. sent' = sent + 1 /\ pending' = [p EXCEPT ![t][s] = sent + 1]
    BY <1>r DEF Register
  <2>2. /\ pending' \in [Tables -> [Seqs -> Nat]]
        /\ pending'[t][s] = sent + 1
    BY <2>1, <1>s, <1>a
  <2>3. ASSUME NEW a \in asked
        PROVE  /\ pending'[a.table][a.seq] \in {p[a.table][a.seq], sent + 1}
               /\ a.seq # s => pending'[a.table][a.seq] = p[a.table][a.seq]
    BY <2>1, <1>b, <1>s
  <2> QED
    BY <2>1, <2>2, <2>3, <1>3, <1>r
<1>5. CASE ~closed /\ EncodeFails(c, r, p)
  <2>1. /\ AllocSeq /\ Register(p, "xml") /\ Leave(c, "ValueError")
        /\ UNCHANGED <<since, asked, closed, tornDown, calls>>
    BY <1>5 DEF EncodeFails
  <2>2. next_seq' \in Seqs /\ (~wrapped' => ~wrapped /\ next_seq' >= next_seq) /\ wrapped' \in BOOLEAN
    BY <1>5, <1>3, <1>s, <1>a, <2>1 DEF Seqs
  <2>3. "xml" \in Tables
    BY DEF Tables
  <2>4. \A a \in asked :
          /\ pending'[a.table][a.seq] \in {pending[a.table][a.seq], 0, sent + 1}
          /\ ~wrapped' => pending'[a.table][a.seq] \in {pending[a.table][a.seq], 0}
          /\ cmd[c].pc = "reply" /\ cmd[c].id = a.id => pending'[a.table][a.seq] # a.id
    BY <1>5, <1>r, <1>a, <1>b, <2>1, <2>3
  <2>5. pending' \in [Tables -> [Seqs -> Nat]] /\ sent' \in {sent, sent + 1}
    BY <1>5, <1>r, <2>1, <2>3
  <2> QED
    BY <2>1, <2>2, <2>4, <2>5, <1>e, LeaveInv
<1>6. CASE ~closed /\ Transmit(c, r, p)
  <2> DEFINE n == [r EXCEPT !.pc = "reply", !.slot = NextSeq(next_seq),
                            !.id = sent + 1, !.fut = "waiting"]
             new == Request(r.what, s, sent + 1)
  <2>1. /\ r.what \in Tables /\ AllocSeq /\ Register(p, r.what)
        /\ cmd' = [cmd EXCEPT ![c] = n]
        /\ asked' \in {asked, asked \cup {new}}
        /\ closed' \in BOOLEAN
        /\ UNCHANGED <<since, queue, tornDown, calls>>
    BY <1>6 DEF Transmit, TypeOK
  <2>2. /\ cmd'[c] = n
        /\ \A d \in Callers : d # c => cmd'[d] = cmd[d]
    BY <2>1 DEF TypeOK
  <2>3. n \in CommandRecords
    <3>1. "waiting" \in Futures /\ sent + 1 \in Nat /\ NextSeq(next_seq) \in Seqs
      BY <1>s, <1>a DEF Futures
    <3> QED
      BY <3>1 DEF CommandRecords
  <2>4. /\ n.pc = "reply" /\ n.fut = "waiting" /\ n.start = r.start /\ n.frags = r.frags
        /\ n.what = r.what /\ n.slot = s /\ n.id = sent + 1
    BY DEF CommandRecords
  <2>5. new \in [table : Tables, seq : Seqs, id : Nat] /\ new.table = r.what
        /\ new.seq = s /\ new.id = sent + 1
    BY <1>s, <1>a, <2>1 DEF Request
  <2> HIDE DEF n, new
  <2>6. /\ sent' = sent + 1
        /\ pending' \in [Tables -> [Seqs -> Nat]]
        /\ pending'[r.what][s] = sent + 1
        /\ \A a \in asked :
             /\ pending'[a.table][a.seq] \in {p[a.table][a.seq], sent + 1}
             /\ ~wrapped' => pending'[a.table][a.seq] = p[a.table][a.seq]
    BY <1>6, <1>r, <2>1
  <2>7. /\ next_seq' = s /\ wrapped' \in BOOLEAN
        /\ ~wrapped' => ~wrapped /\ \A a \in asked : a.seq <= next_seq'
    BY <1>3, <1>6, <2>1
  <2>8. \A a \in asked' : a \in asked \/ a = new
    BY <2>1
  <2>9. \A d \in Callers : d # c => cmd'[d].pc \in {"idle", "lock"} /\ cmd'[d].fut = "none"
    BY <2>2, <1>o
  <2>10. TypeOK'
    BY <2>1, <2>3, <2>5, <2>6, <2>7, <1>s, <1>a DEF TypeOK, n
  <2>11. LockInv'
    BY <2>1, <2>2, <2>4, <1>q DEF LockInv, TypeOK
  <2>12. CommandInv'
    BY <2>1, <2>2, <2>4, <2>9 DEF CommandInv
  <2>13. RequestInv'
    <3> SUFFICES ASSUME NEW a \in asked'
                 PROVE  /\ a.id \in 1 .. sent + 1
                        /\ \A d \in Callers :
                             cmd'[d].pc = "reply" /\ cmd'[d].id = a.id =>
                               a.table = cmd'[d].what /\ a.seq = cmd'[d].slot
      BY <2>6 DEF RequestInv
    <3>1. CASE a \in asked
      BY <3>1, <1>a, <1>b, <2>2, <2>4, <2>9
    <3>2. CASE a = new
      BY <3>2, <1>a, <2>2, <2>4, <2>5, <2>9
    <3> QED
      BY <3>1, <3>2, <2>8
  <2>14. SequenceInv'
    <3> SUFFICES ASSUME ~wrapped', NEW a \in asked'
                 PROVE  a.seq <= next_seq' /\ pending'[a.table][a.seq] \in {0, a.id}
      BY DEF SequenceInv
    <3>1. CASE a \in asked
      <4>1. pending[a.table][a.seq] \in {0, a.id}
        BY <3>1, <2>7 DEF SequenceInv
      <4> QED
        BY <3>1, <4>1, <2>6, <2>7
    <3>2. CASE a = new
      BY <3>2, <2>5, <2>6, <2>7, <1>s DEF Seqs
    <3> QED
      BY <3>1, <3>2, <2>8
  <2>15. ClosedInv' /\ NoWaitAfterTeardown'
    BY <1>6, <2>1 DEF ClosedInv, NoWaitAfterTeardown
  <2>16. Serialized'
    <3>1. Holds(c)' /\ sent' = n.start + n.frags + 1 /\ n.id = sent'
      BY <2>1, <2>4, <2>6 DEF Holds, CommandRecords
    <3> QED
      BY <2>2, <2>4, <2>9, <3>1 DEF Serialized
  <2>17. AwaitedIsPending'
    <3>1. Table(n.what) = r.what
      BY <2>1, <2>4 DEF Table, Tables
    <3> QED
      BY <2>2, <2>4, <2>6, <2>9, <3>1 DEF AwaitedIsPending
  <2>18. NoAbandonedEntry'
    <3> SUFFICES ASSUME NEW a \in asked', pending'[a.table][a.seq] = a.id
                 PROVE  \E d \in Callers : cmd'[d].pc = "reply" /\ cmd'[d].id = a.id
      BY DEF NoAbandonedEntry
    <3>1. CASE a \in asked
      <4>1. pending[a.table][a.seq] = a.id /\ ~(cmd[c].pc = "reply" /\ cmd[c].id = a.id)
        BY <3>1, <1>a, <1>b, <2>6
      <4>2. PICK d \in Callers : cmd[d].pc = "reply" /\ cmd[d].id = a.id
        BY <3>1, <4>1 DEF NoAbandonedEntry
      <4> QED
        BY <4>1, <4>2, <1>o
    <3>2. CASE a = new
      BY <3>2, <2>2, <2>4, <2>5
    <3> QED
      BY <3>1, <3>2, <2>8
  <2>19. OwnReply'
    BY <2>2, <2>4, <2>9 DEF OwnReply
  <2> QED
    BY <2>10, <2>11, <2>12, <2>13, <2>14, <2>15, <2>16, <2>17, <2>18, <2>19
<1> QED
  BY <1>1, <1>2, <1>4, <1>5, <1>6 DEF ToSend

-----------------------------------------------------------------------------
(***************************************************************************)
(* The steps of the lock holder.                                           *)
(***************************************************************************)
LEMMA HolderIsBusy ==
  ASSUME IInv, NEW c \in Callers, Holds(c)
  PROVE  cmd[c] \in CommandRecords /\ cmd[c].pc # "idle"
  BY DEF IInv, TypeOK, Holds, LockInv

\* The pop of a command's `finally` clause removes the entry of its request.
LEMMA PoppedProperties ==
  ASSUME IInv, NEW c \in Callers, cmd[c].pc = "reply"
  PROVE  /\ Holds(c)
         /\ Popped(c) \in [Tables -> [Seqs -> Nat]]
         /\ \A a \in asked :
              /\ Popped(c)[a.table][a.seq] \in {pending[a.table][a.seq], 0}
              /\ cmd[c].id = a.id => Popped(c)[a.table][a.seq] # a.id
<1> USE DEF IInv
<1>1. Table(cmd[c].what) = cmd[c].what /\ cmd[c].what \in Tables
  BY DEF CommandInv, Table, Tables
<1>2. cmd[c].slot \in Seqs
  BY DEF TypeOK, CommandRecords
<1>3. /\ Popped(c) \in [Tables -> [Seqs -> Nat]]
      /\ Popped(c)[cmd[c].what][cmd[c].slot] = 0
      /\ \A t \in Tables, x \in Seqs : Popped(c)[t][x] \in {pending[t][x], 0}
  BY <1>1, <1>2 DEF Popped, TypeOK
<1>4. \A a \in asked : a.table \in Tables /\ a.seq \in Seqs
  BY DEF TypeOK
<1>5. ASSUME NEW a \in asked, cmd[c].id = a.id
      PROVE  Popped(c)[a.table][a.seq] # a.id
  <2>1. a.table = cmd[c].what /\ a.seq = cmd[c].slot /\ a.id \in 1 .. sent
    BY <1>5 DEF RequestInv
  <2> QED
    BY <2>1, <1>3 DEF TypeOK
<1> QED
  BY <1>3, <1>4, <1>5 DEF Serialized

LEMMA AcquireInv ==
  ASSUME IInv, NEW c \in Callers, Acquire(c)
  PROVE  IInv'
<1> DEFINE r == [cmd[c] EXCEPT !.start = sent]
<1>1. cmd[c] \in CommandRecords /\ cmd[c].pc = "lock" /\ Holds(c) /\ sent \in Nat
  BY HolderIsBusy DEF Acquire, IInv, TypeOK
<1>2. cmd[c].fut = "none" /\ cmd[c].frags = 0
  BY <1>1 DEF IInv, CommandInv
<1>3. r \in CommandRecords /\ r.fut = "none" /\ sent = r.start + r.frags
  BY <1>1, <1>2 DEF CommandRecords
<1>4. ToSend(c, r, pending) /\ pending \in [Tables -> [Seqs -> Nat]]
  BY DEF Acquire, IInv, TypeOK
<1> HIDE DEF r
<1> QED
  BY <1>1, <1>3, <1>4, ToSendInv

LEMMA WakeInv ==
  ASSUME IInv, NEW c \in Callers, Wake(c)
  PROVE  IInv'
<1>1. cmd[c].pc = "quiet" /\ ToSend(c, cmd[c], pending)
  BY DEF Wake
<1>2. Holds(c) /\ sent = cmd[c].start + cmd[c].frags
  BY <1>1 DEF IInv, Serialized
<1>3. cmd[c] \in CommandRecords /\ cmd[c].fut = "none"
  BY <1>1 DEF IInv, TypeOK, CommandInv
<1>4. pending \in [Tables -> [Seqs -> Nat]]
  BY DEF IInv, TypeOK
<1> QED
  BY <1>1, <1>2, <1>3, <1>4, ToSendInv

\* The holder ends its command and touches nothing but its own entry.
LEMMA EndInv ==
  ASSUME IInv, NEW c \in Callers, Holds(c), NEW o \in Outcomes, Leave(c, o),
         \/ cmd[c].pc # "reply" /\ pending' = pending
         \/ cmd[c].pc = "reply" /\ pending' = Popped(c),
         UNCHANGED <<next_seq, since, asked, closed, tornDown, sent, wrapped, calls>>
  PROVE  IInv'
<1>1. /\ next_seq' \in Seqs /\ wrapped' \in BOOLEAN /\ next_seq' >= next_seq
      /\ sent' \in {sent, sent + 1}
  BY DEF IInv, TypeOK, Seqs
<1>2. /\ pending' \in [Tables -> [Seqs -> Nat]]
      /\ \A a \in asked :
           /\ pending'[a.table][a.seq] \in {pending[a.table][a.seq], 0}
           /\ cmd[c].pc = "reply" /\ cmd[c].id = a.id => pending'[a.table][a.seq] # a.id
  <2>1. CASE cmd[c].pc # "reply" /\ pending' = pending
    BY <2>1 DEF IInv, TypeOK
  <2>2. CASE cmd[c].pc = "reply" /\ pending' = Popped(c)
    BY <2>2, PoppedProperties
  <2> QED
    BY <2>1, <2>2
<1> QED
  BY <1>1, <1>2, LeaveInv

LEMMA ResumeRaisedInv ==
  ASSUME IInv, NEW c \in Callers, ResumeRaised(c)
  PROVE  IInv'
<1>1. cmd[c].fut \in Outcomes
  BY DEF ResumeRaised, FutureErrors, Outcomes, SpcErrors
<1> QED
  BY <1>1, PoppedProperties, EndInv DEF ResumeRaised

LEMMA ResumeLastInv ==
  ASSUME IInv, NEW c \in Callers, ResumeLast(c)
  PROVE  IInv'
<1>1. Verdict(cmd[c].body) \in Outcomes
  BY DEF Verdict, Outcomes, SpcErrors
<1> QED
  BY <1>1, PoppedProperties, EndInv DEF ResumeLast

LEMMA ResumeMoreInv ==
  ASSUME IInv, NEW c \in Callers, ResumeMore(c)
  PROVE  IInv'
<1> DEFINE r == [cmd[c] EXCEPT !.frags = @ + 1, !.fut = "none", !.of = 0, !.body = "none"]
<1>1. /\ cmd[c].pc = "reply" /\ cmd[c].frags + 1 < MaxFragments
      /\ ToSend(c, r, Popped(c))
  BY DEF ResumeMore
<1>2. cmd[c] \in CommandRecords /\ sent = cmd[c].start + cmd[c].frags + 1
  BY <1>1 DEF IInv, TypeOK, Serialized
<1>3. r \in CommandRecords /\ r.fut = "none" /\ sent = r.start + r.frags
  <2>1. cmd[c].frags + 1 \in 0 .. MaxFragments - 1 /\ "none" \in Futures
    BY <1>1, <1>2, FragmentsAssumption DEF CommandRecords, Futures
  <2>2. r \in CommandRecords
    BY <1>2, <2>1 DEF CommandRecords
  <2>3. r.fut = "none" /\ r.start = cmd[c].start /\ r.frags = cmd[c].frags + 1
    BY <1>2 DEF CommandRecords
  <2> QED
    BY <1>2, <2>2, <2>3 DEF CommandRecords
<1> HIDE DEF r
<1> QED
  BY <1>1, <1>3, PoppedProperties, ToSendInv

LEMMA QuietEndInv ==
  ASSUME IInv, NEW c \in Callers, QuietTimeout(c) \/ CancelQuiet(c)
  PROVE  IInv'
<1>1. Holds(c) /\ cmd[c].pc # "reply"
  BY DEF QuietTimeout, CancelQuiet, IInv, Serialized
<1>2. "SpcTimeout" \in Outcomes /\ "cancelled" \in Outcomes
  BY DEF Outcomes, SpcErrors
<1> QED
  BY <1>1, <1>2, EndInv DEF QuietTimeout, CancelQuiet

-----------------------------------------------------------------------------
(***************************************************************************)
(* The steps that move a caller into or out of the lock's queue.           *)
(***************************************************************************)
LEMMA CallInv ==
  ASSUME IInv, NEW c \in Callers, NEW what \in Requests, Call(c, what)
  PROVE  IInv'
<1> USE DEF IInv
<1> DEFINE n == [Idle("none") EXCEPT !.pc = "lock", !.what = what]
<1>1. /\ cmd[c].pc = "idle" /\ queue' = Append(queue, c)
      /\ cmd' = [cmd EXCEPT ![c] = n] /\ calls' = calls + 1
      /\ UNCHANGED <<next_seq, since, pending, asked, closed, tornDown, sent, wrapped>>
  BY DEF Call
<1>2. n \in CommandRecords
  <2>1. "none" \in Outcomes
    BY DEF Outcomes
  <2>2. Idle("none") \in CommandRecords
    BY <2>1, IdleType
  <2> QED
    BY <2>2 DEF CommandRecords
<1>3. n.pc = "lock" /\ n.fut = "none" /\ n.frags = 0
  BY DEF Idle
<1> HIDE DEF n
<1>4. /\ cmd'[c] = n
      /\ \A d \in Callers : d # c => cmd'[d] = cmd[d]
  BY <1>1 DEF TypeOK
<1>5. /\ queue \in Seq(Callers) /\ queue' \in Seq(Callers)
      /\ Len(queue) \in Nat /\ Len(queue') = Len(queue) + 1
      /\ \A i \in 1 .. Len(queue) : queue'[i] = queue[i] /\ queue[i] \in Callers
      /\ queue'[Len(queue) + 1] = c
  BY <1>1, AppendProperties DEF TypeOK
<1>6. \A i \in 1 .. Len(queue) : queue[i] # c
  BY <1>1 DEF LockInv
<1>7. TypeOK'
  BY <1>1, <1>2, <1>5 DEF TypeOK
<1>8. LockInv'
  <2>1. \A i \in 1 .. Len(queue') : i \in 1 .. Len(queue) \/ i = Len(queue) + 1
    BY <1>5
  <2>2. \A i \in 1 .. Len(queue') : cmd'[queue'[i]].pc # "idle"
    BY <2>1, <1>3, <1>4, <1>5, <1>6 DEF LockInv
  <2>3. \A d \in Callers : cmd'[d].pc # "idle" => \E i \in 1 .. Len(queue') : queue'[i] = d
    <3> SUFFICES ASSUME NEW d \in Callers, cmd'[d].pc # "idle"
                 PROVE  \E i \in 1 .. Len(queue') : queue'[i] = d
      OBVIOUS
    <3>1. CASE d = c
      <4>1. Len(queue) + 1 \in 1 .. Len(queue')
        BY <1>5
      <4> QED
        BY <3>1, <4>1, <1>5
    <3>2. CASE d # c
      <4>1. PICK i \in 1 .. Len(queue) : queue[i] = d
        BY <3>2, <1>4 DEF LockInv
      <4>2. i \in 1 .. Len(queue') /\ queue'[i] = d
        BY <4>1, <1>5
      <4> QED
        BY <4>2
    <3> QED
      BY <3>1, <3>2
  <2>4. ASSUME NEW i \in 1 .. Len(queue'), NEW j \in 1 .. Len(queue'), queue'[i] = queue'[j]
        PROVE  i = j
    BY <2>1, <2>4, <1>5, <1>6 DEF LockInv
  <2> QED
    BY <2>2, <2>3, <2>4 DEF LockInv
<1>9. CommandInv'
  BY <1>3, <1>4 DEF CommandInv
<1>10. RequestInv'
  BY <1>1, <1>3, <1>4 DEF RequestInv
<1>11. SequenceInv' /\ ClosedInv'
  BY <1>1 DEF SequenceInv, ClosedInv
<1>12. Serialized'
  <2>1. ASSUME NEW d \in Callers, d # c, Holds(d)
        PROVE  Holds(d)'
    BY <2>1, <1>5 DEF Holds
  <2> QED
    BY <2>1, <1>1, <1>3, <1>4 DEF Serialized
<1>13. AwaitedIsPending' /\ OwnReply' /\ NoWaitAfterTeardown'
  BY <1>1, <1>3, <1>4 DEF AwaitedIsPending, OwnReply, NoWaitAfterTeardown
<1>14. NoAbandonedEntry'
  BY <1>1, <1>4 DEF NoAbandonedEntry
<1> QED
  BY <1>7, <1>8, <1>9, <1>10, <1>11, <1>12, <1>13, <1>14

LEMMA CancelLockInv ==
  ASSUME IInv, NEW c \in Callers, CancelLock(c)
  PROVE  IInv'
<1> USE DEF IInv
<1>1. /\ cmd[c].pc = "lock" /\ cmd' = [cmd EXCEPT ![c] = Idle("cancelled")]
      /\ UNCHANGED <<next_seq, since, pending, asked, closed, tornDown, sent, wrapped, calls>>
  BY DEF CancelLock
<1>2. queue \in Seq(Callers)
  BY DEF TypeOK
<1>3. PICK k \in 1 .. Len(queue) : queue[k] = c /\ queue' = RemoveAt(queue, k)
  BY <1>2 DEF CancelLock
<1>4. /\ queue' \in Seq(Callers) /\ Len(queue) \in Nat /\ Len(queue') = Len(queue) - 1
      /\ \A j \in 1 .. Len(queue) - 1 :
           queue'[j] = IF j < k THEN queue[j] ELSE queue[j + 1]
  <2>1. /\ RemoveAt(queue, k) \in Seq(Callers)
        /\ Len(RemoveAt(queue, k)) = Len(queue) - 1
        /\ \A j \in 1 .. Len(queue) - 1 :
             RemoveAt(queue, k)[j] = IF j < k THEN queue[j] ELSE queue[j + 1]
    BY <1>2, RemoveAtProperties
  <2>2. Len(queue) \in Nat /\ queue' = RemoveAt(queue, k)
    BY <1>2, <1>3
  <2> HIDE <1>3
  <2> QED
    BY <2>1, <2>2
<1>5. /\ cmd'[c] = Idle("cancelled")
      /\ \A d \in Callers : d # c => cmd'[d] = cmd[d]
      /\ cmd'[c].pc = "idle" /\ cmd'[c].fut = "none"
  BY <1>1 DEF TypeOK, Idle
<1>6. "cancelled" \in Outcomes
  BY DEF Outcomes
<1>7. TypeOK'
  BY <1>1, <1>4, <1>6, IdleType DEF TypeOK
<1>8. LockInv'
  <2> DEFINE from(j) == IF j < k THEN j ELSE j + 1
  <2>1. ASSUME NEW j \in 1 .. Len(queue')
        PROVE  /\ from(j) \in 1 .. Len(queue) /\ from(j) # k
               /\ queue'[j] = queue[from(j)] /\ queue'[j] \in Callers /\ queue'[j] # c
    <3>1. from(j) \in 1 .. Len(queue) /\ from(j) # k /\ queue'[j] = queue[from(j)]
      BY <1>4
    <3> QED
      BY <3>1, <1>2, <1>3 DEF LockInv
  <2>2. \A j \in 1 .. Len(queue') : cmd'[queue'[j]].pc # "idle"
    BY <2>1, <1>5 DEF LockInv
  <2>3. ASSUME NEW i \in 1 .. Len(queue'), NEW j \in 1 .. Len(queue'), queue'[i] = queue'[j]
        PROVE  i = j
    <3>1. from(i) = from(j)
      BY <2>1, <2>3 DEF LockInv
    <3> QED
      BY <3>1, <1>4
  <2>4. ASSUME NEW d \in Callers, cmd'[d].pc # "idle"
        PROVE  \E j \in 1 .. Len(queue') : queue'[j] = d
    <3>1. d # c /\ cmd[d].pc # "idle"
      BY <2>4, <1>5
    <3>2. PICK i \in 1 .. Len(queue) : queue[i] = d
      BY <3>1 DEF LockInv
    <3>3. i # k
      BY <3>1, <3>2, <1>3
    <3>4. CASE i < k
      <4>1. i \in 1 .. Len(queue') /\ queue'[i] = d
        BY <3>2, <3>4, <1>4
      <4> QED
        BY <4>1
    <3>5. CASE i > k
      <4>1. i - 1 \in 1 .. Len(queue') /\ queue'[i - 1] = d
        BY <3>2, <3>5, <1>4
      <4> QED
        BY <4>1
    <3>6. i < k \/ i > k
      BY <3>3
    <3> QED
      BY <3>4, <3>5, <3>6
  <2> QED
    BY <2>2, <2>3, <2>4 DEF LockInv
<1>9. CommandInv'
  BY <1>5 DEF CommandInv
<1>10. RequestInv'
  BY <1>1, <1>5 DEF RequestInv
<1>11. SequenceInv' /\ ClosedInv'
  BY <1>1 DEF SequenceInv, ClosedInv
<1>12. Serialized'
  <2>1. ASSUME NEW d \in Callers, d # c, Holds(d)
        PROVE  Holds(d)'
    <3>1. queue[1] = d /\ k # 1
      BY <2>1, <1>2, <1>3 DEF Holds
    <3>2. 1 \in 1 .. Len(queue) - 1 /\ 1 < k
      BY <3>1, <1>3, <1>4
    <3>3. queue'[1] = d /\ queue' # <<>>
      BY <3>1, <3>2, <1>4
    <3> QED
      BY <3>3, <1>4 DEF Holds
  <2> QED
    BY <2>1, <1>1, <1>5 DEF Serialized
<1>13. AwaitedIsPending' /\ OwnReply' /\ NoWaitAfterTeardown'
  BY <1>1, <1>5 DEF AwaitedIsPending, OwnReply, NoWaitAfterTeardown
<1>14. NoAbandonedEntry'
  BY <1>1, <1>5 DEF NoAbandonedEntry
<1> QED
  BY <1>7, <1>8, <1>9, <1>10, <1>11, <1>12, <1>13, <1>14

-----------------------------------------------------------------------------
(***************************************************************************)
(* The steps that leave the lock alone and only change what the callers'   *)
(* futures and timers hold.                                                *)
(***************************************************************************)
SameCommand(c) ==
  /\ cmd'[c].pc = cmd[c].pc /\ cmd'[c].what = cmd[c].what /\ cmd'[c].start = cmd[c].start
  /\ cmd'[c].frags = cmd[c].frags /\ cmd'[c].slot = cmd[c].slot /\ cmd'[c].id = cmd[c].id
  /\ cmd'[c].fut # "none" <=> cmd[c].fut # "none"

LEMMA SameCommandsInv ==
  ASSUME IInv, TypeOK', UNCHANGED <<queue, sent>>, asked' \subseteq asked,
         \A c \in Callers : SameCommand(c)
  PROVE  LockInv' /\ CommandInv' /\ RequestInv' /\ Serialized'
<1> USE DEF IInv, SameCommand
<1>1. LockInv'
  <2>1. \A i \in 1 .. Len(queue) : queue[i] \in Callers
    BY DEF TypeOK
  <2> QED
    BY <2>1 DEF LockInv
<1>2. CommandInv'
  BY DEF CommandInv
<1>3. RequestInv'
  BY DEF RequestInv
<1>4. Serialized'
  <2>1. \A c \in Callers : Holds(c)' <=> Holds(c)
    BY DEF Holds
  <2> QED
    BY <2>1 DEF Serialized
<1> QED
  BY <1>1, <1>2, <1>3, <1>4

\* A future is given up by its caller: wait_for's timeout, or a cancellation.
LEMMA GiveUpInv ==
  ASSUME IInv, NEW c \in Callers, Expire(c) \/ CancelReply(c)
  PROVE  IInv'
<1> USE DEF IInv
<1>1. PICK f \in {"SpcTimeout", "cancelled"} :
        cmd' = [cmd EXCEPT ![c] = [@ EXCEPT !.fut = f, !.of = 0, !.body = "none"]]
  BY DEF Expire, CancelReply
<1>2. /\ cmd[c].pc = "reply" /\ cmd[c] \in CommandRecords
      /\ UNCHANGED <<next_seq, since, queue, pending, asked, closed, tornDown, sent,
                     wrapped, calls>>
  BY DEF Expire, CancelReply, TypeOK
<1> DEFINE n == [cmd[c] EXCEPT !.fut = f, !.of = 0, !.body = "none"]
<1>3. /\ n \in CommandRecords /\ n.fut = f
      /\ n.pc = cmd[c].pc /\ n.what = cmd[c].what /\ n.start = cmd[c].start
      /\ n.frags = cmd[c].frags /\ n.slot = cmd[c].slot /\ n.id = cmd[c].id
  <2>1. f \in Futures
    BY DEF Futures, FutureErrors
  <2> QED
    BY <2>1, <1>2 DEF CommandRecords
<1> HIDE DEF n
<1>4. /\ cmd'[c] = n
      /\ \A d \in Callers : d # c => cmd'[d] = cmd[d]
  BY <1>1 DEF TypeOK, n
<1>5. TypeOK'
  BY <1>1, <1>2, <1>3 DEF TypeOK, n
<1>6. \A d \in Callers : SameCommand(d)
  BY <1>2, <1>3, <1>4 DEF SameCommand, CommandInv
<1>7. LockInv' /\ CommandInv' /\ RequestInv' /\ Serialized'
  BY <1>2, <1>5, <1>6, SameCommandsInv
<1>8. SequenceInv' /\ ClosedInv'
  BY <1>2 DEF SequenceInv, ClosedInv
<1>9. AwaitedIsPending' /\ OwnReply' /\ NoWaitAfterTeardown'
  BY <1>2, <1>3, <1>4 DEF AwaitedIsPending, OwnReply, NoWaitAfterTeardown
<1>10. NoAbandonedEntry'
  BY <1>2, <1>6 DEF NoAbandonedEntry, SameCommand
<1> QED
  BY <1>5, <1>7, <1>8, <1>9, <1>10

LEMMA LargerProperties ==
  ASSUME NEW x \in Seqs, NEW y \in Seqs
  PROVE  Larger(x, y) \in Seqs /\ Larger(x, y) >= x
  BY SeqSpaceAssumption DEF Larger, Seqs

LEMMA DispatchReplyInv ==
  ASSUME IInv, NEW a \in asked, NEW body \in Bodies[a.table], DispatchReply(a, body)
  PROVE  IInv'
<1> USE DEF IInv
<1> DEFINE mine(c) == cmd[c].fut = "waiting" /\ cmd[c].id = pending[a.table][a.seq]
           n(c) == [cmd[c] EXCEPT !.fut = "result", !.of = a.id, !.body = body]
<1>1. /\ ~tornDown /\ since' = 0 /\ next_seq' = Larger(next_seq, a.seq)
      /\ asked' = asked \ {a}
      /\ pending' = [pending EXCEPT ![a.table][a.seq] = 0]
      /\ cmd' = [c \in Callers |-> IF mine(c) THEN n(c) ELSE cmd[c]]
      /\ UNCHANGED <<queue, closed, tornDown, sent, wrapped, calls>>
  BY DEF DispatchReply, Received
<1>2. /\ a.table \in Tables /\ a.seq \in Seqs /\ a.id \in Nat
      /\ \A b \in asked : b.table \in Tables /\ b.seq \in Seqs /\ b.id \in 1 .. sent
  BY DEF TypeOK, RequestInv
<1>3. /\ pending' \in [Tables -> [Seqs -> Nat]]
      /\ pending'[a.table][a.seq] = 0
      /\ \A t \in Tables, x \in Seqs : pending'[t][x] \in {pending[t][x], 0}
      /\ \A t \in Tables, x \in Seqs :
           pending'[t][x] # pending[t][x] => t = a.table /\ x = a.seq
  BY <1>1, <1>2 DEF TypeOK
<1>4. body \in {"none"} \cup Bodies.xml \cup Bodies.bin
  BY <1>2 DEF Bodies, Tables
<1>5. ASSUME NEW c \in Callers
      PROVE  /\ n(c) \in CommandRecords /\ n(c).fut = "result" /\ n(c).of = a.id
             /\ n(c).pc = cmd[c].pc /\ n(c).what = cmd[c].what
             /\ n(c).start = cmd[c].start /\ n(c).frags = cmd[c].frags
             /\ n(c).slot = cmd[c].slot /\ n(c).id = cmd[c].id
  <2>1. cmd[c] \in CommandRecords /\ "result" \in Futures
    BY DEF TypeOK, Futures
  <2> QED
    BY <2>1, <1>2, <1>4 DEF CommandRecords
<1> HIDE DEF n
<1>6. \A c \in Callers : cmd'[c] = IF mine(c) THEN n(c) ELSE cmd[c]
  BY <1>1
<1>7. cmd' \in [Callers -> CommandRecords]
  BY <1>1, <1>5 DEF TypeOK
<1> HIDE DEF mine
<1>8. next_seq' \in Seqs /\ next_seq' >= next_seq
  BY <1>1, <1>2, LargerProperties DEF TypeOK
<1>9. TypeOK'
  BY <1>1, <1>3, <1>7, <1>8, QuietAssumption DEF TypeOK
<1>10. \A c \in Callers : SameCommand(c)
  BY <1>5, <1>6 DEF SameCommand, mine
<1>11. LockInv' /\ CommandInv' /\ RequestInv' /\ Serialized'
  BY <1>1, <1>9, <1>10, SameCommandsInv
<1>12. SequenceInv'
  <2> SUFFICES ASSUME ~wrapped, NEW b \in asked
               PROVE  b.seq <= next_seq' /\ pending'[b.table][b.seq] \in {0, b.id}
    BY <1>1 DEF SequenceInv
  <2>1. b.seq <= next_seq /\ pending[b.table][b.seq] \in {0, b.id}
    BY DEF SequenceInv
  <2>2. b.seq \in Nat /\ next_seq \in Nat /\ next_seq' \in Nat
    BY <1>2, <1>8 DEF TypeOK, Seqs
  <2> QED
    BY <2>1, <2>2, <1>2, <1>3, <1>8
<1>13. ClosedInv' /\ NoWaitAfterTeardown'
  BY <1>1 DEF ClosedInv, NoWaitAfterTeardown
<1>14. AwaitedIsPending'
  <2> SUFFICES ASSUME NEW c \in Callers, cmd'[c].fut = "waiting"
               PROVE  pending'[Table(cmd'[c].what)][cmd'[c].slot] = cmd'[c].id
    BY DEF AwaitedIsPending
  <2>1. ~mine(c) /\ cmd'[c] = cmd[c]
    BY <1>5, <1>6
  <2>2. pending[Table(cmd[c].what)][cmd[c].slot] = cmd[c].id
    BY <2>1 DEF AwaitedIsPending
  <2>3. Table(cmd[c].what) \in Tables /\ cmd[c].slot \in Seqs
    BY DEF TypeOK, CommandRecords, Table, Tables
  <2> QED
    BY <2>1, <2>2, <2>3, <1>3 DEF mine
<1>15. NoAbandonedEntry'
  <2> SUFFICES ASSUME NEW b \in asked, pending'[b.table][b.seq] = b.id
               PROVE  \E c \in Callers : cmd'[c].pc = "reply" /\ cmd'[c].id = b.id
    BY <1>1 DEF NoAbandonedEntry
  <2>1. pending[b.table][b.seq] = b.id
    BY <1>2, <1>3 DEF TypeOK
  <2> QED
    BY <2>1, <1>10 DEF NoAbandonedEntry, SameCommand
<1>16. OwnReply'
  <2> SUFFICES ASSUME ~wrapped, NEW c \in Callers, cmd'[c].fut = "result"
               PROVE  cmd'[c].of = cmd'[c].id
    BY <1>1 DEF OwnReply
  <2>1. CASE mine(c)
    <3>1. cmd[c].id = pending[a.table][a.seq] /\ pending[a.table][a.seq] \in {0, a.id}
      BY <2>1 DEF mine, SequenceInv
    <3>2. cmd[c].id = sent /\ sent # 0
      BY <2>1, <1>2 DEF mine, CommandInv, Serialized
    <3> QED
      BY <2>1, <3>1, <3>2, <1>5, <1>6
  <2>2. CASE ~mine(c)
    BY <2>2, <1>6 DEF OwnReply
  <2> QED
    BY <2>1, <2>2
<1> QED
  BY <1>9, <1>11, <1>12, <1>13, <1>14, <1>15, <1>16

LEMMA DispatchOtherInv ==
  ASSUME IInv, NEW seq \in Seqs, DispatchOther(seq)
  PROVE  IInv'
<1> USE DEF IInv
<1>1. /\ ~tornDown /\ since' = 0 /\ next_seq' = Larger(next_seq, seq)
      /\ closed' \in BOOLEAN
      /\ UNCHANGED <<queue, cmd, pending, asked, tornDown, sent, wrapped, calls>>
  BY DEF DispatchOther, Received, TypeOK
<1>2. next_seq' \in Seqs /\ next_seq' >= next_seq
  BY <1>1, LargerProperties DEF TypeOK
<1>3. TypeOK'
  BY <1>1, <1>2, QuietAssumption DEF TypeOK
<1>4. LockInv' /\ CommandInv' /\ RequestInv' /\ Serialized'
  BY <1>1, <1>3, SameCommandsInv DEF SameCommand
<1>5. SequenceInv'
  <2>1. \A a \in asked : a.seq \in Nat /\ next_seq \in Nat /\ next_seq' \in Nat
    BY <1>2 DEF TypeOK, Seqs
  <2> QED
    BY <1>1, <1>2, <2>1 DEF SequenceInv
<1>6. ClosedInv' /\ NoWaitAfterTeardown'
  BY <1>1 DEF ClosedInv, NoWaitAfterTeardown
<1>7. AwaitedIsPending' /\ NoAbandonedEntry' /\ OwnReply'
  BY <1>1 DEF AwaitedIsPending, NoAbandonedEntry, OwnReply
<1> QED
  BY <1>3, <1>4, <1>5, <1>6, <1>7

LEMMA TickInv ==
  ASSUME IInv, Tick
  PROVE  IInv'
<1> USE DEF IInv
<1> DEFINE n(c) == [cmd[c] EXCEPT !.timer = IF @ > 0 THEN @ - 1 ELSE 0]
<1>1. /\ since' = (IF since < QuietTime THEN since + 1 ELSE since)
      /\ cmd' = [c \in Callers |-> n(c)]
      /\ UNCHANGED <<next_seq, queue, pending, asked, closed, tornDown, sent, wrapped, calls>>
  BY DEF Tick
<1>2. ASSUME NEW c \in Callers
      PROVE  /\ n(c) \in CommandRecords /\ n(c).fut = cmd[c].fut /\ n(c).of = cmd[c].of
             /\ n(c).pc = cmd[c].pc /\ n(c).what = cmd[c].what
             /\ n(c).start = cmd[c].start /\ n(c).frags = cmd[c].frags
             /\ n(c).slot = cmd[c].slot /\ n(c).id = cmd[c].id
  <2>1. cmd[c] \in CommandRecords
    BY DEF TypeOK
  <2>2. (IF cmd[c].timer > 0 THEN cmd[c].timer - 1 ELSE 0) \in 0 .. QuietTime
    BY <2>1, QuietAssumption DEF CommandRecords
  <2> QED
    BY <2>1, <2>2 DEF CommandRecords
<1> HIDE DEF n
<1>3. \A c \in Callers : cmd'[c] = n(c)
  BY <1>1
<1>4. TypeOK'
  <2>1. since' \in 0 .. QuietTime
    BY <1>1, QuietAssumption DEF TypeOK
  <2> QED
    BY <1>1, <1>2, <2>1 DEF TypeOK
<1>5. \A c \in Callers : SameCommand(c)
  BY <1>2, <1>3 DEF SameCommand
<1>6. LockInv' /\ CommandInv' /\ RequestInv' /\ Serialized'
  BY <1>1, <1>4, <1>5, SameCommandsInv
<1>7. SequenceInv' /\ ClosedInv'
  BY <1>1 DEF SequenceInv, ClosedInv
<1>8. AwaitedIsPending' /\ OwnReply' /\ NoWaitAfterTeardown'
  BY <1>1, <1>2, <1>3 DEF AwaitedIsPending, OwnReply, NoWaitAfterTeardown
<1>9. NoAbandonedEntry'
  BY <1>1, <1>5 DEF NoAbandonedEntry, SameCommand
<1> QED
  BY <1>4, <1>6, <1>7, <1>8, <1>9

LEMMA RequestTeardownInv ==
  ASSUME IInv, RequestTeardown
  PROVE  IInv'
<1> USE DEF IInv
<1>1. /\ closed' = TRUE
      /\ UNCHANGED <<next_seq, since, queue, cmd, pending, asked, tornDown, sent, wrapped,
                     calls>>
  BY DEF RequestTeardown
<1>2. TypeOK'
  BY <1>1 DEF TypeOK
<1>3. LockInv' /\ CommandInv' /\ RequestInv' /\ Serialized'
  BY <1>1, <1>2, SameCommandsInv DEF SameCommand
<1>4. SequenceInv' /\ ClosedInv' /\ NoWaitAfterTeardown'
  BY <1>1 DEF SequenceInv, ClosedInv, NoWaitAfterTeardown
<1>5. AwaitedIsPending' /\ NoAbandonedEntry' /\ OwnReply'
  BY <1>1 DEF AwaitedIsPending, NoAbandonedEntry, OwnReply
<1> QED
  BY <1>2, <1>3, <1>4, <1>5

\* fail_pending reaches every future that is awaited, because each is pending.
LEMMA TeardownInv ==
  ASSUME IInv, Teardown
  PROVE  IInv'
<1> USE DEF IInv
<1> DEFINE fails(c) == cmd[c].fut = "waiting" /\ Registered(c)
           n(c) == [cmd[c] EXCEPT !.fut = "SpcConnectionLost"]
<1>1. /\ tornDown' = TRUE /\ closed' = TRUE /\ pending' = Empty /\ asked' = {}
      /\ cmd' = [c \in Callers |-> IF fails(c) THEN n(c) ELSE cmd[c]]
      /\ UNCHANGED <<next_seq, since, queue, sent, wrapped, calls>>
  BY DEF Teardown
<1>2. ASSUME NEW c \in Callers
      PROVE  /\ n(c) \in CommandRecords /\ n(c).fut = "SpcConnectionLost"
             /\ n(c).pc = cmd[c].pc /\ n(c).what = cmd[c].what
             /\ n(c).start = cmd[c].start /\ n(c).frags = cmd[c].frags
             /\ n(c).slot = cmd[c].slot /\ n(c).id = cmd[c].id
  <2>1. cmd[c] \in CommandRecords /\ "SpcConnectionLost" \in Futures
    BY DEF TypeOK, Futures, FutureErrors
  <2> QED
    BY <2>1 DEF CommandRecords
<1> HIDE DEF n
<1>3. \A c \in Callers : cmd[c].fut = "waiting" => fails(c)
  <2> SUFFICES ASSUME NEW c \in Callers, cmd[c].fut = "waiting"
               PROVE  Registered(c)
    OBVIOUS
  <2>1. pending[Table(cmd[c].what)][cmd[c].slot] = cmd[c].id
    BY DEF AwaitedIsPending
  <2>2. Table(cmd[c].what) \in Tables /\ cmd[c].slot \in Seqs
    BY DEF TypeOK, CommandRecords, Table, Tables
  <2> QED
    BY <2>1, <2>2 DEF Registered
<1>4. cmd' \in [Callers -> CommandRecords]
  BY <1>1, <1>2 DEF TypeOK
<1>5. \A c \in Callers : /\ SameCommand(c)
                         /\ cmd'[c].fut # "waiting"
                         /\ cmd'[c].fut = "result" => cmd'[c] = cmd[c]
  BY <1>1, <1>2, <1>3 DEF SameCommand
<1> HIDE DEF fails
<1>6. TypeOK'
  <2>1. Empty \in [Tables -> [Seqs -> Nat]]
    BY DEF Empty
  <2> QED
    BY <1>1, <1>4, <2>1 DEF TypeOK
<1>7. LockInv' /\ CommandInv' /\ RequestInv' /\ Serialized'
  BY <1>1, <1>5, <1>6, SameCommandsInv
<1>8. SequenceInv' /\ ClosedInv' /\ NoAbandonedEntry'
  BY <1>1 DEF SequenceInv, ClosedInv, NoAbandonedEntry
<1>9. AwaitedIsPending' /\ NoWaitAfterTeardown'
  BY <1>5 DEF AwaitedIsPending, NoWaitAfterTeardown
<1>10. OwnReply'
  BY <1>1, <1>5 DEF OwnReply
<1> QED
  BY <1>6, <1>7, <1>8, <1>9, <1>10

LEMMA StutterInv ==
  ASSUME IInv, UNCHANGED vars
  PROVE  IInv'
BY DEF IInv, vars, TypeOK, LockInv, CommandInv, RequestInv, SequenceInv, ClosedInv,
       Serialized, Holds, AwaitedIsPending, NoAbandonedEntry, OwnReply, NoWaitAfterTeardown

-----------------------------------------------------------------------------
(***************************************************************************)
(* The theorems.                                                           *)
(***************************************************************************)
LEMMA InitInv == Init => IInv
<1> SUFFICES ASSUME Init PROVE IInv
  OBVIOUS
<1>1. TypeOK
  <2>1. Idle("none") \in CommandRecords
    BY IdleType DEF Outcomes
  <2>2. /\ next_seq \in Seqs /\ since \in 0 .. QuietTime /\ queue \in Seq(Callers)
        /\ pending \in [Tables -> [Seqs -> Nat]]
    BY SeqSpaceAssumption, QuietAssumption DEF Init, Empty, Seqs
  <2>3. cmd \in [Callers -> CommandRecords]
    BY <2>1 DEF Init
  <2> QED
    BY <2>2, <2>3 DEF Init, TypeOK
<1>2. \A c \in Callers : cmd[c].pc = "idle" /\ cmd[c].fut = "none"
  BY DEF Init, Idle
<1>3. LockInv
  BY <1>2 DEF Init, LockInv
<1>4. CommandInv /\ Serialized /\ AwaitedIsPending /\ OwnReply
  BY <1>2 DEF CommandInv, Serialized, AwaitedIsPending, OwnReply
<1>5. RequestInv /\ SequenceInv /\ NoAbandonedEntry /\ ClosedInv /\ NoWaitAfterTeardown
  BY DEF Init, RequestInv, SequenceInv, NoAbandonedEntry, ClosedInv, NoWaitAfterTeardown
<1> QED
  BY <1>1, <1>3, <1>4, <1>5 DEF IInv

LEMMA NextInv == IInv /\ [Next]_vars => IInv'
<1> SUFFICES ASSUME IInv, [Next]_vars PROVE IInv'
  OBVIOUS
<1>1. ASSUME NEW c \in Callers, NEW what \in Requests, Call(c, what) PROVE IInv'
  BY <1>1, CallInv
<1>2. ASSUME NEW c \in Callers, Run(c) PROVE IInv'
  BY <1>2, AcquireInv, WakeInv, ResumeRaisedInv, ResumeLastInv, ResumeMoreInv DEF Run
<1>3. ASSUME NEW c \in Callers, QuietTimeout(c) \/ CancelQuiet(c) PROVE IInv'
  BY <1>3, QuietEndInv
<1>4. ASSUME NEW c \in Callers, Expire(c) \/ CancelReply(c) PROVE IInv'
  BY <1>4, GiveUpInv
<1>5. ASSUME NEW c \in Callers, CancelLock(c) PROVE IInv'
  BY <1>5, CancelLockInv
<1>6. ASSUME NEW a \in asked, NEW body \in Bodies[a.table], DispatchReply(a, body) PROVE IInv'
  BY <1>6, DispatchReplyInv
<1>7. ASSUME NEW seq \in Seqs, DispatchOther(seq) PROVE IInv'
  BY <1>7, DispatchOtherInv
<1>8. CASE Tick
  BY <1>8, TickInv
<1>9. CASE RequestTeardown
  BY <1>9, RequestTeardownInv
<1>10. CASE Teardown
  BY <1>10, TeardownInv
<1>11. CASE Finished \/ UNCHANGED vars
  BY <1>11, StutterInv DEF Finished
<1> QED
  BY <1>1, <1>2, <1>3, <1>4, <1>5, <1>6, <1>7, <1>8, <1>9, <1>10, <1>11 DEF Next

\* The inductive invariant holds in every reachable state.
THEOREM Invariance == Spec => []IInv
  BY InitInv, NextInv, PTL DEF Spec

\* The session's state keeps its type (Session's fields and a command's locals).
THEOREM TypeCorrect == Spec => []TypeOK
<1>1. IInv => TypeOK
  BY DEF IInv
<1> QED
  BY <1>1, Invariance, PTL

\* No other command's request comes between the fragments of one command
\* (xml_command holds _command_lock across its loop).
THEOREM CommandsAreSerialized == Spec => []Serialized
<1>1. IInv => Serialized
  BY DEF IInv
<1> QED
  BY <1>1, Invariance, PTL

\* A reply or a teardown finds every future that is awaited (registration
\* before _send, removal only in `finally`).
THEOREM AwaitedFuturesArePending == Spec => []AwaitedIsPending
<1>1. IInv => AwaitedIsPending
  BY DEF IInv
<1> QED
  BY <1>1, Invariance, PTL

\* No late reply finds the entry of a command that is over (the `finally`
\* clause pops it on every path).
THEOREM EntriesAreNotAbandoned == Spec => []NoAbandonedEntry
<1>1. IInv => NoAbandonedEntry
  BY DEF IInv
<1> QED
  BY <1>1, Invariance, PTL

\* Before the sequence counter wraps, a command gets the reply to its own
\* request (_alloc_seq and the max of _dispatch never give a sequence twice).
THEOREM RepliesAreOwn == Spec => []OwnReply
<1>1. IInv => OwnReply
  BY DEF IInv
<1> QED
  BY <1>1, Invariance, PTL

\* Once the read loop is over no command is left waiting (_teardown fails
\* every pending future and no command sends on a closed session).
THEOREM TeardownFreesCommands == Spec => []NoWaitAfterTeardown
<1>1. IInv => NoWaitAfterTeardown
  BY DEF IInv
<1> QED
  BY <1>1, Invariance, PTL

\* A turn of _wait_to_send creates a request only when the session is quiet
\* and open.
LEMMA ToSendIsQuietAndOpen ==
  ASSUME TypeOK, NEW c \in Callers, NEW r, NEW p, ToSend(c, r, p), sent' > sent
  PROVE  since = QuietTime /\ ~closed
<1>1. ~(sent' = sent)
  BY DEF TypeOK
<1> QED
  BY <1>1 DEF ToSend

\* A request is created only after a full quiet time and never on a closed
\* session (the loop of _wait_to_send and its last look at _closed).
THEOREM SendsAreQuietAndOpen == Spec => QuietOpenSend
<1>1. TypeOK /\ [Next]_vars => [sent' > sent => since = QuietTime /\ ~closed]_vars
  <2> SUFFICES ASSUME TypeOK, Next, sent' > sent
               PROVE  since = QuietTime /\ ~closed
    OBVIOUS
  <2>1. ~(sent' = sent)
    BY DEF TypeOK
  <2>2. PICK c \in Callers : Acquire(c) \/ Wake(c) \/ ResumeMore(c)
    <3>1. \A c \in Callers : ~QuietTimeout(c) /\ ~Expire(c) /\ ~CancelLock(c)
                             /\ ~CancelQuiet(c) /\ ~CancelReply(c)
                             /\ ~ResumeRaised(c) /\ ~ResumeLast(c)
      BY <2>1 DEF QuietTimeout, Expire, CancelLock, CancelQuiet, CancelReply,
                  ResumeRaised, ResumeLast
    <3>2. \A c \in Callers, what \in Requests : ~Call(c, what)
      BY <2>1 DEF Call
    <3>3. \A a \in asked : \A body \in Bodies[a.table] : ~DispatchReply(a, body)
      BY <2>1 DEF DispatchReply
    <3>4. \A seq \in Seqs : ~DispatchOther(seq)
      BY <2>1 DEF DispatchOther
    <3>5. ~Tick /\ ~RequestTeardown /\ ~Teardown /\ ~Finished
      BY <2>1 DEF Tick, RequestTeardown, Teardown, Finished, vars
    <3> QED
      BY <3>1, <3>2, <3>3, <3>4, <3>5 DEF Next, Run
  <2>3. \E r, p : ToSend(c, r, p)
    BY <2>2 DEF Acquire, Wake, ResumeMore
  <2> QED
    BY <2>3, ToSendIsQuietAndOpen
<1> QED
  BY <1>1, TypeCorrect, PTL DEF Spec, QuietOpenSend

=============================================================================

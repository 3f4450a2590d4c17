------------------------- MODULE FrameDecoderProofs -------------------------
(***************************************************************************)
(* Proofs about FrameDecoder: type correctness, NoWedge and                *)
(* FramesAreNotSwallowed, for every header, read and frame size and every  *)
(* resync limit.                                                           *)
(***************************************************************************)
EXTENDS FrameDecoder, TLAPS

(***************************************************************************)
(* The anchor of the wait: it is set only for the head at the front, while *)
(* that head is plausible and incomplete, and at a time when the buffer    *)
(* held a header and hardly more than when the head got to the front.      *)
(***************************************************************************)
AnchorInv ==
  wait # NoWait =>
    /\ wait.total = head.total
    /\ wait.start \in HeaderLen..len
    /\ wait.start < base + HeaderLen + MaxRead

(***************************************************************************)
(* Before the anchor is set, the buffer holds what it did when the head    *)
(* got to the front, or at most one read more than an incomplete header.   *)
(***************************************************************************)
FreshInv ==
  wait = NoWait /\ phase # "failed" =>
    \/ len = base
    \/ len < HeaderLen + MaxRead

(***************************************************************************)
(* Between two calls the head is short of a header, or is being waited for *)
(* within the limit.                                                       *)
(***************************************************************************)
IdleInv ==
  phase = "idle" =>
    \/ len < HeaderLen
    \/ /\ wait # NoWait
       /\ len < head.total /\ head.total <= MaxPlausible
       /\ len - wait.start <= ResyncLimit

(***************************************************************************)
(* Too short a buffer was never waited on.                                 *)
(***************************************************************************)
ShortInv == len < HeaderLen => wait = NoWait

(***************************************************************************)
(* As long as the session lives, the budget of dropped bytes is not used   *)
(* up.                                                                     *)
(***************************************************************************)
BudgetInv == phase # "failed" => dropped <= ResyncLimit

IInv == TypeOK /\ AnchorInv /\ FreshInv /\ IdleInv /\ ShortInv /\ BudgetInv

-----------------------------------------------------------------------------
(***************************************************************************)
(* Claims and anchors that the actions store are of their types.           *)
(***************************************************************************)
LEMMA ClaimTypes ==
  ASSUME NEW c \in Claims
  PROVE  c.magic \in BOOLEAN /\ c.total \in 2..MaxClaim /\ c.total \in Nat /\ c.fate \in Fates
BY PlausibleAssumption DEF Claims

(***************************************************************************)
(* The anchor used for a plausible head: it starts with a header buffered  *)
(* and less than HeaderLen + MaxRead bytes after the head got to the front.*)
(***************************************************************************)
LEMMA AnchorFacts ==
  ASSUME IInv, phase = "looping", HasHeader, LooksValid
  PROVE  /\ Anchor \in [total : 0..MaxPlausible, start : Nat]
         /\ Anchor.total = head.total
         /\ Anchor.start \in HeaderLen..len
         /\ Anchor.start < base + HeaderLen + MaxRead
         /\ Anchor # NoWait
<1>1. head.total \in HeaderLen..MaxPlausible /\ head.total \in Nat /\ head.total # 0
  BY ClaimTypes, HeaderAssumption, PlausibleAssumption DEF IInv, TypeOK, LooksValid
<1>2. len \in Nat /\ base \in 0..len /\ len >= HeaderLen
  BY DEF IInv, TypeOK, HasHeader
<1>3. CASE wait.total = head.total
  <2>1. wait # NoWait
    BY <1>1, <1>3 DEF NoWait
  <2>2. Anchor = wait
    BY <1>3 DEF Anchor
  <2> QED BY <1>3, <2>1, <2>2 DEF IInv, TypeOK, AnchorInv
<1>4. CASE wait.total # head.total
  <2>1. wait = NoWait
    BY <1>4 DEF IInv, AnchorInv
  <2>2. Anchor = [total |-> head.total, start |-> len]
    BY <1>4 DEF Anchor
  <2>3. len < base + HeaderLen + MaxRead
    BY <1>2, <2>1, HeaderAssumption, ReadAssumption DEF IInv, FreshInv
  <2>4. 0 <= head.total /\ head.total <= MaxPlausible
    BY <1>1, PlausibleAssumption
  <2> QED BY <1>1, <1>2, <2>2, <2>3, <2>4, HeaderAssumption, PlausibleAssumption DEF NoWait
<1> QED BY <1>3, <1>4

(***************************************************************************)
(* Dropping a byte keeps the invariant, whatever made feed drop it.        *)
(***************************************************************************)
LEMMA ResyncKeeps ==
  ASSUME IInv, phase = "looping", HasHeader, Resync
  PROVE  IInv'
<1>1. len \in Nat /\ len >= 1 /\ len' = len - 1 /\ base' = len' /\ len' \in Nat
  BY HeaderAssumption DEF IInv, TypeOK, HasHeader, Resync
<1>2. dropped \in Nat /\ dropped <= ResyncLimit /\ dropped' = dropped + 1
  BY LimitAssumption DEF IInv, TypeOK, BudgetInv, Resync
<1>3. wait' = NoWait /\ head' \in Claims /\ out' = out
  BY DEF Resync, NextByte
<1>4. phase' = IF dropped' > ResyncLimit THEN "failed" ELSE "looping"
  BY DEF Resync
<1>5. TypeOK'
  <2>1. dropped' \in 0..ResyncLimit + 1
    BY <1>2, LimitAssumption
  <2>2. NoWait \in [total : 0..MaxPlausible, start : Nat]
    BY PlausibleAssumption DEF NoWait
  <2>3. base' \in 0..len'
    BY <1>1
  <2>4. phase' \in {"idle", "looping", "failed"}
    BY <1>4
  <2> QED BY <1>1, <1>3, <2>1, <2>2, <2>3, <2>4 DEF IInv, TypeOK
<1>6. AnchorInv' /\ FreshInv' /\ ShortInv'
  BY <1>1, <1>3 DEF AnchorInv, FreshInv, ShortInv
<1>7. IdleInv' /\ BudgetInv'
  BY <1>2, <1>4, LimitAssumption DEF IdleInv, BudgetInv
<1> QED BY <1>5, <1>6, <1>7 DEF IInv

-----------------------------------------------------------------------------
(***************************************************************************)
(* The invariant is inductive.                                             *)
(***************************************************************************)
THEOREM Invariance == Spec => []IInv
<1>1. Init => IInv
  <2> SUFFICES ASSUME Init PROVE IInv
    OBVIOUS
  <2>1. NoWait \in [total : 0..MaxPlausible, start : Nat]
    BY PlausibleAssumption DEF NoWait
  <2>2. TypeOK
    BY <2>1, LimitAssumption DEF Init, TypeOK
  <2>3. AnchorInv /\ FreshInv /\ ShortInv
    BY DEF Init, AnchorInv, FreshInv, ShortInv
  <2>4. IdleInv /\ BudgetInv
    BY HeaderAssumption, LimitAssumption DEF Init, IdleInv, BudgetInv
  <2> QED BY <2>2, <2>3, <2>4 DEF IInv
<1>2. IInv /\ [Next]_vars => IInv'
  <2> SUFFICES ASSUME IInv, [Next]_vars PROVE IInv'
    OBVIOUS
  <2>1. CASE Feed
    <3>1. PICK k \in 1..MaxRead : len' = len + k
      BY <2>1 DEF Feed
    <3>2. len \in Nat /\ len' \in Nat /\ len <= len' /\ len' <= len + MaxRead
      BY <3>1, ReadAssumption DEF IInv, TypeOK
    <3>3. /\ phase = "idle" /\ phase' = "looping" /\ out' = 0
          /\ UNCHANGED <<head, dropped, wait, base>>
      BY <2>1 DEF Feed
    <3>4. TypeOK'
      BY <3>2, <3>3 DEF IInv, TypeOK
    <3>5. AnchorInv'
      BY <3>2, <3>3, HeaderAssumption DEF IInv, TypeOK, AnchorInv
    <3>6. FreshInv'
      BY <3>2, <3>3, HeaderAssumption, ReadAssumption DEF IInv, FreshInv, IdleInv
    <3>7. IdleInv' /\ BudgetInv'
      BY <3>3 DEF IInv, IdleInv, BudgetInv
    <3>8. ShortInv'
      BY <3>2, <3>3, HeaderAssumption DEF IInv, ShortInv
    <3> QED BY <3>4, <3>5, <3>6, <3>7, <3>8 DEF IInv
  <2>2. CASE TooShort
    <3>1. TypeOK' /\ AnchorInv' /\ FreshInv' /\ ShortInv' /\ BudgetInv'
      BY <2>2 DEF TooShort, IInv, TypeOK, AnchorInv, FreshInv, ShortInv, BudgetInv
    <3>2. IdleInv'
      BY <2>2, HeaderAssumption DEF TooShort, HasHeader, IInv, TypeOK, IdleInv
    <3> QED BY <3>1, <3>2 DEF IInv
  <2>3. CASE Implausible
    BY <2>3, ResyncKeeps DEF Implausible
  <2>4. CASE AwaitRest
    <3>1. phase = "looping" /\ HasHeader /\ LooksValid /\ ~Whole /\ ~Overdue
      BY <2>4 DEF AwaitRest
    <3>2. /\ wait' = Anchor /\ phase' = "idle"
          /\ UNCHANGED <<len, head, dropped, out, base>>
      BY <2>4 DEF AwaitRest
    <3>3. TypeOK'
      BY <3>1, <3>2, AnchorFacts DEF IInv, TypeOK
    <3>4. AnchorInv' /\ FreshInv'
      BY <3>1, <3>2, AnchorFacts DEF AnchorInv, FreshInv
    <3>5. IdleInv'
      <4>1. len < head.total /\ head.total <= MaxPlausible
        BY <3>1, ClaimTypes, HeaderAssumption, PlausibleAssumption
          DEF IInv, TypeOK, Whole, LooksValid
      <4>2. len - Anchor.start <= ResyncLimit
        BY <3>1, AnchorFacts, HeaderAssumption, LimitAssumption DEF IInv, TypeOK, Overdue
      <4> QED BY <3>1, <3>2, <4>1, <4>2, AnchorFacts DEF IdleInv
    <3>6. ShortInv' /\ BudgetInv'
      BY <3>1, <3>2, HeaderAssumption DEF IInv, TypeOK, HasHeader, ShortInv, BudgetInv
    <3> QED BY <3>3, <3>4, <3>5, <3>6 DEF IInv
  <2>5. CASE GiveUpWaiting
    BY <2>5, ResyncKeeps DEF GiveUpWaiting
  <2>6. CASE Decoded
    <3>1. phase = "looping" /\ LooksValid /\ Whole
      BY <2>6 DEF Decoded
    <3>2. /\ len' = len - head.total /\ base' = len' /\ head' \in Claims /\ dropped' = 0
          /\ wait' = NoWait /\ out' = out + 1 /\ phase' = phase
      BY <2>6 DEF Decoded
    <3>3. len' \in Nat
      BY <3>1, <3>2, ClaimTypes DEF IInv, TypeOK, Whole
    <3>4. NoWait \in [total : 0..MaxPlausible, start : Nat]
      BY PlausibleAssumption DEF NoWait
    <3>5. TypeOK'
      BY <3>1, <3>2, <3>3, <3>4, LimitAssumption DEF IInv, TypeOK
    <3>6. AnchorInv' /\ FreshInv' /\ ShortInv'
      BY <3>2 DEF AnchorInv, FreshInv, ShortInv
    <3>7. IdleInv' /\ BudgetInv'
      BY <3>1, <3>2, LimitAssumption DEF IdleInv, BudgetInv
    <3> QED BY <3>5, <3>6, <3>7 DEF IInv
  <2>7. CASE Undecodable
    BY <2>7, ResyncKeeps DEF Undecodable
  <2>8. CASE Encrypted
    <3>1. NoWait \in [total : 0..MaxPlausible, start : Nat]
      BY PlausibleAssumption DEF NoWait
    <3>2. /\ wait' = NoWait /\ phase' = "failed"
          /\ UNCHANGED <<len, head, dropped, out, base>>
      BY <2>8 DEF Encrypted
    <3>3. TypeOK'
      BY <3>1, <3>2 DEF IInv, TypeOK
    <3>4. AnchorInv' /\ FreshInv' /\ IdleInv' /\ ShortInv' /\ BudgetInv'
      BY <3>2 DEF AnchorInv, FreshInv, IdleInv, ShortInv, BudgetInv
    <3> QED BY <3>3, <3>4 DEF IInv
  <2>9. CASE UNCHANGED vars
    BY <2>9 DEF vars, IInv, TypeOK, AnchorInv, FreshInv, IdleInv, ShortInv, BudgetInv
  <2> QED BY <2>1, <2>2, <2>3, <2>4, <2>5, <2>6, <2>7, <2>8, <2>9 DEF Next
<1> QED BY <1>1, <1>2, PTL DEF Spec

(***************************************************************************)
(* Type correctness; the buffer is never asked for more than it has.       *)
(***************************************************************************)
THEOREM TypeCorrect == Spec => []TypeOK
<1>1. IInv => TypeOK
  BY DEF IInv
<1> QED BY <1>1, Invariance, PTL

(***************************************************************************)
(* A phantom prefix never wedges the stream, whatever the limits are: the  *)
(* wait for a head is bounded, and so is the buffer between two calls.     *)
(***************************************************************************)
THEOREM StreamIsNotWedged == Spec => []NoWedge
<1>1. IInv => NoWedge
  <2> SUFFICES ASSUME IInv, phase = "idle"
               PROVE  len - base < HeaderLen + MaxRead + ResyncLimit /\ len < MaxPlausible
    BY DEF NoWedge
  <2>1. len \in Nat /\ base \in Nat /\ base <= len
    BY DEF IInv, TypeOK
  <2>2. CASE len < HeaderLen
    BY <2>1, <2>2, HeaderAssumption, PlausibleAssumption, LimitAssumption, ReadAssumption
  <2>3. CASE len >= HeaderLen
    <3>1. wait # NoWait /\ len < head.total /\ head.total <= MaxPlausible
          /\ len - wait.start <= ResyncLimit
      BY <2>1, <2>3, HeaderAssumption DEF IInv, IdleInv
    <3>2. wait.start \in Nat /\ wait.start < base + HeaderLen + MaxRead
      BY <3>1 DEF IInv, TypeOK, AnchorInv
    <3>3. head.total \in Nat
      BY ClaimTypes DEF IInv, TypeOK
    <3> QED BY <2>1, <3>1, <3>2, <3>3, HeaderAssumption, PlausibleAssumption,
               LimitAssumption, ReadAssumption
  <2> QED BY <2>1, <2>2, <2>3, HeaderAssumption
<1> QED BY <1>1, Invariance, PTL

(***************************************************************************)
(* No step of feed swallows a genuine small frame.                         *)
(***************************************************************************)
THEOREM NothingIsSwallowed == Spec => FramesAreNotSwallowed
<1>1. IInv /\ [Next]_vars =>
        [len' < len =>
           \/ Genuine /\ len' = len - head.total /\ out' = out + 1
           \/ len' = len - 1 /\ ~(Genuine /\ Small)]_vars
  <2> SUFFICES ASSUME IInv, Next, len' < len
               PROVE  \/ Genuine /\ len' = len - head.total /\ out' = out + 1
                      \/ len' = len - 1 /\ ~(Genuine /\ Small)
    OBVIOUS
  <2>0. len \in Nat /\ head \in Claims /\ head.total \in Nat
    BY ClaimTypes DEF IInv, TypeOK
  <2>1. CASE Feed
    BY <2>0, <2>1, ReadAssumption DEF Feed
  <2>2. CASE TooShort \/ AwaitRest \/ Encrypted
    BY <2>0, <2>2 DEF TooShort, AwaitRest, Encrypted
  <2>3. CASE Implausible
    BY <2>3 DEF Implausible, Resync, LooksValid, Genuine, Small
  <2>4. CASE GiveUpWaiting
    <3>1. phase = "looping" /\ HasHeader /\ LooksValid /\ ~Whole /\ Overdue /\ Resync
      BY <2>4 DEF GiveUpWaiting
    <3>2. Anchor.start \in HeaderLen..len
      BY <3>1, AnchorFacts
    <3>3. head.total > HeaderLen + ResyncLimit + 1
      BY <2>0, <3>1, <3>2, HeaderAssumption, LimitAssumption DEF Whole, Overdue
    <3> QED BY <2>0, <3>1, <3>3, HeaderAssumption, LimitAssumption DEF Resync, Small
  <2>5. CASE Decoded
    BY <2>5 DEF Decoded, LooksValid, Genuine
  <2>6. CASE Undecodable
    BY <2>6 DEF Undecodable, Resync, Genuine
  <2> QED BY <2>1, <2>2, <2>3, <2>4, <2>5, <2>6 DEF Next
<1> QED BY <1>1, Invariance, PTL DEF Spec, FramesAreNotSwallowed
=============================================================================

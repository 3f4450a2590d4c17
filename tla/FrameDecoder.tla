---------------------------- MODULE FrameDecoder ----------------------------
(***************************************************************************)
(* FrameDecoder of spcedp/wire.py: feed() appends what a read returned to  *)
(* the buffer and takes frames off its front, resynchronising byte by byte *)
(* past what is not a frame.                                               *)
(*                                                                         *)
(* feed() does not await, so its caller sees only the end of a call; the   *)
(* model still takes one step per turn of the loop.  Bytes are counted,    *)
(* not represented: what they say is the claim made at the front of the    *)
(* buffer, chosen when the front gets there.                               *)
(*                                                                         *)
(* A definition Mutant<D>, just before <D>, is <D> with a bug; nothing     *)
(* uses it but the runs that show that a property would notice the bug.    *)
(***************************************************************************)
EXTENDS Integers

CONSTANTS
  HeaderLen,    \* HEADER_LEN
  MaxClaim,     \* the largest frame a length prefix can claim
  MaxPlausible, \* MAX_PLAUSIBLE_FRAME
  ResyncLimit,  \* RESYNC_LIMIT
  MaxRead       \* the most bytes _read_chunk asks for at once

ASSUME HeaderAssumption == HeaderLen \in Nat \ {0, 1}
ASSUME PlausibleAssumption ==
  /\ MaxPlausible \in Nat /\ MaxClaim \in Nat
  /\ HeaderLen <= MaxPlausible /\ MaxPlausible <= MaxClaim
ASSUME LimitAssumption == ResyncLimit \in Nat
ASSUME ReadAssumption == MaxRead \in Nat \ {0}

VARIABLES
  len,      \* len(self._buf)
  head,     \* what the bytes at the front of the buffer claim
  dropped,  \* self._dropped
  wait,     \* self._wait_total (0 for None) and self._wait_start_len
  out,      \* number of frames decoded by this call of feed
  phase,    \* between calls, in the loop of one, or after one has raised
  base      \* history: len(self._buf) when the present head got to the front

vars == <<len, head, dropped, wait, out, phase, base>>

(***************************************************************************)
(* The claims that can follow one of the given magic one byte further on:  *)
(* the protocol byte and the version differ, so two heads in a row are not *)
(* both magic.  "fate" is what Frame.decode makes of the whole frame: a    *)
(* Frame, FrameDecodeError (dlen, padding or checksum), or                 *)
(* EncryptionRequired.                                                     *)
(***************************************************************************)
Fates == {"good", "corrupt", "encrypted"}
Claims == [magic : BOOLEAN, total : 2..MaxClaim, fate : Fates]
NextByte(h) == {c \in Claims : ~(h.magic /\ c.magic)}

NoWait == [total |-> 0, start |-> 0]

Init ==
  /\ len = 0
  /\ head \in Claims
  /\ dropped = 0
  /\ wait = NoWait
  /\ out = 0
  /\ phase = "idle"
  /\ base = 0

(***************************************************************************)
(* The tests of one turn of the loop.                                      *)
(***************************************************************************)
HasHeader == len >= HeaderLen

LooksValid == head.magic /\ head.total \in HeaderLen..MaxPlausible

MutantWhole == len + 2 >= head.total
Whole == len >= head.total

MutantAnchor == [total |-> head.total, start |-> len]
MutantAnchorUnset == [total |-> head.total, start |-> wait.start]
Anchor == IF wait.total = head.total
            THEN wait
            ELSE [total |-> head.total, start |-> len]

Overdue == len - Anchor.start > ResyncLimit

(***************************************************************************)
(* _resync, which every caller has preceded by _reset_wait: one byte is    *)
(* dropped, and too many in a row end the session.                         *)
(***************************************************************************)
Resync ==
  /\ len' = len - 1
  /\ base' = len'
  /\ head' \in NextByte(head)
  /\ dropped' = dropped + 1
  /\ wait' = NoWait
  /\ phase' = IF dropped' > ResyncLimit THEN "failed" ELSE "looping"
  /\ UNCHANGED out

(***************************************************************************)
(* feed() is called with what a read returned.                             *)
(***************************************************************************)
Feed ==
  /\ phase = "idle"
  /\ \E k \in 1..MaxRead : len' = len + k
  /\ out' = 0
  /\ phase' = "looping"
  /\ UNCHANGED <<head, dropped, wait, base>>

(***************************************************************************)
(* Less than a header: feed returns what it has.                           *)
(***************************************************************************)
TooShort ==
  /\ phase = "looping"
  /\ ~HasHeader
  /\ phase' = "idle"
  /\ UNCHANGED <<len, head, dropped, wait, out, base>>

Implausible ==
  /\ phase = "looping"
  /\ HasHeader /\ ~LooksValid
  /\ Resync

(***************************************************************************)
(* The claimed frame is not complete: feed returns, to be called with more *)
(* bytes, unless it has waited for too many already.                       *)
(***************************************************************************)
AwaitRest ==
  /\ phase = "looping"
  /\ HasHeader /\ LooksValid /\ ~Whole
  /\ ~Overdue
  /\ wait' = Anchor
  /\ phase' = "idle"
  /\ UNCHANGED <<len, head, dropped, out, base>>

GiveUpWaiting ==
  /\ phase = "looping"
  /\ HasHeader /\ LooksValid /\ ~Whole
  /\ Overdue
  /\ Resync

(***************************************************************************)
(* The claimed frame is complete and is decoded.                           *)
(***************************************************************************)
Decoded ==
  /\ phase = "looping"
  /\ HasHeader /\ LooksValid /\ Whole
  /\ head.fate = "good"
  /\ len' = len - head.total
  /\ base' = len'
  /\ head' \in Claims
  /\ dropped' = 0
  /\ wait' = NoWait
  /\ out' = out + 1
  /\ UNCHANGED phase

Undecodable ==
  /\ phase = "looping"
  /\ HasHeader /\ LooksValid /\ Whole
  /\ head.fate = "corrupt"
  /\ Resync

(***************************************************************************)
(* An encrypted frame and no key: EncryptionRequired goes to the session.  *)
(***************************************************************************)
Encrypted ==
  /\ phase = "looping"
  /\ HasHeader /\ LooksValid /\ Whole
  /\ head.fate = "encrypted"
  /\ wait' = NoWait
  /\ phase' = "failed"
  /\ UNCHANGED <<len, head, dropped, out, base>>

Next ==
  \/ Feed
  \/ TooShort
  \/ Implausible
  \/ AwaitRest
  \/ GiveUpWaiting
  \/ Decoded
  \/ Undecodable
  \/ Encrypted

Spec == Init /\ [][Next]_vars

(***************************************************************************)
(* A genuine frame at the front, of a size that feed always waits for: the *)
(* wait begins with a header at least, and ResyncLimit bytes more are let  *)
(* in before it ends.                                                      *)
(***************************************************************************)
Genuine == head.magic /\ head.fate = "good"
Small == head.total \in HeaderLen..MaxPlausible /\ head.total <= HeaderLen + ResyncLimit + 1

-----------------------------------------------------------------------------
(***************************************************************************)
(* Every variable is in its range; in particular feed never deletes more   *)
(* than the buffer has, and the resync budget is overdrawn by one at most. *)
(***************************************************************************)
TypeOK ==
  /\ len \in Nat
  /\ head \in Claims
  /\ dropped \in 0..ResyncLimit + 1
  /\ wait \in [total : 0..MaxPlausible, start : Nat]
  /\ out \in Nat
  /\ phase \in {"idle", "looping", "failed"}
  /\ base \in 0..len

(***************************************************************************)
(* A phantom length prefix does not wedge the stream: whatever the bytes   *)
(* claim and however they are cut into reads, between two calls the head   *)
(* has not been looked at for more than the resync limit of bytes beyond   *)
(* the read that completed its header, and the buffer is smaller than the  *)
(* largest plausible frame.                                                *)
(***************************************************************************)
NoWedge ==
  phase = "idle" =>
    /\ len - base < HeaderLen + MaxRead + ResyncLimit
    /\ len < MaxPlausible

(***************************************************************************)
(* Resynchronising swallows no frame: bytes leave the buffer as one whole  *)
(* genuine frame, or one at a time; a single byte dropped never begins a   *)
(* genuine small frame, no matter what was dropped or waited for before.   *)
(***************************************************************************)
FramesAreNotSwallowed ==
  [][len' < len =>
       \/ Genuine /\ len' = len - head.total /\ out' = out + 1
       \/ len' = len - 1 /\ ~(Genuine /\ Small)]_vars

(***************************************************************************)
(* What MAX_PLAUSIBLE_FRAME is said to be: the largest frame that feed     *)
(* waits for.  Then no genuine frame of at most that size is dropped.      *)
(***************************************************************************)
PlausibleFramesAreAwaited ==
  [][dropped' > dropped => ~(Genuine /\ head.total \in HeaderLen..MaxPlausible)]_vars
=============================================================================

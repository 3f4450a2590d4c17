------------------------------- MODULE SiaEvent -------------------------------
(***************************************************************************)
(* SiaEvent.parse (spcedp/events.py): an event payload to its fields.      *)
(*                                                                         *)
(* A payload is a sequence of bytes.  Open stands for "E2[#<panel>|" with  *)
(* its fixed text, GoodTime and BadTime for a timestamp of 14 digits that  *)
(* is a date or is not, with the bar after it; the rest is byte by byte,   *)
(* since bars and bytes beyond ASCII are what parsing can get wrong.       *)
(***************************************************************************)
EXTENDS Integers, Sequences, SequencesExt

Open == 1
GoodTime == 2
BadTime == 3
Blank == 32
Close == 93          \* "]"
Bar == 124           \* "|"
BrokenBar == 166     \* 0xA6, Latin-1 for the broken bar, and its code point
Replacement == 65533 \* U+FFFD

\* The broken bar as UTF-8.
Normalised(bytes) ==
  FlattenSeq([i \in DOMAIN bytes |-> IF bytes[i] = BrokenBar THEN <<194, 166>> ELSE <<bytes[i]>>])

\* Bytes of a character of two: the first, and what may follow it.
Leads(byte) == byte \in 194 .. 223
Follows(byte) == byte \in 128 .. 191

\* The characters that are read at a byte: one, or none if it ends the one before.
CharsAt(bytes, i) ==
  IF bytes[i] < 128 THEN <<bytes[i]>>
  ELSE IF Leads(bytes[i]) /\ i < Len(bytes) /\ Follows(bytes[i + 1])
       THEN <<64 * (bytes[i] - 192) + bytes[i + 1] - 128>>
  ELSE IF Follows(bytes[i]) /\ i > 1 /\ Leads(bytes[i - 1]) THEN <<>>
  ELSE <<Replacement>>

\* bytes.decode("utf-8", "replace"), for characters of one and two bytes.
Utf8(bytes) == FlattenSeq([i \in DOMAIN bytes |-> CharsAt(bytes, i)])

\* str.strip().
Stripped(text) ==
  LET kept == {i \in DOMAIN text : text[i] # Blank} IN
    IF kept = {} THEN <<>> ELSE SubSeq(text, Min(kept), Max(kept))

\* The envelope that _ENVELOPE matches.
Matches(text) ==
  Len(text) >= 3 /\ text[1] = Open /\ text[2] \in {GoodTime, BadTime} /\ Last(text) = Close

\* Where text has bars.
Bars(text) == {i \in DOMAIN text : text[i] = Bar}

MutantFields(rest, time) ==
  LET bars == Bars(rest)
      first == Min(bars)
      second == Min(bars \ {first})
      third == Min(bars \ {first, second})
      fourth == Min(bars \ {first, second, third})
  IN [kind |-> "event", raw |-> time, timestamp |-> time = GoodTime,
      code |-> SubSeq(rest, 1, first - 1), address |-> SubSeq(rest, first + 1, second - 1),
      description |-> SubSeq(rest, second + 1, third - 1),
      extra |-> SubSeq(rest, third + 1, fourth - 1),
      verification |-> SubSeq(rest, fourth + 1, Len(rest))]

\* Two fields split off the left, two off the right, the description between.
Fields(rest, time) ==
  LET bars == Bars(rest)
      first == Min(bars)
      second == Min(bars \ {first})
      last == Max(bars)
      before == Max(bars \ {last})
  IN [kind |-> "event", raw |-> time, timestamp |-> time = GoodTime,
      code |-> SubSeq(rest, 1, first - 1), address |-> SubSeq(rest, first + 1, second - 1),
      description |-> SubSeq(rest, second + 1, before - 1),
      extra |-> SubSeq(rest, before + 1, last - 1),
      verification |-> SubSeq(rest, last + 1, Len(rest))]

\* The ValueError of parse, which _dispatch logs and ignores.
NotAnEvent == [kind |-> "rejected"]

Parse(bytes) ==
  LET text == Stripped(Utf8(Normalised(bytes)))
      rest == SubSeq(text, 3, Len(text) - 1)
  IN IF Matches(text) /\ Cardinality(Bars(rest)) >= 4 THEN Fields(rest, text[2]) ELSE NotAnEvent

=============================================================================

------------------------------- MODULE XmlReply -------------------------------
(***************************************************************************)
(* ReplyAssembler and parse_reply of spcedp/xmlcmd.py: the fragments of an *)
(* XML reply to its rows.                                                  *)
(*                                                                         *)
(* A reply is a sequence of bytes, of which some stand for a whole tag.    *)
(* Only the closing tag </COMMAND_REPLY> takes two, CloseHead and          *)
(* CloseTail, as a fragment may end inside it.                             *)
(***************************************************************************)
EXTENDS Integers, Sequences, SequencesExt

CONSTANT MaxReply   \* MAX_REPLY_BYTES

Root == 1           \* <COMMAND_REPLY>
Section == 2        \* <AREA_STATUS>
EndSection == 3     \* </AREA_STATUS>
Leaf == 4           \* <INFO .../>, a section with attributes and no rows
CloseHead == 5
CloseTail == 6
Row == 64 .. 127    \* <AREA .../>, told apart by their attributes
Marker == {1, 2}    \* FRAG_FIRST and FRAG_CONT

\* The fragment marker is dropped.
Grown(buf, payload) == buf \o Tail(payload)

Tagged(xml) == \E i \in 1 .. Len(xml) - 1 : xml[i] = CloseHead /\ xml[i + 1] = CloseTail

MutantClosed(buf, payload) == Tagged(Tail(payload))
Closed(buf, payload) == Tagged(Grown(buf, payload))

MutantTooLong(buf, payload) == Len(payload) - 1 > MaxReply
TooLong(buf, payload) == Len(Grown(buf, payload)) > MaxReply

\* ReplyAssembler.feed: None ("more"), the reply ("close"), or ValueError.
Feed(buf, payload) ==
  CASE payload = <<>> -> "more"
    [] payload # <<>> /\ TooLong(buf, payload) -> "tooLong"
    [] payload # <<>> /\ ~TooLong(buf, payload) /\ Closed(buf, payload) -> "close"
    [] OTHER -> "more"

-----------------------------------------------------------------------------
NotAReply == [kind |-> "rejected"]

\* Position i of body is within a section that has been opened and not closed.
Inside(body, i) ==
  \E j \in 1 .. i - 1 : body[j] = Section /\ \A k \in j + 1 .. i - 1 : body[k] # EndSection

\* One root element, closed once and at the end, with sections of rows in it.
WellFormedBody(body) ==
  /\ \A i \in DOMAIN body :
       IF Inside(body, i) THEN body[i] \in Row \cup {EndSection} ELSE body[i] \in {Section, Leaf}
  /\ body # <<>> => Last(body) \in {EndSection, Leaf}

BodyOf(xml) == SubSeq(xml, 2, Len(xml) - 2)

WellFormed(xml) ==
  /\ Len(xml) >= 3 /\ xml[1] = Root
  /\ xml[Len(xml) - 1] = CloseHead /\ xml[Len(xml)] = CloseTail
  /\ WellFormedBody(BodyOf(xml))

\* Where the section that is opened at i is closed.
EndOf(body, i) == Min({j \in DOMAIN body : j > i /\ body[j] = EndSection})

\* The section that begins at i, if any: its rows, or its own attributes if it has
\* none.  An empty section and a leaf are both a single row then.
SectionAt(body, i) ==
  IF body[i] = Leaf THEN <<<<Leaf>>>>
  ELSE IF body[i] # Section THEN <<>>
  ELSE IF body[i + 1] = EndSection THEN <<<<Section>>>>
  ELSE <<SubSeq(body, i + 1, EndOf(body, i) - 1)>>

Sections(body) == FlattenSeq([i \in DOMAIN body |-> SectionAt(body, i)])

ParseReply(xml) ==
  IF WellFormed(xml) THEN [kind |-> "reply", sections |-> Sections(BodyOf(xml))] ELSE NotAReply

=============================================================================

----------------------------- MODULE PanelMessages -----------------------------
(***************************************************************************)
(* What the panel says and what the program reads, end to end: an event or *)
(* an XML reply is put into payloads, each is sent as a frame, encrypted   *)
(* or not, a byte of which the line may change; the receiver decodes the   *)
(* frame (Frame.decode), and parses the payload as an event (_dispatch) or *)
(* assembles and parses the reply (xml_command).                           *)
(*                                                                         *)
(* One message per behaviour.  The frame arrives whole; FrameDecoder has   *)
(* what happens to it when it does not.                                    *)
(*                                                                         *)
(* A definition Mutant<D>, just before <D>, in a module of the message     *)
(* formats is <D> with a bug; nothing uses it but the runs that show that  *)
(* a property would notice the bug.                                        *)
(***************************************************************************)
EXTENDS FrameCodec, SiaEvent, XmlReply

CONSTANTS
  Characters,  \* what descriptions are made of
  MaxText,     \* bound of the model: characters of a description
  Fillers,     \* bound of the model: lengths of plain text before them
  Replies,     \* the replies that the panel gives
  MaxFragments,  \* MAX_XML_FRAGMENTS
  Noises,      \* what the line may add to a byte, modulo 256
  Key          \* the receiver's key, a number from 1 to 255

ASSUME MessagesAssumption ==
  /\ Characters \subseteq {char \in Nat : char < 2048}
  /\ MaxText \in Nat /\ Fillers \subseteq Nat
  /\ Replies \subseteq Seq(Seq(Row) \cup {<<Leaf>>})
  /\ MaxReply \in Nat /\ MaxFragments \in Nat \ {0}
  /\ Noises \subseteq 1 .. 255
  /\ Key \in 1 .. 255

VARIABLES
  said,      \* the message
  rest,      \* what the panel has yet to send of it, as bytes
  sendKey, recvKey,   \* the keys of the panel and of the receiver, or NoKey
  line,      \* the frame on its way, <<>> if none
  damaged,   \* the byte of a frame that the line has changed, 0 if none
  buf,       \* ReplyAssembler._buf
  passes,    \* passes of xml_command's loop that are over: the fragments it was fed
  got,       \* what was read: nothing yet, a message, or why not
  cuts       \* history: the fragments of a reply that the panel has sent

vars == <<said, rest, sendKey, recvKey, line, damaged, buf, passes, got, cuts>>

(***************************************************************************)
(* Events.  A character is its code point; the panel sends a broken bar as *)
(* one Latin-1 byte and others as UTF-8.                                   *)
(***************************************************************************)
Sent(char) ==
  CASE char = BrokenBar -> <<char>>
    [] char < 128 -> <<char>>
    [] OTHER -> <<192 + (char \div 64), 128 + (char % 64)>>

Texts == UNION {[1 .. n -> Characters] : n \in 0 .. MaxText}
Plain(n) == [i \in 1 .. n |-> 97]
Descriptions == UNION {{Plain(n) \o text : text \in Texts} : n \in Fillers}

Events ==
  [kind : {"event"}, raw : {GoodTime, BadTime}, code : {<<66, 65>>}, address : {<<55>>},
   description : Descriptions, extra : {<<>>, <<120>>}, verification : {<<48>>}]

FieldsText(e) ==
  e.code \o <<Bar>> \o e.address \o <<Bar>> \o e.description
    \o <<Bar>> \o e.extra \o <<Bar>> \o e.verification

EventText(e) == <<Open, e.raw>> \o FieldsText(e) \o <<Close>>

EventBytes(e) ==
  LET text == EventText(e) IN FlattenSeq([i \in DOMAIN text |-> Sent(text[i])])

(***************************************************************************)
(* Replies.  A section is a leaf, or a sequence of rows.                   *)
(***************************************************************************)
Opened(section) ==
  IF section = <<Leaf>> THEN section ELSE <<Section>> \o section \o <<EndSection>>

ReplyBytes(sections) ==
  <<Root>> \o FlattenSeq([i \in DOMAIN sections |-> Opened(sections[i])])
    \o <<CloseHead, CloseTail>>

Messages == Events \cup [kind : {"reply"}, sections : Replies]
Bytes(m) == IF m.kind = "event" THEN EventBytes(m) ELSE ReplyBytes(m.sections)

(***************************************************************************)
(* What the reader should make of a message; an empty section is read as a *)
(* single row without attributes.                                          *)
(***************************************************************************)
Meaning(m) ==
  IF m.kind = "event"
  THEN [kind |-> "event", raw |-> m.raw, timestamp |-> m.raw = GoodTime, code |-> m.code,
        address |-> m.address, description |-> m.description, extra |-> m.extra,
        verification |-> m.verification]
  ELSE [kind |-> "reply",
        sections |-> [i \in DOMAIN m.sections |->
                        IF m.sections[i] = <<>> THEN <<Section>> ELSE m.sections[i]]]

Nothing == [kind |-> "nothing"]

Init ==
  /\ said \in Messages
  /\ rest = Bytes(said)
  /\ sendKey \in {NoKey, Key} /\ recvKey \in {NoKey, Key}
  /\ line = <<>>
  /\ damaged = 0
  /\ buf = <<>>
  /\ passes = 0
  /\ got = Nothing
  /\ cuts = 0

-----------------------------------------------------------------------------
Event == <<2, 0>>
Reply == <<10, 1>>
Poll == <<1, 0>>

\* A frame from the panel; codes are its major and minor code.
FrameOf(codes, payload) ==
  [flag |-> 0, seq |-> 50462977, src |-> 1000, dst |-> 1,
   major |-> codes[1], minor |-> codes[2], payload |-> payload]

\* A fragment of the message: an event in one, of a reply as much as the panel likes,
\* after a marker, or nothing.
Fragment(k) ==
  IF said.kind = "event" THEN FrameOf(Event, rest)
  ELSE FrameOf(Reply, IF k = 0 THEN <<>>
                      ELSE <<IF rest = Bytes(said) THEN 1 ELSE 2>> \o SubSeq(rest, 1, k))

Send ==
  /\ got = Nothing /\ line = <<>> /\ rest # <<>>
  /\ \E k \in IF said.kind = "event" THEN {Len(rest)} ELSE 0 .. Len(rest) :
       /\ Encodable(Fragment(k), sendKey)
       /\ line' = Encode(Fragment(k), sendKey)
       /\ rest' = SubSeq(rest, k + 1, Len(rest))
  /\ cuts' = IF said.kind = "event" THEN cuts ELSE cuts + 1
  /\ UNCHANGED <<said, sendKey, recvKey, damaged, buf, passes, got>>

\* The panel polls, between the fragments too.
SendPoll ==
  /\ got = Nothing /\ line = <<>>
  /\ line' = Encode(FrameOf(Poll, <<>>), sendKey)
  /\ UNCHANGED <<said, rest, sendKey, recvKey, damaged, buf, passes, got, cuts>>

\* The line changes a byte of a frame in the clear.
Damage(i, noise) ==
  /\ i \in DOMAIN line
  /\ sendKey = NoKey /\ damaged = 0
  /\ line' = [line EXCEPT ![i] = (@ + noise) % 256]
  /\ damaged' = i
  /\ UNCHANGED <<said, rest, sendKey, recvKey, buf, passes, got, cuts>>

\* The frame cannot be decoded: the stream resynchronises or the session ends.
Refuse(fate) ==
  /\ fate # "decoded"
  /\ got' = [kind |-> "lost", fate |-> fate]
  /\ UNCHANGED <<buf, passes>>

\* _dispatch with an event.
ReadEvent(fate) ==
  /\ fate = "decoded"
  /\ LET frame == Decode(line, recvKey) IN
       /\ <<frame.major, frame.minor>> = Event
       /\ got' = Parse(frame.payload)
  /\ UNCHANGED <<buf, passes>>

\* The reply did not close within MAX_XML_FRAGMENTS fragments: SpcProtocolError.
Unclosed == [kind |-> "unclosed"]

MutantLastPass == passes = MaxFragments

\* range(MAX_XML_FRAGMENTS) has no pass after this one.
LastPass == passes + 1 = MaxFragments

\* _dispatch with a reply, and the pass of xml_command that awaits it: the next pass
\* asks for more, as long as there is one.
ReadReply(fate) ==
  /\ fate = "decoded"
  /\ LET frame == Decode(line, recvKey)
         payload == frame.payload
         verdict == Feed(buf, payload)
     IN /\ <<frame.major, frame.minor>> = Reply
        /\ buf' = CASE verdict # "more" -> <<>>
                    [] verdict = "more" /\ payload = <<>> -> buf
                    [] OTHER -> Grown(buf, payload)
        /\ passes' = passes + 1
        /\ got' = CASE verdict = "more" -> IF LastPass THEN Unclosed ELSE Nothing
                    [] verdict = "close" -> ParseReply(Grown(buf, payload))
                    [] OTHER -> NotAReply

\* A frame of another kind, which is neither parsed nor assembled.
ReadOther(fate) ==
  /\ fate = "decoded"
  /\ LET frame == Decode(line, recvKey) IN
       <<frame.major, frame.minor>> \notin {Event, Reply}
  /\ UNCHANGED <<buf, passes, got>>

Receive ==
  /\ line # <<>>
  /\ line' = <<>>
  /\ \E fate \in {Fate(line, recvKey)} :
       Refuse(fate) \/ ReadEvent(fate) \/ ReadReply(fate) \/ ReadOther(fate)
  /\ UNCHANGED <<said, rest, sendKey, recvKey, damaged, cuts>>

Next == Send \/ SendPoll \/ (\E i \in DOMAIN line, n \in Noises : Damage(i, n)) \/ Receive

Spec == Init /\ [][Next]_vars

-----------------------------------------------------------------------------
(***************************************************************************)
(* The type of the state; what is kept of a reply that is not closed is    *)
(* bounded.                                                                *)
(***************************************************************************)
TypeOK ==
  /\ said \in Messages
  /\ rest \in Seq(Byte) /\ line \in Seq(Byte) /\ buf \in Seq(Byte)
  /\ sendKey \in {NoKey, Key} /\ recvKey \in {NoKey, Key}
  /\ damaged \in Nat /\ passes \in Nat /\ cuts \in Nat
  /\ Len(buf) <= MaxReply
  /\ got.kind \in {"nothing", "event", "reply", "rejected", "unclosed", "lost"}

\* The receiver can read frames of this panel, and the line left them alone.
Readable == damaged = 0 /\ (sendKey = NoKey \/ recvKey = Key)

\* All was sent, or the receiver has made up its mind before.
Over == line = <<>> /\ (rest = <<>> \/ got # Nothing)

\* The bytes that the checksum does not vouch for: dlen, which says what it covers,
\* and the flags if a receiver with a key may take the frame for an encrypted one.
\* When they change the checksum may be right by chance.
Unvouched == {22, 23} \cup IF recvKey = NoKey THEN {} ELSE {5}

(***************************************************************************)
(* One changed byte of a frame in the clear is noticed, wherever else it   *)
(* is: "garbage that merely carries valid magic does not decode".          *)
(***************************************************************************)
DamageIsNoticed ==
  damaged # 0 /\ damaged \notin Unvouched /\ line = <<>> => got.kind = "lost"

\* The characters that do not have the byte 0xA6 in them, and the broken bar.
Legible ==
  {char \in Nat : char < 2048 /\ (char < 128 \/ char % 64 # 38 \/ char = BrokenBar)}

(***************************************************************************)
(* An event is read with the fields it was sent with, through padding and  *)
(* encryption, whatever separators its description has, and with a time    *)
(* that is no date.                                                        *)
(***************************************************************************)
EventsAreRead ==
  said.kind = "event" /\ said.description \in Seq(Legible) /\ Readable /\ Over =>
    got = Meaning(said)

\* What should become of a reply of which this much was sent.
Outcome ==
  LET spoken == Len(Bytes(said)) - Len(rest) IN
  IF spoken > MaxReply THEN NotAReply
  ELSE IF rest = <<>> THEN Meaning(said)
  ELSE Unclosed

(***************************************************************************)
(* A reply of up to MaxReply bytes that comes in up to MaxFragments        *)
(* fragments is read as a whole wherever it is cut, in its closing tag or  *)
(* elsewhere, and with fragments that bring nothing.  The command gives up *)
(* for no other reason than a byte too many or a reply that is not         *)
(* complete with the last of the fragments, and then it does: it does not  *)
(* wait for more of them.                                                  *)
(***************************************************************************)
RepliesAreRead ==
  said.kind = "reply" /\ Readable /\ Over =>
    got = Outcome /\ cuts <= MaxFragments /\ (got = Unclosed => cuts = MaxFragments)

(***************************************************************************)
(* "so callers never receive U+FFFD glyphs" (events.py:50): a description  *)
(* of UTF-8 text and 0xA6 separators is read without one.                  *)
(***************************************************************************)
NoReplacementGlyphs ==
  got.kind = "event" => \A i \in DOMAIN got.description : got.description[i] # Replacement

=============================================================================

------------------------------ MODULE FrameCodec ------------------------------
(***************************************************************************)
(* Frame.encode, Frame.decode and edp_checksum of spcedp/wire.py, over     *)
(* bytes 0 .. 255.  A frame is sent as a length prefix and a struct: 15    *)
(* bytes that stay clear, then codes, checksum, dlen and payload.          *)
(*                                                                         *)
(* Bit operations are written with division and remainder, and the loop of *)
(* the checksum as a function of the number of bytes so far, so that both  *)
(* can be reasoned about.                                                  *)
(***************************************************************************)
EXTENDS Integers, Sequences, SequencesExt

CONSTANTS Protocol, Version   \* PROTOCOL_BYTE, PROTOCOL_VERSION

Byte == 0 .. 255

ASSUME ProtocolAssumption == Protocol \in Byte /\ Version \in Byte

HeaderLen == 23       \* HEADER_LEN, the length prefix included
ClearLen == 15        \* struct bytes that are never encrypted
BlockSize == 16       \* AES_BLOCK_SIZE
MaxFrameLen == 65535  \* MAX_FRAME_LEN

NoKey == 0            \* a key is a number from 1 to 255

\* n in 2 or 4 bytes, least significant first, and back.
Bytes2(n) == <<n % 256, (n \div 256) % 256>>
Bytes4(n) == Bytes2(n) \o Bytes2(n \div 65536)
Word(buf, i) == buf[i] + 256 * buf[i + 1]
Number(buf, i) == Word(buf, i) + 65536 * Word(buf, i + 2)

\* FLAG_ENCRYPTED is the lowest bit of the flags.
IsMarked(flags) == flags % 2 = 1
Unmarked(flags) == flags - (flags % 2)
Marked(flags) == Unmarked(flags) + 1

-----------------------------------------------------------------------------
\* n with a bit flipped, and with those of the polynomial 0xA097.
Flip(n, bit) == IF (n \div bit) % 2 = 1 THEN n - bit ELSE n + bit
Poly(n) ==
  Flip(Flip(Flip(Flip(Flip(Flip(Flip(n, 32768), 8192), 128), 16), 4), 2), 1)

\* One byte enters the register: shifted left, the byte added to its low half
\* without a carry, and the polynomial if a bit was shifted out.
Shift(state, byte) ==
  LET shifted == (2 * state) % 65536
      added == 256 * (shifted \div 256) + ((shifted + byte) % 256)
  IN IF state >= 32768 THEN Poly(added) ELSE added

MutantCovered(struct, dlen) == SubSeq(struct, 1, 17) \o SubSeq(struct, 20, dlen + 20)

\* The checksum is over header and payload without its own slot, nor padding.
Covered(struct, dlen) == SubSeq(struct, 1, 17) \o SubSeq(struct, 20, dlen + 21)

\* The register after all of the bytes.
Register(bytes) ==
  LET after[i \in 0 .. Len(bytes)] == IF i = 0 THEN 65535 ELSE Shift(after[i - 1], bytes[i])
  IN after[Len(bytes)]

EdpChecksum(struct, dlen) == Register(Covered(struct, dlen))

-----------------------------------------------------------------------------
(***************************************************************************)
(* AES-128-ECB (external) is some permutation of blocks that depends on    *)
(* the key and has an inverse; that is all a round trip depends on.        *)
(***************************************************************************)
Cipher(bytes, key) == [i \in DOMAIN bytes |-> (bytes[i] + key) % 256]
Decipher(bytes, key) == [i \in DOMAIN bytes |-> (bytes[i] - key) % 256]

Zeros(n) == [i \in 1 .. n |-> 0]

Padded(tail) == tail \o Zeros((-Len(tail)) % BlockSize)

\* _encrypt_payload.
Encrypt(struct, key) ==
  SubSeq(struct, 1, ClearLen)
    \o Cipher(Padded(SubSeq(struct, ClearLen + 1, Len(struct))), key)

-----------------------------------------------------------------------------
\* A frame's struct with a checksum in its slot.
Struct(f, flag, checksum) ==
  <<Protocol, Version, flag>> \o Bytes4(f.seq) \o Bytes4(f.src) \o Bytes4(f.dst)
    \o <<f.major, f.minor>> \o Bytes2(checksum) \o Bytes2(Len(f.payload)) \o f.payload

\* The struct as it is sent.  The checksum is that of the clear struct, with the
\* encrypted flag set already.
Body(f, key) ==
  LET flag == IF key = NoKey THEN f.flag ELSE Marked(f.flag)
      checksum == EdpChecksum(Struct(f, flag, 0), Len(f.payload))
      clear == Struct(f, flag, checksum)
  IN IF key = NoKey THEN clear ELSE Encrypt(clear, key)

\* encode does not raise ValueError.
Encodable(f, key) == Len(Body(f, key)) <= MaxFrameLen

Encode(f, key) == Bytes2(Len(Body(f, key))) \o Body(f, key)

-----------------------------------------------------------------------------
Total(buf) == Word(buf, 1) + 2
IsEncrypted(buf) == IsMarked(buf[5])
Tail17(buf) == SubSeq(buf, ClearLen + 3, Total(buf))

\* The frame at the front of buf with its end in the clear.
Clear(buf, key) ==
  IF IsEncrypted(buf) THEN SubSeq(buf, 1, ClearLen + 2) \o Decipher(Tail17(buf), key) ELSE buf

Dlen(clear) == Word(clear, 22)

\* What decode finds wrong first, if anything.
Fate(buf, key) ==
  LET clear == Clear(buf, key) IN
    IF Len(buf) < HeaderLen THEN "short"
    ELSE IF Len(buf) < Total(buf) THEN "truncated"
    ELSE IF buf[3] # Protocol \/ buf[4] # Version THEN "magic"
    ELSE IF IsEncrypted(buf) /\ key = NoKey THEN "noKey"
    ELSE IF IsEncrypted(buf) /\ Len(Tail17(buf)) % BlockSize # 0 THEN "block"
    ELSE IF HeaderLen + Dlen(clear) > Total(buf) THEN "overflow"
    ELSE IF EdpChecksum(Tail(Tail(clear)), Dlen(clear)) # Word(clear, 20) THEN "checksum"
    ELSE "decoded"

\* The frame that decode returns.
Decode(buf, key) ==
  LET clear == Clear(buf, key) IN
    [flag |-> Unmarked(clear[5]), seq |-> Number(clear, 6),
     src |-> Number(clear, 10), dst |-> Number(clear, 14),
     major |-> clear[18], minor |-> clear[19],
     payload |-> SubSeq(clear, HeaderLen + 1, HeaderLen + Dlen(clear))]

=============================================================================

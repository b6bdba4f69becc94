------------------------------- MODULE Codec -------------------------------
(***************************************************************************)
(* The userspace packet codec of src/userspace.rs: how a WireGuard         *)
(* datagram is masked, padded and given a header (obfs_encap), recognised  *)
(* by the receiver (obfs_verify) and turned back (obfs_decap), and how the *)
(* result is wrapped as syslog, SIP or RTP and unwrapped again.            *)
(*                                                                         *)
(* A WireGuard datagram is its type, its length, the identity of its bytes *)
(* and the set of masks lying on it.  A mask is the offset of 16 bytes and *)
(* the keystream they are XORed with, so that XOR is symmetric difference  *)
(* and a datagram is readable where no mask is left.  Lengths, header      *)
(* sizes and the padding byte are the code's own numbers.                  *)
(*                                                                         *)
(* The 32-bit words of a ChaCha block are named by the block and their     *)
(* index.  Words of different names differ: that two of them collide, a    *)
(* chance of 2^-32 a packet, is left out.                                  *)
(***************************************************************************)
EXTENDS Naturals, FiniteSetsExt

CONSTANTS
  Draws,    \* values of the byte that decides the padding
  Domain    \* length of the configured domain or service name

ASSUME DrawsAssumption == Draws \subseteq Nat
ASSUME DomainAssumption == Domain \in Nat

Modes == {"quic", "gut", "syslog", "sip"}

\* GUT_HEADER_SIZE, GUT_QUIC_SHORT_HEADER_SIZE, GUT_QUIC_LONG_HEADER_SIZE
GutHdr == 10
ShortHdr == 16
LongHdr == 1200

Datagram(type, len, id) == [type |-> type, len |-> len, id |-> id, masks |-> {}]

\* What a receiver may not use: the code's None.
NoDatagram == Datagram(0, 0, "none")

-----------------------------------------------------------------------------
(* Keystream and masking                                                   *)

\* The nonce is the XOR of the four words at offsets 16..32: it depends on the
\* bytes there and on the masks that overlap them, and is 0 for less than 32
\* bytes.
wg_nonce32(w) ==
  IF w.len < 32 THEN <<"zero", {}>>
  ELSE <<w.id, {m \in w.masks : m[1] < 32 /\ m[1] + 16 > 16}>>

\* The ChaCha block of a key, a counter and a nonce; Word names one word of it.
chacha_block_fast(key, counter, nonce) == <<key, counter, nonce>>

Word(block, i) == <<block, i>>

\* xor16 at an offset with a half of a block: a second time takes it off again.
xor16(w, off, block) == [w EXCEPT !.masks = SymDiff(@, {<<off, block>>})]

\* The type byte lies in the first masked region.  Under a mask it can read as
\* anything; 0 is no WireGuard type.
TypeByte(w) == IF \E m \in w.masks : m[1] = 0 THEN 0 ELSE w.type

\* The second region: the MAC fields of a handshake message, where it is whole.
SecondRegion(type, len) ==
  IF type = 1 /\ len >= 148 THEN {132}
  ELSE IF type = 2 /\ len >= 92 THEN {76}
  ELSE {}

Mask2(w, type, len, block) ==
  [w EXCEPT !.masks = SymDiff(@, {<<o, block>> : o \in SecondRegion(type, len)})]

-----------------------------------------------------------------------------
(* Padding                                                                 *)

\* Variant of the padding that pads large "quic" packets as well.
PadLenAlways(obfs, hdr, len, draw) ==
  IF obfs = "gut"
    THEN IF len < 256 /\ (8 + hdr + len) % 16 # 0
           THEN 16 - ((8 + hdr + len) % 16) ELSE 0
  ELSE IF obfs # "quic" /\ len >= 220 THEN Min({draw % 16, 14}) + 1
  ELSE IF obfs = "quic" THEN (draw % 64) + 1
  ELSE (draw % 32) + 1

\* The ballast of a packet: "gut" rounds small packets up to 16 bytes, "quic"
\* pads small ones by 1..64 bytes, the two text modes by 1..15 or 1..32.  draw
\* is the last byte of ChaCha block 69.
PadLen(obfs, hdr, len, draw) ==
  IF obfs = "gut"
    THEN IF len < 256 /\ (8 + hdr + len) % 16 # 0
           THEN 16 - ((8 + hdr + len) % 16) ELSE 0
  ELSE IF obfs = "quic" /\ len >= 220 THEN 0
  ELSE IF len >= 220 THEN Min({draw % 16, 14}) + 1
  ELSE IF obfs = "quic" THEN (draw % 64) + 1
  ELSE (draw % 32) + 1

\* The last byte of every header: 0x40 | (pad - 1), or 0 for no padding.
PadByte(pad) == IF pad > 0 THEN 64 + ((pad - 1) % 64) ELSE 0

BallastLen(byte) == IF (byte \div 64) % 2 = 1 THEN (byte % 64) + 1 ELSE 0

-----------------------------------------------------------------------------
(* Headers                                                                 *)

\* Bytes of the fake ClientHello in a long header: CRYPTO and handshake
\* headers, the fixed fields, the server name (at most 32 bytes of the domain),
\* ALPN and the version extension.
CryptoFrameTotal(domain) ==
  LET name == Min({domain, 32})
      sni  == IF name > 0 THEN name + 9 ELSE 0
  IN 4 + 4 + 43 + sni + 9 + 7

\* The first byte a receiver sees: the two QUIC forms are set by the code, in a
\* "gut" header it is a byte of the keystream and may look like anything.
write_gut_header(ppn, ports, pad, look) ==
  [hdr |-> GutHdr, look |-> look, dcid |-> <<>>, ppn |-> ppn, ports |-> ports,
   padbyte |-> PadByte(pad)]

write_quic_short_header(dcid, ppn, ports, pad) ==
  [hdr |-> ShortHdr, look |-> "short", dcid |-> dcid, ppn |-> ppn,
   ports |-> ports, padbyte |-> PadByte(pad)]

\* The long header carries the key's fixed connection id (block 99, nonce 0),
\* the packet number in the source id and the ports in the token.  The rest,
\* the sealed ClientHello and the filler, is for onlookers: no receiver reads
\* it.
FixedDcid(key) == Word(chacha_block_fast(key, 99, <<"zero", {}>>), 0)

write_quic_long_header(key, ppn, ports, pad) ==
  [hdr |-> LongHdr, look |-> "long", dcid |-> FixedDcid(key), ppn |-> ppn,
   ports |-> ports, padbyte |-> PadByte(pad)]

HeaderLen(obfs, is_server, type) ==
  IF obfs # "quic" THEN GutHdr
  ELSE IF type = 3 THEN LongHdr
  ELSE IF is_server THEN ShortHdr
  ELSE IF type = 1 THEN LongHdr
  ELSE ShortHdr

-----------------------------------------------------------------------------
(* Encapsulation                                                           *)

NoWire == [len |-> 0, head |-> write_gut_header(<<>>, <<>>, 0, "plain"),
           body |-> NoDatagram]

\* Nothing is sent of less than 16 bytes.  The nonce is that of the plain
\* datagram; block 47 masks it and gives the header its words.
obfs_encap(w, key, obfs, is_server, ports, draw, look) ==
  LET hdr   == HeaderLen(obfs, is_server, TypeByte(w))
      block == chacha_block_fast(key, 47, wg_nonce32(w))
      ppn   == Word(block, 10)
      dcid  == Word(block, 9)
      enc   == <<ports, Word(block, 11)>>
      pad   == PadLen(obfs, hdr, w.len, draw)
  IN IF w.len < 16 THEN NoWire ELSE
     [len  |-> hdr + w.len + pad,
      head |-> IF hdr = GutHdr THEN write_gut_header(ppn, enc, pad, look)
               ELSE IF hdr = ShortHdr
                 THEN write_quic_short_header(dcid, ppn, enc, pad)
               ELSE write_quic_long_header(key, ppn, enc, pad),
      body |-> Mask2(xor16(w, 0, block), TypeByte(w), w.len, block)]

-----------------------------------------------------------------------------
(* Verification and decapsulation                                          *)

\* The header the receiver assumes from the mode and the first byte (and the
\* connection-id length at offset 5), 0 for none.
AssumedHdr(wire, obfs) ==
  IF obfs # "quic" THEN GutHdr
  ELSE IF wire.head.look = "long" THEN LongHdr
  ELSE IF wire.head.look = "short" THEN ShortHdr
  ELSE 0

\* The payload as the receiver cuts it out.
ActualLen(wire) == (wire.len - wire.head.hdr) - BallastLen(wire.head.padbyte)

Payload(wire) == [wire.body EXCEPT !.len = ActualLen(wire)]

\* Variant of obfs_verify that compares the connection id only.
obfs_verify_lax(wire, key, obfs) ==
  LET hdr   == AssumedHdr(wire, obfs)
      block == chacha_block_fast(key, 47, wg_nonce32(Payload(wire)))
  IN /\ wire.len # 0
     /\ hdr = wire.head.hdr
     /\ wire.len >= hdr + 32
     /\ BallastLen(wire.head.padbyte) <= wire.len - hdr
     /\ ActualLen(wire) >= 32
     /\ hdr = ShortHdr => wire.head.dcid = Word(block, 9)
     /\ hdr = LongHdr => wire.head.dcid = FixedDcid(key)

\* A packet is taken for one of ours when it is long enough, its padding leaves
\* 32 bytes, and the words in its header are those of the block its own payload
\* selects.  Read at the offsets of another header the words do not match.
obfs_verify(wire, key, obfs) ==
  LET hdr   == AssumedHdr(wire, obfs)
      block == chacha_block_fast(key, 47, wg_nonce32(Payload(wire)))
  IN /\ wire.len # 0
     /\ hdr = wire.head.hdr
     /\ wire.len >= hdr + 32
     /\ BallastLen(wire.head.padbyte) <= wire.len - hdr
     /\ ActualLen(wire) >= 32
     /\ wire.head.ppn = Word(block, 10)
     /\ hdr = ShortHdr => wire.head.dcid = Word(block, 9)
     /\ hdr = LongHdr => wire.head.dcid = FixedDcid(key)

\* The header obfs_decap assumes: the high bit of the first byte alone makes a
\* long one, as in an RTP header.
DecapHdr(wire, obfs) ==
  IF obfs # "quic" THEN GutHdr
  ELSE IF wire.head.look \in {"long", "rtp"} THEN LongHdr
  ELSE IF wire.head.look = "short" THEN ShortHdr
  ELSE 0

\* Bytes that nobody sent.
Garbled == [w |-> Datagram(0, 0, "garbled"), ports |-> 0]

\* Variant of obfs_decap that takes only the first mask off.
obfs_decap_half(wire, key, obfs) ==
  LET block == chacha_block_fast(key, 47, wg_nonce32(Payload(wire)))
  IN [w |-> xor16(Payload(wire), 0, block), ports |-> wire.head.ports[1]]

\* The masks come off in the order they went on: the type decides on the second
\* and is read after the first.  Cut at the wrong header nothing comes out.
obfs_decap(wire, key, obfs) ==
  LET hdr   == DecapHdr(wire, obfs)
      block == chacha_block_fast(key, 47, wg_nonce32(Payload(wire)))
      plain == xor16(Payload(wire), 0, block)
  IN IF wire.len = 0 \/ hdr = 0 \/ wire.len < hdr + 16
       THEN [w |-> NoDatagram, ports |-> 0]
     ELSE IF hdr # wire.head.hdr THEN Garbled
     ELSE IF BallastLen(wire.head.padbyte) > wire.len - hdr
       THEN [w |-> NoDatagram, ports |-> 0]
     ELSE [w |-> Mask2(plain, TypeByte(plain), ActualLen(wire), block),
           ports |-> IF wire.head.ports[2] = Word(block, 11)
                       THEN wire.head.ports[1] ELSE 0]

-----------------------------------------------------------------------------
(* Wrapping: what the text modes put around a packet                       *)

\* Length of n bytes in Base64.
b64_len(n) == 4 * ((n + 2) \div 3)

SyslogHdrBase == 36
RtpHdr == 12
MaxSipHdr == 1024

\* A datagram on the network: its outer form, the length of that form's header,
\* the SIP method or status it shows, its size, and the packet inside.
Plain(wire) == [wrap |-> "none", hlen |-> 0, kind |-> "none",
                size |-> wire.len, wire |-> wire]

Syslog(wire, domain) ==
  [wrap |-> "syslog", hlen |-> SyslogHdrBase + domain, kind |-> "none",
   size |-> SyslogHdrBase + domain + b64_len(wire.len), wire |-> wire]

\* write_header of proto/sip.rs writes at most MaxSipHdr bytes.
Sip(kind, wire) ==
  [wrap |-> "sip", hlen |-> MaxSipHdr, kind |-> kind,
   size |-> MaxSipHdr + b64_len(wire.len), wire |-> wire]

Rtp(wire) == [wrap |-> "rtp", hlen |-> RtpHdr, kind |-> "none",
              size |-> RtpHdr + wire.len, wire |-> wire]

\* The SIP method or status a signalling packet is sent as; a keepalive of 32
\* bytes becomes OPTIONS.
SipKind(w) ==
  CASE w.type = 1 -> "REGISTER"
    [] w.type = 2 -> "200"
    [] w.type = 3 -> "401"
    [] w.type = 4 /\ w.len = 32 -> "OPTIONS"
    [] OTHER -> "MESSAGE"

\* Data packets longer than a keepalive travel as RTP, the rest as signalling;
\* OPTIONS carries no payload.
IsRtp(w) == w.type = 4 /\ w.len > 32

Wrap(obfs, w, wire, domain) ==
  IF obfs = "syslog" THEN Syslog(wire, domain)
  ELSE IF obfs # "sip" THEN Plain(wire)
  ELSE IF IsRtp(w) THEN Rtp(wire)
  ELSE Sip(SipKind(w), IF SipKind(w) = "OPTIONS" THEN NoWire ELSE wire)

\* Variant of check_header that stops scanning at 60 bytes.
syslog_check_short(d) == d.wrap = "syslog" /\ d.hlen <= 60

\* check_header of proto/syslog.rs: the marker that ends the header is looked
\* for in the first 68 bytes.
syslog_check(d) == d.wrap = "syslog" /\ d.hlen <= 68

sip_check(d) == d.wrap = "sip"

\* check_rtp_header of proto/sip.rs looks at two bytes, in every mode.
check_rtp_header(d) == d.wrap = "rtp" \/ (d.wrap = "none" /\ d.wire.head.look = "rtp")

\* The packet after 12 bytes were cut off one that only looked like RTP.
Beheaded(d) ==
  IF d.wrap = "rtp" THEN d.wire
  ELSE [d.wire EXCEPT !.len = IF @ > RtpHdr THEN @ - RtpHdr ELSE 0,
                      !.head.ppn = <<>>, !.head.ports = <<0, <<>>>>]

-----------------------------------------------------------------------------
(* QUIC version negotiation                                                *)

VnOut == 64

\* The answer to a long header of a foreign version: its length, or 0 for none.
\* q is the size of the datagram, the form bit, the version and the lengths of
\* its two connection ids.
generate_quic_version_negotiation(q) ==
  LET total == 1 + 4 + 1 + q.scid + 1 + q.dcid + 8
  IN IF \/ q.size < 14 \/ ~q.long
        \/ q.version \in {"vn", "own"}
        \/ 6 + q.dcid >= q.size
        \/ 6 + q.dcid + 1 + q.scid > q.size
        \/ total > VnOut
     THEN 0 ELSE total
=============================================================================

---------------------------- MODULE FormatsProofs ----------------------------
(***************************************************************************)
(* The packet codec for packets of every length, keys without number and   *)
(* every value of the padding byte: obfs_decap undoes obfs_encap, and      *)
(* obfs_verify accepts exactly what the same key wrote in the same header  *)
(* family, and the eBPF data path agrees with both.  Then the helpers      *)
(* around it, for every input: the calendar, version negotiation,          *)
(* point-to-point links and Base64.                                        *)
(***************************************************************************)
EXTENDS Formats, WellFoundedInduction, SequenceTheorems, TLAPS

-----------------------------------------------------------------------------
(* Padding                                                                 *)

\* The smaller of two numbers, as PadLen takes it.
LEMMA MinOfTwo ==
    ASSUME NEW a \in Nat, NEW b \in Nat
    PROVE  Min({a, b}) = IF a <= b THEN a ELSE b
<1>1. \E x \in {a, b} : \A y \in {a, b} : x <= y
  OBVIOUS
<1>2. Min({a, b}) \in {a, b} /\ \A y \in {a, b} : Min({a, b}) <= y
  BY <1>1 DEF Min
<1>3. QED
  BY <1>2

\* The ballast never exceeds the 64 bytes that the padding byte can name.
LEMMA PadBounds ==
    ASSUME NEW obfs, NEW hdr \in Nat, NEW len \in Nat, NEW draw \in Nat
    PROVE  PadLen(obfs, hdr, len, draw) \in 0 .. 64
<1>1. Min({draw % 16, 14}) \in 0 .. 14
  <2>1. draw % 16 \in Nat
    OBVIOUS
  <2>2. QED
    BY <2>1, MinOfTwo
<1>2. (8 + hdr + len) % 16 \in 0 .. 15 /\ draw % 64 \in 0 .. 63 /\ draw % 32 \in 0 .. 31
  OBVIOUS
<1>3. QED
  BY <1>1, <1>2 DEF PadLen

\* The receiver reads from the padding byte what the sender wrote.
LEMMA BallastOfPad ==
    ASSUME NEW pad \in 0 .. 64
    PROVE  BallastLen(PadByte(pad)) = pad
<1>1. CASE pad = 0
  BY <1>1 DEF BallastLen, PadByte
<1>2. CASE pad > 0
  <2>1. PadByte(pad) = 63 + pad
    BY <1>2 DEF PadByte
  <2>2. (63 + pad) \div 64 = 1 /\ (63 + pad) % 64 = pad - 1
    BY <1>2
  <2>3. QED
    BY <2>1, <2>2 DEF BallastLen
<1>3. QED
  BY <1>1, <1>2

-----------------------------------------------------------------------------
(* What obfs_encap sends                                                   *)

\* A datagram of any content, and how it is encapsulated.
IsCase(c) ==
  /\ c.type \in 1..4 /\ c.len \in Nat /\ c.len >= 16
  /\ c.obfs \in Modes /\ c.srv \in BOOLEAN /\ c.draw \in Nat

Hdr(c) == HeaderLen(c.obfs, c.srv, c.type)
Pad(c) == PadLen(c.obfs, Hdr(c), c.len, c.draw)
Block(c) == chacha_block_fast(c.key, 47, wg_nonce32(Sent(c)))

\* The masks of the second region, and all masks, on a packet that was sent.
Second(c) == {<<o, Block(c)>> : o \in SecondRegion(c.type, c.len)}
Masked(c) == [type |-> c.type, len |-> c.len, id |-> c.id,
              masks |-> {<<0, Block(c)>>} \cup Second(c)]

\* The second masked region never covers the first.
LEMMA SecondOffsets ==
    ASSUME NEW c, NEW m \in Second(c)
    PROVE  m[1] \in {76, 132} /\ m # <<0, Block(c)>>
BY DEF Second, SecondRegion

\* Masking changes the masks and nothing else.
LEMMA XorOnRecord ==
    ASSUME NEW t, NEW l, NEW i, NEW ms, NEW off, NEW block
    PROVE  xor16([type |-> t, len |-> l, id |-> i, masks |-> ms], off, block)
             = [type |-> t, len |-> l, id |-> i, masks |-> SymDiff(ms, {<<off, block>>})]
BY DEF xor16

\* Mask2 changes the masks of a datagram and nothing else.
LEMMA Mask2OnRecord ==
    ASSUME NEW t, NEW l, NEW i, NEW ms, NEW type, NEW len, NEW block
    PROVE  Mask2([type |-> t, len |-> l, id |-> i, masks |-> ms], type, len, block)
             = [type |-> t, len |-> l, id |-> i,
                masks |-> SymDiff(ms, {<<o, block>> : o \in SecondRegion(type, len)})]
BY DEF Mask2

\* The first mask lies on bytes 0..16, the second beyond byte 76: together they
\* are all that Mask2(xor16(...)) puts on a plain datagram.
LEMMA MaskedIs ==
    ASSUME NEW c, IsCase(c)
    PROVE  Mask2(xor16(Sent(c), 0, Block(c)), TypeByte(Sent(c)), c.len, Block(c)) = Masked(c)
<1>1. xor16(Sent(c), 0, Block(c))
        = [type |-> c.type, len |-> c.len, id |-> c.id, masks |-> {<<0, Block(c)>>}]
  BY XorOnRecord DEF Sent, Datagram, SymDiff
<1>2. TypeByte(Sent(c)) = c.type
  BY DEF TypeByte, Sent, Datagram
<1>3. SymDiff({<<0, Block(c)>>}, Second(c)) = {<<0, Block(c)>>} \cup Second(c)
  BY SecondOffsets DEF SymDiff
<1>4. Mask2([type |-> c.type, len |-> c.len, id |-> c.id, masks |-> {<<0, Block(c)>>}],
            c.type, c.len, Block(c))
        = [type |-> c.type, len |-> c.len, id |-> c.id,
           masks |-> SymDiff({<<0, Block(c)>>}, Second(c))]
  BY Mask2OnRecord DEF Second
<1>5. QED
  BY <1>1, <1>2, <1>3, <1>4, Zenon DEF Masked

\* What obfs_encap writes: the lengths, the masked datagram and the words of its header.
LEMMA EncapWrites ==
    ASSUME NEW c, IsCase(c)
    PROVE  /\ Encap(c).len = Hdr(c) + c.len + Pad(c)
           /\ Encap(c).body = Masked(c)
           /\ Encap(c).head.hdr = Hdr(c)
           /\ Encap(c).head.padbyte = PadByte(Pad(c))
           /\ Encap(c).head.ppn = Word(Block(c), 10)
           /\ Encap(c).head.ports = <<51820, Word(Block(c), 11)>>
<1>1. /\ TypeByte(Sent(c)) = c.type
      /\ Sent(c).len = c.len
  BY DEF TypeByte, Sent, Datagram
<1>2. Hdr(c) \in {GutHdr, ShortHdr, LongHdr}
  BY DEF Hdr, HeaderLen
<1>3. Encap(c) =
        [len  |-> Hdr(c) + c.len + Pad(c),
         head |-> IF Hdr(c) = GutHdr
                    THEN write_gut_header(Word(Block(c), 10), <<51820, Word(Block(c), 11)>>,
                                          Pad(c), c.look)
                  ELSE IF Hdr(c) = ShortHdr
                    THEN write_quic_short_header(Word(Block(c), 9), Word(Block(c), 10),
                                                 <<51820, Word(Block(c), 11)>>, Pad(c))
                  ELSE write_quic_long_header(c.key, Word(Block(c), 10),
                                              <<51820, Word(Block(c), 11)>>, Pad(c)),
         body |-> Masked(c)]
  BY <1>1, MaskedIs DEF IsCase, Encap, obfs_encap, Hdr, Pad, Block
<1>4. QED
  BY <1>2, <1>3 DEF write_gut_header, write_quic_short_header, write_quic_long_header,
                    GutHdr, ShortHdr, LongHdr

\* The same without the ports.
LEMMA EncapIs ==
    ASSUME NEW c, IsCase(c)
    PROVE  /\ Encap(c).len = Hdr(c) + c.len + Pad(c)
           /\ Encap(c).body = Masked(c)
           /\ Encap(c).head.hdr = Hdr(c)
           /\ Encap(c).head.padbyte = PadByte(Pad(c))
           /\ Encap(c).head.ppn = Word(Block(c), 10)
BY EncapWrites

\* The ports, masked with a word of the block.
LEMMA EncapPorts ==
    ASSUME NEW c, IsCase(c)
    PROVE  Encap(c).head.ports[1] = 51820 /\ Encap(c).head.ports[2] = Word(Block(c), 11)
BY EncapWrites

-----------------------------------------------------------------------------
(* What the receiver makes of it                                           *)

\* A packet has one of three header lengths and at most 64 bytes of padding.
LEMMA HdrPadTypes ==
    ASSUME NEW c, IsCase(c)
    PROVE  Hdr(c) \in {GutHdr, ShortHdr, LongHdr} /\ Hdr(c) \in Nat /\ Pad(c) \in 0 .. 64
<1>1. Hdr(c) \in {GutHdr, ShortHdr, LongHdr} /\ Hdr(c) \in Nat
  BY DEF Hdr, HeaderLen, GutHdr, ShortHdr, LongHdr
<1>2. c.draw \in Nat /\ c.len \in Nat
  BY DEF IsCase
<1>3. QED
  BY <1>1, <1>2, PadBounds DEF Pad

\* The padding comes off exactly.
LEMMA PayloadIs ==
    ASSUME NEW c, IsCase(c)
    PROVE  ActualLen(Encap(c)) = c.len /\ Payload(Encap(c)) = Masked(c)
<1>1. ActualLen(Encap(c)) = c.len
  BY EncapIs, HdrPadTypes, BallastOfPad DEF IsCase, ActualLen
<1>2. [Masked(c) EXCEPT !.len = c.len] = Masked(c)
  BY DEF Masked
<1>3. QED
  BY <1>1, <1>2, EncapIs DEF Payload

\* No mask touches bytes 16..32, so sender and receiver compute one nonce.
LEMMA NonceIs ==
    ASSUME NEW c, IsCase(c)
    PROVE  wg_nonce32(Masked(c)) = wg_nonce32(Sent(c))
<1>1. {m \in {<<0, Block(c)>>} \cup Second(c) : m[1] < 32 /\ m[1] + 16 > 16} = {}
  BY SecondOffsets
<1>2. QED
  BY <1>1 DEF wg_nonce32, Masked, Sent, Datagram

\* The receiver computes the block with which the sender masked.
LEMMA BlockIs ==
    ASSUME NEW c, IsCase(c)
    PROVE  chacha_block_fast(c.key, 47, wg_nonce32(Payload(Encap(c)))) = Block(c)
BY PayloadIs, NonceIs DEF Block

\* Both masks come off: the first makes the type readable, the type finds the second.
LEMMA UnmaskedIs ==
    ASSUME NEW c, IsCase(c)
    PROVE  LET plain == xor16(Masked(c), 0, Block(c))
           IN  Mask2(plain, TypeByte(plain), c.len, Block(c)) = Sent(c)
<1> DEFINE plain == [type |-> c.type, len |-> c.len, id |-> c.id, masks |-> Second(c)]
<1>1. PICK ms : ms = {<<0, Block(c)>>} \cup Second(c)
  BY Zenon
<1>2. SymDiff(ms, {<<0, Block(c)>>}) = Second(c)
  BY <1>1, SecondOffsets DEF SymDiff
<1>3. xor16(Masked(c), 0, Block(c)) = plain
  <2>1. Masked(c) = [type |-> c.type, len |-> c.len, id |-> c.id, masks |-> ms]
    BY <1>1, Zenon DEF Masked
  <2>2. xor16([type |-> c.type, len |-> c.len, id |-> c.id, masks |-> ms], 0, Block(c))
          = [type |-> c.type, len |-> c.len, id |-> c.id, masks |-> SymDiff(ms, {<<0, Block(c)>>})]
    BY XorOnRecord
  <2>3. QED
    BY <1>2, <2>1, <2>2, Zenon
<1>4. TypeByte(plain) = c.type
  BY SecondOffsets DEF TypeByte
<1>5. Mask2(plain, c.type, c.len, Block(c))
        = [type |-> c.type, len |-> c.len, id |-> c.id, masks |-> SymDiff(Second(c), Second(c))]
  BY Mask2OnRecord DEF Second
<1>6. SymDiff(Second(c), Second(c)) = {}
  BY DEF SymDiff
<1>7. Mask2(plain, c.type, c.len, Block(c)) = Sent(c)
  BY <1>5, <1>6, Zenon DEF Sent, Datagram
<1>8. QED
  BY <1>3, <1>4, <1>7, Zenon

\* The header family and the connection id of a packet follow from its mode.
LEMMA HeadIs ==
    ASSUME NEW c, IsCase(c)
    PROVE  /\ c.obfs = "quic" <=> Hdr(c) # GutHdr
           /\ Encap(c).head.look = IF Hdr(c) = GutHdr THEN c.look
                                   ELSE IF Hdr(c) = ShortHdr THEN "short" ELSE "long"
           /\ Hdr(c) = ShortHdr => Encap(c).head.dcid = Word(Block(c), 9)
           /\ Hdr(c) = LongHdr => Encap(c).head.dcid = FixedDcid(c.key)
<1>1. c.obfs = "quic" <=> Hdr(c) # GutHdr
  BY DEF Hdr, HeaderLen, GutHdr, ShortHdr, LongHdr
<1>2. /\ TypeByte(Sent(c)) = c.type
      /\ Sent(c).len = c.len
  BY DEF TypeByte, Sent, Datagram
<1>3. Encap(c).head =
        IF Hdr(c) = GutHdr
          THEN write_gut_header(Word(Block(c), 10), <<51820, Word(Block(c), 11)>>, Pad(c), c.look)
        ELSE IF Hdr(c) = ShortHdr
          THEN write_quic_short_header(Word(Block(c), 9), Word(Block(c), 10),
                                       <<51820, Word(Block(c), 11)>>, Pad(c))
        ELSE write_quic_long_header(c.key, Word(Block(c), 10),
                                    <<51820, Word(Block(c), 11)>>, Pad(c))
  BY <1>2 DEF IsCase, Encap, obfs_encap, Hdr, Pad, Block
<1>4. QED
  BY <1>1, <1>3 DEF write_gut_header, write_quic_short_header, write_quic_long_header,
                    GutHdr, ShortHdr, LongHdr

\* obfs_decap assumes the header that was written when it is told the family.
LEMMA DecapHdrIs ==
    ASSUME NEW c, IsCase(c), NEW o, o = "quic" <=> c.obfs = "quic"
    PROVE  DecapHdr(Encap(c), o) = Hdr(c) /\ Hdr(c) # 0
BY HeadIs, HdrPadTypes DEF DecapHdr, GutHdr, ShortHdr, LongHdr

\* obfs_decap gives back the datagram and its port.
LEMMA DecapIs ==
    ASSUME NEW c, IsCase(c), NEW o, o = "quic" <=> c.obfs = "quic"
    PROVE  obfs_decap(Encap(c), c.key, o) = [w |-> Sent(c), ports |-> 51820]
<1>0. PICK wire : wire = Encap(c)
  BY Zenon
<1>1. /\ wire.len = Hdr(c) + c.len + Pad(c) /\ wire.head.hdr = Hdr(c)
      /\ BallastLen(wire.head.padbyte) = Pad(c)
  BY <1>0, EncapIs, HdrPadTypes, BallastOfPad
<1>a. DecapHdr(wire, o) = Hdr(c) /\ Hdr(c) # 0
  BY <1>0, DecapHdrIs, Zenon
<1>2. /\ ~(wire.len = 0 \/ DecapHdr(wire, o) = 0 \/ wire.len < DecapHdr(wire, o) + 16)
      /\ DecapHdr(wire, o) = wire.head.hdr
      /\ ~(BallastLen(wire.head.padbyte) > wire.len - DecapHdr(wire, o))
  BY <1>1, <1>a, HdrPadTypes DEF IsCase
<1>3. wire.head.ports[2] = Word(Block(c), 11) /\ wire.head.ports[1] = 51820
  BY <1>0, EncapPorts
<1> DEFINE plain == xor16(Payload(wire), 0, Block(c))
           bytes == Mask2(plain, TypeByte(plain), ActualLen(wire), Block(c))
           ports == IF wire.head.ports[2] = Word(Block(c), 11) THEN wire.head.ports[1] ELSE 0
<1>4. bytes = Sent(c)
  BY <1>0, PayloadIs, UnmaskedIs, Zenon
<1>5. ports = 51820
  BY <1>3
<1>6. obfs_decap(wire, c.key, o) = [w |-> bytes, ports |-> ports]
  <2>1. chacha_block_fast(c.key, 47, wg_nonce32(Payload(wire))) = Block(c)
    BY <1>0, BlockIs
  <2>2. QED
    BY <1>2, <2>1, Zenon DEF obfs_decap
<1> HIDE DEF bytes, ports
<1>7. QED
  BY <1>0, <1>4, <1>5, <1>6

-----------------------------------------------------------------------------
(* Recognition                                                             *)

\* The receiver assumes the header that was written if and only if it assumes
\* the right family.
LEMMA AssumedIs ==
    ASSUME NEW c, IsCase(c), NEW o \in {"quic", "gut"}
    PROVE  AssumedHdr(Encap(c), o) = Hdr(c) <=> (o = "quic" <=> c.obfs = "quic")
BY HeadIs, HdrPadTypes DEF AssumedHdr, GutHdr, ShortHdr, LongHdr

\* obfs_verify accepts a packet of at least 32 bytes exactly under its own key and
\* in its own family of headers.
LEMMA VerifyIs ==
    ASSUME NEW c, IsCase(c), NEW k, NEW o \in {"quic", "gut"}
    PROVE  obfs_verify(Encap(c), k, o)
             <=> c.len >= 32 /\ k = c.key /\ (o = "quic" <=> c.obfs = "quic")
<1> DEFINE wire == Encap(c)
           block == chacha_block_fast(k, 47, wg_nonce32(Payload(wire)))
<1>1. /\ wire.len = Hdr(c) + c.len + Pad(c) /\ wire.head.hdr = Hdr(c)
      /\ BallastLen(wire.head.padbyte) = Pad(c)
      /\ wire.head.ppn = Word(Block(c), 10)
      /\ ActualLen(wire) = c.len
  BY EncapIs, HdrPadTypes, BallastOfPad, PayloadIs
<1>2. k = c.key => block = Block(c)
  BY BlockIs
<1>3. Word(Block(c), 10) = Word(block, 10) => k = c.key
  BY DEF Word, Block, chacha_block_fast
<1>4. /\ wire.len # 0
      /\ wire.len >= Hdr(c) + 32 <=> c.len + Pad(c) >= 32
      /\ BallastLen(wire.head.padbyte) <= wire.len - Hdr(c)
  BY <1>1, HdrPadTypes DEF IsCase
<1>5. AssumedHdr(wire, o) = Hdr(c) <=> (o = "quic" <=> c.obfs = "quic")
  BY AssumedIs
<1>6. ASSUME c.len >= 32, k = c.key, o = "quic" <=> c.obfs = "quic"
      PROVE  obfs_verify(wire, k, o)
  <2>1. c.len + Pad(c) >= 32
    BY <1>6, HdrPadTypes DEF IsCase
  <2>2. QED
    BY <1>1, <1>2, <1>4, <1>5, <1>6, <2>1, HeadIs DEF obfs_verify
<1>7. ASSUME obfs_verify(wire, k, o)
      PROVE  c.len >= 32 /\ k = c.key /\ (o = "quic" <=> c.obfs = "quic")
  BY <1>1, <1>3, <1>5, <1>7 DEF obfs_verify
<1>8. QED
  BY <1>6, <1>7

-----------------------------------------------------------------------------
IsNat == n \in Nat

\* The cases of the sweep are cases of the lemmas above.
LEMMA CaseOfSweep ==
    ASSUME IsNat, n >= 16, NEW c \in Cases
    PROVE  IsCase(c) /\ c.len = n
BY DrawsAssumption, Zenon DEF Cases, IsCase, IsNat

\* The counter of the sweep is a natural number.
LEMMA SweepNat == SweepSpec => []IsNat
<1>1. SweepInit => IsNat
  BY DEF SweepInit, IsNat
<1>2. IsNat /\ [SweepNext]_sweep => IsNat'
  BY DEF SweepNext, sweep, IsNat
<1>3. QED
  BY <1>1, <1>2, PTL DEF SweepSpec

\* obfs_decap undoes obfs_encap for packets of every length, under any key, in
\* every mode and direction, whatever the padding byte is.
THEOREM DecapUndoesEncap == SweepSpec => []RoundTrip
<1>1. IsNat => RoundTrip
  BY CaseOfSweep, DecapIs DEF RoundTrip
<1>2. QED
  BY <1>1, SweepNat, PTL

\* obfs_verify accepts a packet if and only if it was written with the same key
\* in the same header family and carries 32 bytes.
THEOREM VerifyIsExact == SweepSpec => []Recognised
<1>1. IsNat => Recognised
  BY CaseOfSweep, VerifyIs DEF Recognised
<1>2. QED
  BY <1>1, SweepNat, PTL

-----------------------------------------------------------------------------
(* The eBPF data path                                                      *)

\* The case in which userspace sends what tc sends: that of a client.
AsClient(c) == [type |-> c.type, obfs |-> c.obfs, srv |-> FALSE,
                draw |-> c.draw, key |-> c.key, len |-> c.len, id |-> c.id,
                look |-> "plain"]

\* What TC egress writes is what a userspace client writes with another padding.
LEMMA TcIsClient ==
    ASSUME NEW c, IsCase(c), c.len >= 32, c.obfs \in KernelModes
    PROVE  /\ IsCase(AsClient(c))
           /\ EncapTc(c) = Encap(AsClient(c))
           /\ Sent(AsClient(c)) = Sent(c) /\ AsClient(c).len = c.len
<1>1. IsCase(AsClient(c))
  BY DEF AsClient, IsCase
<1>2. Sent(AsClient(c)) = Sent(c) /\ AsClient(c).len = c.len
  BY DEF AsClient, Sent
<1>3. /\ TypeByte(Sent(c)) = c.type /\ Sent(c).len = c.len
      /\ c.type \in 1..4
  BY DEF TypeByte, Sent, Datagram, IsCase
<1>4. tc_outer_hdr_len(c.obfs, c.type) = HeaderLen(c.obfs, FALSE, c.type)
  BY <1>3 DEF tc_outer_hdr_len, HeaderLen, KernelModes
<1>5. \A h : tc_pad_len(c.obfs, h, c.len, c.draw) = PadLen(c.obfs, h, c.len, c.draw)
  BY DEF IsCase, tc_pad_len, PadLen, KernelModes
<1> DEFINE hdr == HeaderLen(c.obfs, FALSE, c.type)
           pad == PadLen(c.obfs, hdr, c.len, c.draw)
           enc == <<51820, Word(Block(c), 11)>>
           wire == [len  |-> hdr + c.len + pad,
                    head |-> IF hdr = GutHdr
                               THEN write_gut_header(Word(Block(c), 10), enc, pad, "plain")
                             ELSE IF hdr = ShortHdr
                               THEN write_quic_short_header(Word(Block(c), 9), Word(Block(c), 10),
                                                            enc, pad)
                             ELSE write_quic_long_header(c.key, Word(Block(c), 10), enc, pad),
                    body |-> Mask2(xor16(Sent(c), 0, Block(c)), c.type, c.len, Block(c))]
<1>6. Encap(AsClient(c)) = wire
  <2>1. Encap(AsClient(c)) = obfs_encap(Sent(c), c.key, c.obfs, FALSE, 51820, c.draw, "plain")
    BY <1>2 DEF Encap, AsClient
  <2>2. QED
    BY <1>3, <2>1 DEF IsCase, obfs_encap, Block
<1>7. EncapTc(c) = wire
  <2>1. tc_pad_len(c.obfs, hdr, c.len, c.draw) = pad
    BY <1>5, Zenon
  <2>2. tc_outer_hdr_len(c.obfs, c.type) = hdr
    BY <1>4
  <2> HIDE DEF hdr, pad
  <2>3. QED
    BY <1>3, <2>1, <2>2 DEF IsCase, EncapTc, gut_egress, Block, WgMinPacket
<1>8. QED
  BY <1>1, <1>2, <1>6, <1>7

\* For the lengths WireGuard sends, the ballast does not move the second region.
LEMMA RegionWithBallast ==
    ASSUME NEW len \in Nat, NEW type \in 1..4, WgSends(type, len), NEW pad \in 0 .. 64
    PROVE  len >= 32 /\ SecondRegion(type, len + pad) = SecondRegion(type, len)
BY DEF WgSends, SecondRegion, WgMinPacket

\* What XDP sees of a packet: the datagram with its masks, longer by the ballast.
Padded(c) == [type |-> c.type, len |-> c.len + Pad(c), id |-> c.id,
              masks |-> {<<0, Block(c)>>} \cup Second(c)]

\* Cutting the ballast off changes the length of a datagram and nothing else.
LEMMA ResizeOnRecord ==
    ASSUME NEW t, NEW l, NEW i, NEW ms, NEW k
    PROVE  Resize([type |-> t, len |-> l, id |-> i, masks |-> ms], k)
             = [type |-> t, len |-> k, id |-> i, masks |-> ms]
BY DEF Resize

\* XDP finds the block and the ballast, with the ballast still on the datagram.
LEMMA XdpSees ==
    ASSUME NEW c, IsCase(c), c.len >= 32
    PROVE  /\ xdp_rest(Encap(c)) = c.len + Pad(c)
           /\ xdp_wg(Encap(c)) = Padded(c)
           /\ xdp_ks47(Encap(c), c.key) = Block(c)
           /\ xdp_ballast(Encap(c)) = Pad(c)
<1>1. xdp_rest(Encap(c)) = c.len + Pad(c) /\ c.len + Pad(c) >= 32
  BY EncapIs, HdrPadTypes DEF IsCase, xdp_rest
<1>2. Resize(Masked(c), c.len + Pad(c)) = Padded(c)
  <2>1. PICK ms : ms = {<<0, Block(c)>>} \cup Second(c)
    BY Zenon
  <2>2. /\ Masked(c) = [type |-> c.type, len |-> c.len, id |-> c.id, masks |-> ms]
        /\ Padded(c) = [type |-> c.type, len |-> c.len + Pad(c), id |-> c.id, masks |-> ms]
    BY <2>1, Zenon DEF Masked, Padded
  <2>3. Resize([type |-> c.type, len |-> c.len, id |-> c.id, masks |-> ms], c.len + Pad(c))
          = [type |-> c.type, len |-> c.len + Pad(c), id |-> c.id, masks |-> ms]
    <3>1. PICK l : l = c.len + Pad(c)
      BY Zenon
    <3>2. Resize([type |-> c.type, len |-> c.len, id |-> c.id, masks |-> ms], l)
            = [type |-> c.type, len |-> l, id |-> c.id, masks |-> ms]
      BY ResizeOnRecord
    <3>3. QED
      BY <3>1, <3>2, Zenon
  <2>4. QED
    BY <2>2, <2>3, Zenon
<1>3. xdp_wg(Encap(c)) = Padded(c)
  BY <1>1, <1>2, EncapIs, Zenon DEF xdp_wg
<1>4. {m \in {<<0, Block(c)>>} \cup Second(c) : m[1] < 32 /\ m[1] + 16 > 16} = {}
  BY SecondOffsets
<1>5. wg_nonce32(Padded(c)) = wg_nonce32(Sent(c))
  <2>1. /\ Padded(c).len = c.len + Pad(c) /\ Padded(c).id = c.id
        /\ Padded(c).masks = {<<0, Block(c)>>} \cup Second(c)
    BY Zenon DEF Padded
  <2>2. Sent(c).len = c.len /\ Sent(c).id = c.id /\ Sent(c).masks = {}
    BY DEF Sent, Datagram
  <2>3. wg_nonce32(Padded(c)) = <<c.id, {}>>
    <3>1. ~(Padded(c).len < 32)
      BY <1>1, <2>1, HdrPadTypes DEF IsCase
    <3>2. {m \in Padded(c).masks : m[1] < 32 /\ m[1] + 16 > 16} = {}
      BY <1>4, <2>1, Zenon
    <3>3. QED
      BY <2>1, <3>1, <3>2, Zenon DEF wg_nonce32
  <2>4. wg_nonce32(Sent(c)) = <<c.id, {}>>
    BY <2>2 DEF IsCase, wg_nonce32
  <2>5. QED
    BY <2>3, <2>4
<1>6. xdp_ks47(Encap(c), c.key) = Block(c)
  BY <1>3, <1>5 DEF xdp_ks47, Block
<1>7. xdp_ballast(Encap(c)) = Pad(c)
  BY EncapIs, HdrPadTypes, BallastOfPad DEF xdp_ballast
<1>8. QED
  BY <1>1, <1>3, <1>6, <1>7

\* XDP accepts the packets of userspace in its own mode.
LEMMA XdpAccepts ==
    ASSUME NEW c, IsCase(c), c.len >= 32, c.obfs \in KernelModes
    PROVE  xdp_valid(Encap(c), c.key, c.obfs)
<1>1. /\ Encap(c).len >= WgMinPacket
      /\ xdp_rest(Encap(c)) >= WgMinPacket
  BY EncapIs, HdrPadTypes, XdpSees DEF IsCase, WgMinPacket
<1>2. xdp_outer_hdr_len(Encap(c), c.obfs) = Hdr(c)
  BY HeadIs, HdrPadTypes DEF xdp_outer_hdr_len, KernelModes, GutHdr, ShortHdr, LongHdr
<1>3. xdp_ks47(Encap(c), c.key) = Block(c)
  BY XdpSees, Zenon
<1>4. QED
  BY <1>1, <1>2, <1>3, EncapIs, HeadIs, Zenon DEF xdp_valid

\* Both masks come off the padded packet, and then the ballast.
LEMMA XdpUnmasks ==
    ASSUME NEW c, IsCase(c), c.len >= 32, WgSends(c.type, c.len)
    PROVE  LET plain == xor16(Padded(c), 0, Block(c))
           IN  Resize(Mask2(plain, TypeByte(plain), c.len + Pad(c), Block(c)), c.len) = Sent(c)
<1> DEFINE l == c.len + Pad(c)
           plain == [type |-> c.type, len |-> l, id |-> c.id, masks |-> Second(c)]
<1>1. PICK ms : ms = {<<0, Block(c)>>} \cup Second(c)
  BY Zenon
<1>2. SymDiff(ms, {<<0, Block(c)>>}) = Second(c)
  BY <1>1, SecondOffsets DEF SymDiff
<1>3. xor16(Padded(c), 0, Block(c)) = plain
  <2>1. Padded(c) = [type |-> c.type, len |-> l, id |-> c.id, masks |-> ms]
    BY <1>1, Zenon DEF Padded
  <2>2. xor16([type |-> c.type, len |-> l, id |-> c.id, masks |-> ms], 0, Block(c))
          = [type |-> c.type, len |-> l, id |-> c.id, masks |-> SymDiff(ms, {<<0, Block(c)>>})]
    BY XorOnRecord
  <2>3. QED
    BY <1>2, <2>1, <2>2, Zenon
<1>4. TypeByte(plain) = c.type
  BY SecondOffsets DEF TypeByte
<1>5. SecondRegion(c.type, l) = SecondRegion(c.type, c.len)
  BY RegionWithBallast, HdrPadTypes, Zenon DEF IsCase
<1>6. Mask2(plain, c.type, l, Block(c))
        = [type |-> c.type, len |-> l, id |-> c.id, masks |-> SymDiff(Second(c), Second(c))]
  <2>1. Mask2(plain, c.type, l, Block(c))
          = [type |-> c.type, len |-> l, id |-> c.id,
             masks |-> SymDiff(Second(c), {<<o, Block(c)>> : o \in SecondRegion(c.type, l)})]
    <3> HIDE DEF l
    <3>1. QED
      BY Mask2OnRecord
  <2>2. {<<o, Block(c)>> : o \in SecondRegion(c.type, l)} = Second(c)
    BY <1>5 DEF Second
  <2>3. QED
    BY <2>1, <2>2, Zenon
<1>7. SymDiff(Second(c), Second(c)) = {}
  BY DEF SymDiff
<1>8. Mask2(plain, c.type, l, Block(c)) = [type |-> c.type, len |-> l, id |-> c.id, masks |-> {}]
  BY <1>6, <1>7, Zenon
<1>9. Resize([type |-> c.type, len |-> l, id |-> c.id, masks |-> {}], c.len) = Sent(c)
  <2> HIDE DEF l
  <2>1. Resize([type |-> c.type, len |-> l, id |-> c.id, masks |-> {}], c.len)
          = [type |-> c.type, len |-> c.len, id |-> c.id, masks |-> {}]
    BY ResizeOnRecord
  <2>2. QED
    BY <2>1, Zenon DEF Sent, Datagram
<1>10. QED
  BY <1>3, <1>4, <1>8, <1>9, Zenon

\* XDP decapsulates as userspace does, except that it refuses 64 bytes of ballast.
LEMMA XdpIs ==
    ASSUME NEW c, IsCase(c), c.obfs \in KernelModes, WgSends(c.type, c.len)
    PROVE  gut_xdp_core(Encap(c), c.key, c.obfs) =
             IF BallastLen(Encap(c).head.padbyte) = 64 THEN Refused
             ELSE [w |-> Sent(c), ports |-> 51820]
<1> DEFINE wire == Encap(c)
           plain == xor16(xdp_wg(wire), 0, Block(c))
           bytes == Resize(Mask2(plain, TypeByte(plain), c.len + Pad(c), Block(c)), c.len)
           ports == IF wire.head.ports[2] = Word(Block(c), 11) THEN wire.head.ports[1] ELSE 0
<1>1. c.len >= 32
  BY DEF WgSends, WgMinPacket
<1>2. Pad(c) \in 0 .. 64 /\ BallastLen(wire.head.padbyte) = Pad(c)
  BY <1>1, EncapIs, HdrPadTypes, BallastOfPad
<1>3. /\ xdp_rest(wire) = c.len + Pad(c) /\ xdp_ks47(wire, c.key) = Block(c)
      /\ xdp_ballast(wire) = Pad(c) /\ xdp_wg(wire) = Padded(c)
      /\ xdp_valid(wire, c.key, c.obfs)
  BY <1>1, XdpSees, XdpAccepts
<1>4. bytes = Sent(c)
  BY <1>1, <1>3, XdpUnmasks, Zenon
<1>5. ports = 51820
  BY EncapPorts
<1>6. /\ ~(Pad(c) > c.len + Pad(c)) /\ (c.len + Pad(c)) - Pad(c) = c.len /\ ~(c.len < WgMinPacket)
      /\ Pad(c) > 63 <=> Pad(c) = 64
  BY <1>1, <1>2 DEF IsCase, WgMinPacket
<1>7. gut_xdp_core(wire, c.key, c.obfs) =
        IF Pad(c) > 63 THEN Refused ELSE [w |-> bytes, ports |-> ports]
  <2> HIDE DEF wire
  <2>1. gut_xdp_core(wire, c.key, c.obfs) =
          IF \/ ~xdp_valid(wire, c.key, c.obfs)
             \/ Pad(c) > 63 \/ Pad(c) > c.len + Pad(c)
             \/ (c.len + Pad(c)) - Pad(c) < WgMinPacket
          THEN Refused
          ELSE [w |-> Resize(Mask2(plain, TypeByte(plain), c.len + Pad(c), Block(c)),
                             (c.len + Pad(c)) - Pad(c)),
                ports |-> ports]
    BY <1>3 DEF gut_xdp_core
  <2> HIDE DEF plain, ports
  <2>2. QED
    BY <1>3, <1>6, <2>1
<1> HIDE DEF bytes, ports
<1>8. QED
  BY <1>2, <1>4, <1>5, <1>6, <1>7

\* The two data paths understand each other for packets of every length, under
\* any key and whatever the padding byte is, but for 64 bytes of ballast.
THEOREM DataPathsAgree == SweepSpec => []KernelInterop
<1>1. IsNat => KernelInterop
  <2> SUFFICES ASSUME IsNat, NEW c \in Cases, c.obfs \in KernelModes, WgSends(c.type, n)
               PROVE  /\ obfs_verify(EncapTc(c), c.key, c.obfs)
                      /\ obfs_decap(EncapTc(c), c.key, c.obfs) = [w |-> Sent(c), ports |-> 51820]
                      /\ \A wire \in {EncapTc(c), Encap(c)} :
                           BallastLen(wire.head.padbyte) # 64 =>
                             gut_xdp_core(wire, c.key, c.obfs) = [w |-> Sent(c), ports |-> 51820]
    BY DEF KernelInterop
  <2>1. IsCase(c) /\ c.len >= 32 /\ WgSends(c.type, c.len)
    <3>1. n >= 32  BY DEF IsNat, WgSends, WgMinPacket
    <3>2. QED  BY <3>1, CaseOfSweep DEF IsNat
  <2>2. /\ IsCase(AsClient(c)) /\ AsClient(c).len = c.len /\ EncapTc(c) = Encap(AsClient(c))
        /\ Sent(AsClient(c)) = Sent(c)
    BY <2>1, TcIsClient
  <2>3. /\ AsClient(c).key = c.key /\ AsClient(c).obfs = c.obfs /\ AsClient(c).type = c.type
        /\ c.obfs \in {"quic", "gut"}
    BY DEF AsClient, KernelModes
  <2>4. obfs_verify(EncapTc(c), c.key, c.obfs)
    BY <2>1, <2>2, <2>3, VerifyIs
  <2>5. obfs_decap(EncapTc(c), c.key, c.obfs) = [w |-> Sent(c), ports |-> 51820]
    BY <2>1, <2>2, <2>3, DecapIs
  <2>6. BallastLen(EncapTc(c).head.padbyte) # 64 =>
          gut_xdp_core(EncapTc(c), c.key, c.obfs) = [w |-> Sent(c), ports |-> 51820]
    BY <2>1, <2>2, <2>3, XdpIs
  <2>7. BallastLen(Encap(c).head.padbyte) # 64 =>
          gut_xdp_core(Encap(c), c.key, c.obfs) = [w |-> Sent(c), ports |-> 51820]
    BY <2>1, XdpIs
  <2>8. QED
    BY <2>4, <2>5, <2>6, <2>7
<1>2. QED
  BY <1>1, SweepNat, PTL

\* Where the data paths part: every datagram below 220 bytes that tc or userspace
\* disguises as QUIC after drawing 63 carries 64 bytes of ballast.  Userspace
\* restores it, XDP drops it, although the comments of xdp_gut_ingress.bpf.c and
\* tc_gut_egress.bpf.c give the ballast the range 1..64.
THEOREM LongestBallastDropped ==
    ASSUME NEW c, IsCase(c), WgSends(c.type, c.len), c.obfs = "quic", c.len < 220,
           c.draw % 64 = 63
    PROVE  /\ obfs_decap(Encap(c), c.key, c.obfs) = [w |-> Sent(c), ports |-> 51820]
           /\ gut_xdp_core(Encap(c), c.key, c.obfs) = Refused
           /\ obfs_decap(EncapTc(c), c.key, c.obfs) = [w |-> Sent(c), ports |-> 51820]
           /\ gut_xdp_core(EncapTc(c), c.key, c.obfs) = Refused
<1>1. ASSUME NEW k, IsCase(k), WgSends(k.type, k.len), k.obfs = "quic", k.len < 220,
             k.draw % 64 = 63
      PROVE  /\ obfs_decap(Encap(k), k.key, k.obfs) = [w |-> Sent(k), ports |-> 51820]
             /\ gut_xdp_core(Encap(k), k.key, k.obfs) = Refused
  <2>1. Pad(k) = 64
    BY <1>1 DEF Pad, PadLen, IsCase
  <2>2. BallastLen(Encap(k).head.padbyte) = 64
    BY <1>1, <2>1, EncapIs, HdrPadTypes, BallastOfPad
  <2>3. k.obfs \in KernelModes
    BY <1>1 DEF KernelModes
  <2>4. QED
    BY <1>1, <2>2, <2>3, DecapIs, XdpIs
<1>2. /\ IsCase(AsClient(c)) /\ EncapTc(c) = Encap(AsClient(c)) /\ Sent(AsClient(c)) = Sent(c)
  <2>1. c.len >= 32 /\ c.obfs \in KernelModes
    BY DEF WgSends, WgMinPacket, KernelModes
  <2>2. QED
    BY <2>1, TcIsClient
<1>3. /\ AsClient(c).key = c.key /\ AsClient(c).obfs = c.obfs /\ AsClient(c).type = c.type
      /\ AsClient(c).len = c.len /\ AsClient(c).draw = c.draw
  BY DEF AsClient
<1>4. QED
  BY <1>1, <1>2, <1>3

-----------------------------------------------------------------------------
(* Sizes                                                                   *)

\* The padding again, by mode and size.
LEMMA PadByMode ==
    ASSUME NEW c, IsCase(c)
    PROVE  /\ c.obfs = "quic" /\ c.len >= 220 => Pad(c) = 0
           /\ c.obfs = "gut" /\ c.len >= 256 => Pad(c) = 0
           /\ c.obfs \in {"sip", "syslog"} => Pad(c) <= 32
           /\ c.obfs \in {"sip", "syslog"} /\ c.len >= 220 => Pad(c) <= 15
<1>1. c.draw \in Nat /\ Hdr(c) \in Nat
  BY HdrPadTypes DEF IsCase
<1>2. Min({c.draw % 16, 14}) \in 0 .. 14
  BY <1>1, MinOfTwo
<1>3. c.draw % 32 \in 0 .. 31 /\ (8 + Hdr(c) + c.len) % 16 \in 0 .. 15
  BY <1>1 DEF IsCase
<1>4. QED
  BY <1>2, <1>3 DEF IsCase, Pad, PadLen

\* No packet of a datagram within the recommended MTU is longer than the link allows.
LEMMA SizeFits ==
    ASSUME Domain <= 32, NEW c, IsCase(c), c.len >= 16,
           c.len <= RecommendedMtu[c.obfs] + 32, c.type = 4 \/ c.len <= 148
    PROVE  Wrap(c.obfs, Sent(c), Encap(c), Domain).size + 28 <= 1500
<1>1. /\ Encap(c).len = Hdr(c) + c.len + Pad(c) /\ Hdr(c) \in Nat /\ Pad(c) \in 0 .. 64
      /\ Encap(c).len \in Nat /\ Domain \in Nat
      /\ c.obfs # "quic" => Hdr(c) = 10
  <2>1. Hdr(c) \in Nat /\ Pad(c) \in 0 .. 64
    BY HdrPadTypes
  <2>2. Encap(c).len = Hdr(c) + c.len + Pad(c)
    BY EncapIs
  <2>3. c.obfs # "quic" => Hdr(c) = 10
    BY HeadIs DEF GutHdr
  <2>4. c.len \in Nat /\ Domain \in Nat
    BY DomainAssumption DEF IsCase
  <2>5. QED
    BY <2>1, <2>2, <2>3, <2>4
<1>2. CASE c.obfs = "quic"
  <2>1. Hdr(c) = 1200 => c.len <= 148
    BY <1>2 DEF Hdr, HeaderLen, ShortHdr, GutHdr
  <2>2. Hdr(c) \in {16, 1200}
    BY <1>2, HeadIs, HdrPadTypes DEF GutHdr, ShortHdr, LongHdr
  <2>3. c.len <= 1452
    BY <1>2 DEF RecommendedMtu
  <2>4. Encap(c).len + 28 <= 1500
    BY <1>1, <1>2, <2>1, <2>2, <2>3, PadByMode DEF IsCase
  <2>5. QED
    BY <1>2, <2>4 DEF Wrap, Plain
<1>3. CASE c.obfs = "gut"
  <2>1. c.len <= 1452
    BY <1>3 DEF RecommendedMtu
  <2>2. Encap(c).len + 28 <= 1500
    BY <1>1, <1>3, <2>1, PadByMode DEF IsCase
  <2>3. QED
    BY <1>3, <2>2 DEF Wrap, Plain
<1>4. CASE c.obfs = "syslog"
  <2>1. c.len <= 832
    BY <1>4 DEF RecommendedMtu
  <2>2. Encap(c).len <= 874
    BY <1>1, <1>4, <2>1, PadByMode DEF IsCase
  <2>3. b64_len(Encap(c).len) <= 1168 /\ b64_len(Encap(c).len) \in Nat
    BY <1>1, <2>2 DEF b64_len
  <2>4. QED
    BY <1>1, <1>4, <2>3 DEF Wrap, Syslog, SyslogHdrBase
<1>5. CASE c.obfs = "sip"
  <2>1. c.len <= 1432
    BY <1>5 DEF RecommendedMtu
  <2>2. Sent(c).type = c.type /\ Sent(c).len = c.len
    BY DEF Sent, Datagram
  <2>3. CASE IsRtp(Sent(c))
    <3>1. Encap(c).len + 12 + 28 <= 1500
      BY <1>1, <1>5, <2>1, PadByMode DEF IsCase
    <3>2. QED
      BY <1>5, <2>3, <3>1, <1>1 DEF Wrap, Rtp, RtpHdr
  <2>4. CASE ~IsRtp(Sent(c))
    <3>1. c.len <= 148
      BY <2>2, <2>4 DEF IsCase, IsRtp
    <3>2. Encap(c).len <= 190
      BY <1>1, <1>5, <3>1, PadByMode DEF IsCase
    <3>3. b64_len(Encap(c).len) <= 256 /\ b64_len(Encap(c).len) \in Nat /\ b64_len(NoWire.len) = 0
      BY <1>1, <3>2 DEF b64_len, NoWire
    <3>4. QED
      BY <1>5, <2>4, <3>3 DEF Wrap, Sip, MaxSipHdr
  <2>5. QED
    BY <2>3, <2>4
<1>6. QED
  BY <1>2, <1>3, <1>4, <1>5 DEF IsCase, Modes

\* At the recommended WireGuard MTU every datagram fits a 1500-byte link and the
\* fake ClientHello its buffer, if the domain has at most 32 characters.
THEOREM RecommendedMtuFits == ASSUME Domain <= 32 PROVE SweepSpec => []MtuFits
<1>1. CryptoFrameTotal(Domain) <= 128
  <2>1. Min({Domain, 32}) = Domain
    BY MinOfTwo, DomainAssumption
  <2>2. QED
    BY <2>1, DomainAssumption DEF CryptoFrameTotal
<1>2. IsNat => MtuFits
  BY <1>1, CaseOfSweep, SizeFits DEF MtuFits
<1>3. QED
  BY <1>2, SweepNat, PTL

-----------------------------------------------------------------------------
(***************************************************************************)
(* The calendar.  A day of an era of 400 years is given by the centuries,  *)
(* the leap cycles, the years and the days before it, counted from the     *)
(* first of March.                                                         *)
(***************************************************************************)
Centuries == 0..3
Cycles == 0..24
Years == 0..3
Days == 0..365

\* Day 365 of a year that begins in March exists in every fourth year, except
\* at the end of the first three centuries.
Exists(k, j, i, d) == d = 365 => i = 3 /\ (j < 24 \/ k = 3)

DayOfEra(k, j, i, d) == 36524 * k + 1461 * j + 365 * i + d

\* The date of day doe of an era, as the code finds it.
DateIn(era, doe) == DateOfYear(YearOfEra(doe) + era * 400, DayOfYear(doe, YearOfEra(doe)))

\* Day doe of an era, in days since 1970-01-01.
IsDay(days, era, doe) == days + 719468 = 146097 * era + doe

\* The days since 1970-01-01 and the date of a day of an era.
Dated(days, date, era, k, j, i, d) ==
  /\ Exists(k, j, i, d)
  /\ IsDay(days, era, DayOfEra(k, j, i, d))
  /\ date = DateOfYear(400 * era + (100 * k + 4 * j + i), d)

\* The calendar stands at the date of the day that is swept.
CalendarInv ==
  \E era \in Nat, k \in Centuries, j \in Cycles, i \in Years, d \in Days :
    Dated(n, civil, era, k, j, i, d)

\* The year of the era is found: the quotients by 1460, 36524 and 146096 correct
\* the day for the leap days before it.
LEMMA YearFound ==
  ASSUME NEW k \in Centuries, NEW j \in Cycles, NEW i \in Years, NEW d \in Days,
         Exists(k, j, i, d)
  PROVE  /\ DayOfEra(k, j, i, d) \in Nat /\ DayOfEra(k, j, i, d) <= 146096
         /\ YearOfEra(DayOfEra(k, j, i, d)) = 100 * k + 4 * j + i
<1> USE DEF Centuries, Cycles, Years, Days
<1>0. PICK doe \in Nat : doe = 36524 * k + 1461 * j + 365 * i + d
  BY SMT
<1>1. d = 365 => i = 3 /\ (j < 24 \/ k = 3)  BY SMT DEF Exists
<1>2. doe <= 146096  BY <1>0, <1>1, SMT
<1>3. \/ doe \div 1460 = 25 * k + j /\ d <= 364
      \/ doe \div 1460 = 25 * k + j + 1 /\ d >= 1
  BY <1>0, <1>1, SMT
<1>4. \/ doe \div 36524 = k /\ doe \div 146096 = 0
      \/ doe \div 36524 = k + 1 /\ doe \div 146096 = 1
  <2>1. CASE doe = 146096
    <3>1. doe \div 36524 = 4 /\ doe \div 146096 = 1  BY <2>1, SMT
    <3>2. k = 3  BY <1>0, <2>1, SMT
    <3>3. QED  BY <3>1, <3>2, SMT
  <2>2. CASE doe < 146096  BY <1>0, <1>1, <2>2, SMT
  <2>3. QED  BY <1>2, <2>1, <2>2, SMT
<1>5. PICK a \in Nat : a = doe \div 1460
  BY SMT
<1>6. PICK b \in Nat : b = doe \div 36524
  BY SMT
<1>7. PICK c \in Nat : c = doe \div 146096
  BY SMT
<1>8. PICK y \in Nat : y = 100 * k + 4 * j + i
  BY SMT
<1>9. PICK e \in Nat : e = ((doe - a) + b) - c
  BY <1>0, <1>3, <1>4, <1>5, <1>6, <1>7, SMT
<1>10. e \in Nat /\ 365 * y <= e /\ e < 365 * y + 365
  BY <1>0, <1>3, <1>4, <1>5, <1>6, <1>7, <1>8, <1>9, SMT
<1>11. e \div 365 = y  BY <1>10, SMT
<1>12. YearOfEra(doe) = y  BY <1>5, <1>6, <1>7, <1>9, <1>11, SMT DEF YearOfEra
<1>14. DayOfEra(k, j, i, d) = doe  BY <1>0, SMT DEF DayOfEra
<1>15. QED  BY <1>2, <1>8, <1>12, <1>14, SMT

\* What format_sip_date_only makes of a day of an era.
LEMMA DateOfDay ==
  ASSUME NEW era \in Nat, NEW k \in Centuries, NEW j \in Cycles, NEW i \in Years, NEW d \in Days,
         Exists(k, j, i, d), NEW days \in Nat,
         IsDay(days, era, DayOfEra(k, j, i, d))
  PROVE  format_sip_date_only(days) = DateOfYear(400 * era + (100 * k + 4 * j + i), d)
<1> DEFINE yf == DayOfEra(k, j, i, d) \in Nat /\ DayOfEra(k, j, i, d) <= 146096
         /\ YearOfEra(DayOfEra(k, j, i, d)) = 100 * k + 4 * j + i
<1>0. yf  BY YearFound, SMT
<1> USE DEF Centuries, Cycles, Years, Days
<1>1. PICK doe \in Nat : doe = DayOfEra(k, j, i, d)  BY <1>0, SMT
<1>2. PICK yoe \in Nat : yoe = 100 * k + 4 * j + i
  BY SMT
<1>3. PICK z \in Nat : z = days + 719468
  BY SMT
<1>4. doe <= 146096 /\ YearOfEra(doe) = yoe  BY <1>0, <1>1, <1>2, SMT
<1>5. yoe \div 4 = 25 * k + j /\ yoe \div 100 = k  BY <1>2, SMT
<1>6. DayOfYear(doe, yoe) = d  BY <1>1, <1>2, <1>5, SMT DEF DayOfYear, DayOfEra
<1>7. z = 146097 * era + doe  BY <1>1, <1>3, SMT DEF IsDay
<1>8. z \div 146097 = era /\ z - era * 146097 = doe  BY <1>4, <1>7, SMT
<1>9. yoe + era * 400 = 400 * era + (100 * k + 4 * j + i)  BY <1>2, SMT
<1>10. format_sip_date_only(days) = DateOfYear(yoe + era * 400, d)
  <2> DEFINE e  == (days + 719468) \div 146097
             de == (days + 719468) - e * 146097
  <2>1. format_sip_date_only(days) = DateIn(e, de)
    BY SMT DEF format_sip_date_only, DateIn
  <2>2. e = era /\ de = doe  BY <1>3, <1>8, SMT
  <2> HIDE DEF e, de
  <2>3. format_sip_date_only(days) = DateIn(era, doe)  BY <2>1, <2>2, SMT
  <2>4. DateIn(era, doe) = DateOfYear(yoe + era * 400, d)  BY <1>4, <1>6, SMT DEF DateIn
  <2>5. QED  BY <2>3, <2>4, Zenon
<1>11. QED  BY <1>9, <1>10, SMT


\* The months of a year that begins in March, and the days of each.
DateInMonth(y, d) ==
  \/ d \in 0..30    /\ DateOfYear(y, d) = [year |-> y, month |-> 3, day |-> d + 1]
  \/ d \in 31..60   /\ DateOfYear(y, d) = [year |-> y, month |-> 4, day |-> d - 30]
  \/ d \in 61..91   /\ DateOfYear(y, d) = [year |-> y, month |-> 5, day |-> d - 60]
  \/ d \in 92..121  /\ DateOfYear(y, d) = [year |-> y, month |-> 6, day |-> d - 91]
  \/ d \in 122..152 /\ DateOfYear(y, d) = [year |-> y, month |-> 7, day |-> d - 121]
  \/ d \in 153..183 /\ DateOfYear(y, d) = [year |-> y, month |-> 8, day |-> d - 152]
  \/ d \in 184..213 /\ DateOfYear(y, d) = [year |-> y, month |-> 9, day |-> d - 183]
  \/ d \in 214..244 /\ DateOfYear(y, d) = [year |-> y, month |-> 10, day |-> d - 213]
  \/ d \in 245..274 /\ DateOfYear(y, d) = [year |-> y, month |-> 11, day |-> d - 244]
  \/ d \in 275..305 /\ DateOfYear(y, d) = [year |-> y, month |-> 12, day |-> d - 274]
  \/ d \in 306..336 /\ DateOfYear(y, d) = [year |-> y + 1, month |-> 1, day |-> d - 305]
  \/ d \in 337..365 /\ DateOfYear(y, d) = [year |-> y + 1, month |-> 2, day |-> d - 336]

\* (5 * d + 2) \div 153 is the month of a day, (153 * mp + 2) \div 5 its first day.
LEMMA Months ==
  ASSUME NEW d \in Days, NEW y \in Nat
  PROVE  DateInMonth(y, d)
<1>1. PICK mp \in Nat : mp = (5 * d + 2) \div 153  BY SMT DEF Days
<1>2. \/ d \in 0..30 /\ mp = 0
      \/ d \in 31..60 /\ mp = 1
      \/ d \in 61..91 /\ mp = 2
      \/ d \in 92..121 /\ mp = 3
      \/ d \in 122..152 /\ mp = 4
      \/ d \in 153..183 /\ mp = 5
      \/ d \in 184..213 /\ mp = 6
      \/ d \in 214..244 /\ mp = 7
      \/ d \in 245..274 /\ mp = 8
      \/ d \in 275..305 /\ mp = 9
      \/ d \in 306..336 /\ mp = 10
      \/ d \in 337..365 /\ mp = 11
  BY <1>1, SMT DEF Days
<1>3. DateOfYear(y, d) = [year |-> y + (IF mp < 10 THEN 0 ELSE 1),
                       month |-> IF mp < 10 THEN mp + 3 ELSE mp - 9,
                       day |-> (d - ((153 * mp + 2) \div 5)) + 1]
  <2>1. CASE mp < 10
    BY <1>1, <2>1, SMT DEF DateOfYear
  <2>2. CASE ~(mp < 10)
    BY <1>1, <1>2, <2>2, SMT DEF DateOfYear
  <2>3. QED  BY <2>1, <2>2, SMT
<1>4. QED  BY <1>2, <1>3, SMT DEF Days, DateInMonth

\* Which years are leap years, by the position of the February that ends the
\* year in the era.
LEMMA LeapYears ==
  ASSUME NEW era \in Nat, NEW k \in Centuries, NEW j \in Cycles, NEW i \in Years,
         NEW y \in Nat, y = 400 * era + (100 * k + 4 * j + i) + 1
  PROVE  Leap(y) <=> i = 3 /\ (j < 24 \/ k = 3)
<1> USE DEF Centuries, Cycles, Years
<1>1. y % 4 = (i + 1) % 4
  BY SMT
<1>2. y % 100 = (4 * j + i + 1) % 100
  BY SMT
<1>3. y % 400 = (100 * k + 4 * j + i + 1) % 400
  BY SMT
<1>4. QED  BY <1>1, <1>2, <1>3, SMT DEF Leap


\* The next day of a year that begins in March, and the last one: NextDay of the
\* calendar is the next day of the count.
LEMMA NextCivil ==
  ASSUME NEW d \in Days, NEW y \in Nat, NEW leap \in BOOLEAN, leap <=> Leap(y + 1),
         d = 365 => leap
  PROVE  NextDay(DateOfYear(y, d))
           = IF d < 364 \/ (d = 364 /\ leap) THEN DateOfYear(y, d + 1) ELSE DateOfYear(y + 1, 0)
<1>1. DateInMonth(y, d)  BY Months, SMT
<1>2. d < 365 => d + 1 \in Days /\ DateInMonth(y, d + 1)
  <2>1. d < 365 => d + 1 \in Days  BY SMT DEF Days
  <2>2. QED  BY <2>1, Months, SMT
<1>3. DateInMonth(y + 1, 0)
  <2>1. 0 \in Days /\ y + 1 \in Nat  BY SMT DEF Days
  <2>2. QED  BY <2>1, Months, SMT
<1>4. CASE d < 364
  <2>1. PICK e \in Days : e = d + 1  BY <1>2, <1>4, SMT DEF Days
  <2>2. DateInMonth(y, e)  BY <2>1, Months, SMT
  <2>3. SUFFICES NextDay(DateOfYear(y, d)) = DateOfYear(y, e)  BY <1>4, <2>1, SMT
  <2>4. CASE d \in 0..30
    <3>1. DateOfYear(y, d) = [year |-> y, month |-> 3, day |-> d + 1]
      BY <1>1, <2>4, SMT DEF DateInMonth
    <3>2. DateOfYear(y, e) = IF d < 30 THEN [year |-> y, month |-> 3, day |-> e + 1]
                                   ELSE [year |-> y, month |-> 4, day |-> 1]
      BY <2>1, <2>2, <2>4, SMT DEF DateInMonth
    <3>3. QED  BY <1>4, <2>1, <2>4, <3>1, <3>2, SMT DEF NextDay, MonthLen
  <2>5. CASE d \in 31..60
    <3>1. DateOfYear(y, d) = [year |-> y, month |-> 4, day |-> d - 30]
      BY <1>1, <2>5, SMT DEF DateInMonth
    <3>2. DateOfYear(y, e) = IF d < 60 THEN [year |-> y, month |-> 4, day |-> e - 30]
                                   ELSE [year |-> y, month |-> 5, day |-> 1]
      BY <2>1, <2>2, <2>5, SMT DEF DateInMonth
    <3>3. QED  BY <1>4, <2>1, <2>5, <3>1, <3>2, SMT DEF NextDay, MonthLen
  <2>6. CASE d \in 61..91
    <3>1. DateOfYear(y, d) = [year |-> y, month |-> 5, day |-> d - 60]
      BY <1>1, <2>6, SMT DEF DateInMonth
    <3>2. DateOfYear(y, e) = IF d < 91 THEN [year |-> y, month |-> 5, day |-> e - 60]
                                   ELSE [year |-> y, month |-> 6, day |-> 1]
      BY <2>1, <2>2, <2>6, SMT DEF DateInMonth
    <3>3. QED  BY <1>4, <2>1, <2>6, <3>1, <3>2, SMT DEF NextDay, MonthLen
  <2>7. CASE d \in 92..121
    <3>1. DateOfYear(y, d) = [year |-> y, month |-> 6, day |-> d - 91]
      BY <1>1, <2>7, SMT DEF DateInMonth
    <3>2. DateOfYear(y, e) = IF d < 121 THEN [year |-> y, month |-> 6, day |-> e - 91]
                                   ELSE [year |-> y, month |-> 7, day |-> 1]
      BY <2>1, <2>2, <2>7, SMT DEF DateInMonth
    <3>3. QED  BY <1>4, <2>1, <2>7, <3>1, <3>2, SMT DEF NextDay, MonthLen
  <2>8. CASE d \in 122..152
    <3>1. DateOfYear(y, d) = [year |-> y, month |-> 7, day |-> d - 121]
      BY <1>1, <2>8, SMT DEF DateInMonth
    <3>2. DateOfYear(y, e) = IF d < 152 THEN [year |-> y, month |-> 7, day |-> e - 121]
                                   ELSE [year |-> y, month |-> 8, day |-> 1]
      BY <2>1, <2>2, <2>8, SMT DEF DateInMonth
    <3>3. QED  BY <1>4, <2>1, <2>8, <3>1, <3>2, SMT DEF NextDay, MonthLen
  <2>9. CASE d \in 153..183
    <3>1. DateOfYear(y, d) = [year |-> y, month |-> 8, day |-> d - 152]
      BY <1>1, <2>9, SMT DEF DateInMonth
    <3>2. DateOfYear(y, e) = IF d < 183 THEN [year |-> y, month |-> 8, day |-> e - 152]
                                   ELSE [year |-> y, month |-> 9, day |-> 1]
      BY <2>1, <2>2, <2>9, SMT DEF DateInMonth
    <3>3. QED  BY <1>4, <2>1, <2>9, <3>1, <3>2, SMT DEF NextDay, MonthLen
  <2>10. CASE d \in 184..213
    <3>1. DateOfYear(y, d) = [year |-> y, month |-> 9, day |-> d - 183]
      BY <1>1, <2>10, SMT DEF DateInMonth
    <3>2. DateOfYear(y, e) = IF d < 213 THEN [year |-> y, month |-> 9, day |-> e - 183]
                                   ELSE [year |-> y, month |-> 10, day |-> 1]
      BY <2>1, <2>2, <2>10, SMT DEF DateInMonth
    <3>3. QED  BY <1>4, <2>1, <2>10, <3>1, <3>2, SMT DEF NextDay, MonthLen
  <2>11. CASE d \in 214..244
    <3>1. DateOfYear(y, d) = [year |-> y, month |-> 10, day |-> d - 213]
      BY <1>1, <2>11, SMT DEF DateInMonth
    <3>2. DateOfYear(y, e) = IF d < 244 THEN [year |-> y, month |-> 10, day |-> e - 213]
                                   ELSE [year |-> y, month |-> 11, day |-> 1]
      BY <2>1, <2>2, <2>11, SMT DEF DateInMonth
    <3>3. QED  BY <1>4, <2>1, <2>11, <3>1, <3>2, SMT DEF NextDay, MonthLen
  <2>12. CASE d \in 245..274
    <3>1. DateOfYear(y, d) = [year |-> y, month |-> 11, day |-> d - 244]
      BY <1>1, <2>12, SMT DEF DateInMonth
    <3>2. DateOfYear(y, e) = IF d < 274 THEN [year |-> y, month |-> 11, day |-> e - 244]
                                   ELSE [year |-> y, month |-> 12, day |-> 1]
      BY <2>1, <2>2, <2>12, SMT DEF DateInMonth
    <3>3. QED  BY <1>4, <2>1, <2>12, <3>1, <3>2, SMT DEF NextDay, MonthLen
  <2>13. CASE d \in 275..305
    <3>1. DateOfYear(y, d) = [year |-> y, month |-> 12, day |-> d - 274]
      BY <1>1, <2>13, SMT DEF DateInMonth
    <3>2. DateOfYear(y, e) = IF d < 305 THEN [year |-> y, month |-> 12, day |-> e - 274]
                                   ELSE [year |-> y + 1, month |-> 1, day |-> 1]
      BY <2>1, <2>2, <2>13, SMT DEF DateInMonth
    <3>3. QED  BY <1>4, <2>1, <2>13, <3>1, <3>2, SMT DEF NextDay, MonthLen
  <2>14. CASE d \in 306..336
    <3>1. DateOfYear(y, d) = [year |-> y + 1, month |-> 1, day |-> d - 305]
      BY <1>1, <2>14, SMT DEF DateInMonth
    <3>2. DateOfYear(y, e) = IF d < 336 THEN [year |-> y + 1, month |-> 1, day |-> e - 305]
                                   ELSE [year |-> y + 1, month |-> 2, day |-> 1]
      BY <2>1, <2>2, <2>14, SMT DEF DateInMonth
    <3>3. QED  BY <1>4, <2>1, <2>14, <3>1, <3>2, SMT DEF NextDay, MonthLen
  <2>15. CASE d \in 337..365
    <3>1. DateOfYear(y, d) = [year |-> y + 1, month |-> 2, day |-> d - 336]
      BY <1>1, <2>15, SMT DEF DateInMonth
    <3>2. DateOfYear(y, e) = [year |-> y + 1, month |-> 2, day |-> e - 336]
      BY <1>4, <2>1, <2>2, <2>15, SMT DEF DateInMonth
    <3>3. QED  BY <1>4, <2>1, <2>15, <3>1, <3>2, SMT DEF NextDay, MonthLen
  <2>16. QED
    BY <1>4, <2>4, <2>5, <2>6, <2>7, <2>8, <2>9, <2>10, <2>11, <2>12, <2>13, <2>14, <2>15,
       SMT DEF Days
<1>5. CASE d = 364
  BY <1>1, <1>2, <1>3, <1>5, SMT DEF Days, DateInMonth, NextDay, MonthLen
<1>6. CASE d = 365
  BY <1>1, <1>3, <1>6, SMT DEF Days, DateInMonth, NextDay, MonthLen
<1>7. QED  BY <1>4, <1>5, <1>6, SMT DEF Days


\* A day later the count of the era carries over at the end of a year, of a leap
\* cycle, of a century and of an era.
LEMMA NextDated ==
  ASSUME NEW days \in Nat, NEW date, NEW era \in Nat,
         NEW k \in Centuries, NEW j \in Cycles, NEW i \in Years, NEW d \in Days,
         Dated(days, date, era, k, j, i, d)
  PROVE  \E era2 \in Nat, k2 \in Centuries, j2 \in Cycles, i2 \in Years, d2 \in Days :
           Dated(days + 1, NextDay(date), era2, k2, j2, i2, d2)
<1>1. PICK y \in Nat : y = 400 * era + (100 * k + 4 * j + i)
  BY SMT DEF Centuries, Cycles, Years
<1>2. PICK leap \in BOOLEAN : leap <=> Leap(y + 1)  BY Zenon
<1>3. leap <=> i = 3 /\ (j < 24 \/ k = 3)
  <2>1. PICK z \in Nat : z = y + 1  BY SMT
  <2>2. z = 400 * era + (100 * k + 4 * j + i) + 1
    BY <1>1, <2>1, SMT DEF Centuries, Cycles, Years
  <2>3. Leap(z) <=> i = 3 /\ (j < 24 \/ k = 3)  BY <2>2, LeapYears, SMT
  <2>4. QED  BY <1>2, <2>1, <2>3, SMT
<1>4. /\ d = 365 => leap
      /\ IsDay(days, era, DayOfEra(k, j, i, d))
      /\ date = DateOfYear(y, d)
  BY <1>1, <1>3, SMT DEF Dated, Exists
<1>5. NextDay(date) = IF d < 364 \/ (d = 364 /\ leap) THEN DateOfYear(y, d + 1) ELSE DateOfYear(y + 1, 0)
  BY <1>2, <1>4, NextCivil, SMT
<1>6. CASE d < 364 \/ (d = 364 /\ leap)
  <2>1. PICK e \in Days : e = d + 1  BY <1>6, SMT DEF Days
  <2>2. Dated(days + 1, NextDay(date), era, k, j, i, e)
    BY <1>1, <1>3, <1>4, <1>5, <1>6, <2>1, SMT
       DEF Dated, IsDay, Exists, DayOfEra, Days, Centuries, Cycles, Years
  <2>3. QED  BY <2>2, SMT
<1>7. CASE ~(d < 364 \/ (d = 364 /\ leap))
  <2>1. d = (IF leap THEN 365 ELSE 364) /\ NextDay(date) = DateOfYear(y + 1, 0)
    BY <1>4, <1>5, <1>7, SMT DEF Days
  <2>2. 0 \in Days /\ 0 \in Years /\ 0 \in Cycles /\ 0 \in Centuries
    BY SMT DEF Days, Years, Cycles, Centuries
  <2>3. CASE i < 3
    <3>1. PICK i2 \in Years : i2 = i + 1  BY <2>3, SMT DEF Years
    <3>2. Dated(days + 1, NextDay(date), era, k, j, i2, 0)
      BY <1>1, <1>3, <1>4, <2>1, <2>3, <3>1, SMT
         DEF Dated, IsDay, Exists, DayOfEra, Days, Centuries, Cycles, Years
    <3>3. QED  BY <2>2, <3>2, SMT
  <2>4. CASE i = 3 /\ j < 24
    <3>1. PICK j2 \in Cycles : j2 = j + 1  BY <2>4, SMT DEF Cycles
    <3>2. Dated(days + 1, NextDay(date), era, k, j2, 0, 0)
      BY <1>1, <1>3, <1>4, <2>1, <2>4, <3>1, SMT
         DEF Dated, IsDay, Exists, DayOfEra, Days, Centuries, Cycles, Years
    <3>3. QED  BY <2>2, <3>2, SMT
  <2>5. CASE i = 3 /\ j = 24 /\ k < 3
    <3>1. PICK k2 \in Centuries : k2 = k + 1  BY <2>5, SMT DEF Centuries
    <3>2. Dated(days + 1, NextDay(date), era, k2, 0, 0, 0)
      BY <1>1, <1>3, <1>4, <2>1, <2>5, <3>1, SMT
         DEF Dated, IsDay, Exists, DayOfEra, Days, Centuries, Cycles, Years
    <3>3. QED  BY <2>2, <3>2, SMT
  <2>6. CASE i = 3 /\ j = 24 /\ k = 3
    <3>1. PICK era2 \in Nat : era2 = era + 1
      BY SMT
    <3>2. Dated(days + 1, NextDay(date), era2, 0, 0, 0, 0)
      BY <1>1, <1>3, <1>4, <2>1, <2>6, <3>1, SMT
         DEF Dated, IsDay, Exists, DayOfEra, Days, Centuries, Cycles, Years
    <3>3. QED  BY <2>2, <3>2, SMT
  <2>7. i < 3 \/ (i = 3 /\ j < 24) \/ (i = 3 /\ j = 24 /\ k < 3) \/ (i = 3 /\ j = 24 /\ k = 3)
    BY SMT DEF Centuries, Cycles, Years
  <2>8. QED  BY <2>3, <2>4, <2>5, <2>6, <2>7, Zenon
<1>8. QED  BY <1>6, <1>7, SMT


\* The first day of 1970 is day 306 of the year that begins in March 1969.
LEMMA FirstDay == SweepInit => CalendarInv
<1>1. 4 \in Nat /\ 3 \in Centuries /\ 17 \in Cycles /\ 1 \in Years /\ 306 \in Days
  BY SMT DEF Centuries, Cycles, Years, Days
<1>2. DateOfYear(1969, 306) = [year |-> 1970, month |-> 1, day |-> 1]
  BY SMT DEF DateOfYear
<1>3. Dated(0, [year |-> 1970, month |-> 1, day |-> 1], 4, 3, 17, 1, 306)
  BY <1>2, SMT DEF Dated, IsDay, Exists, DayOfEra
<1>4. QED  BY <1>1, <1>3, SMT DEF SweepInit, CalendarInv

\* The calendar of the sweep agrees with the formula.
LEMMA CalendarSwept == ASSUME n \in Nat, CalendarInv PROVE CivilDate
<1>1. PICK era \in Nat, k \in Centuries, j \in Cycles, i \in Years, d \in Days :
        Dated(n, civil, era, k, j, i, d)
  BY SMT DEF CalendarInv
<1>2. QED  BY <1>1, DateOfDay, SMT DEF Dated, CivilDate

\* The calendar is counted on by one day in each step.
LEMMA CalendarStep == ASSUME n \in Nat, CalendarInv, [SweepNext]_sweep PROVE CalendarInv'
<1>1. CASE SweepNext
  <2>1. PICK era \in Nat, k \in Centuries, j \in Cycles, i \in Years, d \in Days :
          Dated(n, civil, era, k, j, i, d)
    BY SMT DEF CalendarInv
  <2>2. \E era2 \in Nat, k2 \in Centuries, j2 \in Cycles, i2 \in Years, d2 \in Days :
          Dated(n + 1, NextDay(civil), era2, k2, j2, i2, d2)
    BY <2>1, NextDated, SMT
  <2>3. QED  BY <1>1, <2>2, SMT DEF SweepNext, CalendarInv
<1>2. CASE UNCHANGED sweep  BY <1>2, SMT DEF sweep, CalendarInv
<1>3. QED  BY <1>1, <1>2, SMT

-----------------------------------------------------------------------------
(* Version negotiation and point-to-point links                            *)

\* generate_quic_version_negotiation checks both lengths before it reads the ids
\* and the whole answer before it writes: for every datagram.
LEMMA VnInside ==
  ASSUME NEW q \in [size : Nat, long : BOOLEAN, version : {"other", "own", "vn"},
                    dcid : Nat, scid : Nat],
         generate_quic_version_negotiation(q) # 0
  PROVE  /\ generate_quic_version_negotiation(q) <= VnOut
         /\ 7 + q.dcid + q.scid <= q.size /\ q.version = "other"
<1>1. PICK total \in Nat : total = 1 + 4 + 1 + q.scid + 1 + q.dcid + 8
  BY SMT
<1>2. /\ generate_quic_version_negotiation(q) = total
      /\ ~(total > VnOut) /\ ~(6 + q.dcid + 1 + q.scid > q.size)
      /\ q.version \notin {"vn", "own"}
  BY <1>1, SMT DEF generate_quic_version_negotiation
<1>3. QED  BY <1>1, <1>2, SMT DEF VnOut

\* The answer of version negotiation stays inside its buffer.
LEMMA VnSwept == ASSUME n \in Nat PROVE VnStaysInside
<1>1. SUFFICES
        \A s \in VnScids, size \in VnSizes, v \in VnVersions :
          LET q == [size |-> size, long |-> TRUE, version |-> v, dcid |-> n, scid |-> s]
              out == generate_quic_version_negotiation(q)
          IN out # 0 => out <= VnOut /\ 7 + n + s <= size /\ v = "other"
  BY Zenon DEF VnStaysInside
<1> TAKE s \in VnScids, size \in VnSizes, v \in VnVersions
<1> DEFINE q == [size |-> size, long |-> TRUE, version |-> v, dcid |-> n, scid |-> s]
<1>2. /\ q \in [size : Nat, long : BOOLEAN, version : {"other", "own", "vn"},
                dcid : Nat, scid : Nat]
      /\ q.size = size /\ q.version = v /\ q.dcid = n /\ q.scid = s
  BY SMT DEF VnScids, VnSizes, VnVersions
<1> HIDE DEF q
<1>3. generate_quic_version_negotiation(q) # 0 =>
        /\ generate_quic_version_negotiation(q) <= VnOut
        /\ 7 + q.dcid + q.scid <= q.size /\ q.version = "other"
  BY <1>2, VnInside, SMT
<1>4. generate_quic_version_negotiation(q) # 0 =>
        generate_quic_version_negotiation(q) <= VnOut /\ 7 + n + s <= size /\ v = "other"
  BY <1>2, <1>3, SMT
<1>5. QED  BY <1>4, Zenon DEF q

\* compute_p2p_peer on the three kinds of prefix.
LEMMA PeerOf31 ==
  ASSUME NEW octet \in 0..255
  PROVE  compute_p2p_peer(octet, 31) = IF octet % 2 = 0 THEN octet + 1 ELSE octet - 1
<1>1. 32 - 31 = 1 /\ 2 ^ 1 = 2
  BY SMT
<1>2. octet % 2 \in {0, 1}
  BY SMT
<1>3. QED  BY <1>1, <1>2, SMT DEF compute_p2p_peer

\* In a /30 the two hosts between network and broadcast are peers.
LEMMA PeerOf30 ==
  ASSUME NEW octet \in 0..255
  PROVE  compute_p2p_peer(octet, 30) = IF octet % 4 = 1 THEN octet + 1
                                       ELSE IF octet % 4 = 2 THEN octet - 1 ELSE NoPeer
<1>1. 32 - 30 = 2 /\ 2 ^ 2 = 4
  BY SMT
<1>2. octet % 4 \in 0..3
  BY SMT
<1>3. compute_p2p_peer(octet, 30)
        = IF octet % 4 # 0 /\ octet % 4 # 4 - 1
            THEN (octet - (octet % 4)) + (IF octet % 4 = 1 THEN 2 ELSE 1) ELSE NoPeer
  BY <1>1, SMT DEF compute_p2p_peer
<1>4. QED  BY <1>2, <1>3, SMT

\* A single address has no peer.
LEMMA PeerOf32 ==
  ASSUME NEW octet \in 0..255
  PROVE  compute_p2p_peer(octet, 32) = NoPeer
<1>1. 32 - 32 = 0 /\ 2 ^ 0 = 1
  BY SMT
<1>2. octet % 1 = 0
  BY SMT
<1>3. QED  BY <1>1, <1>2, SMT DEF compute_p2p_peer

\* compute_p2p_peer pairs the two hosts of a link.
LEMMA P2PSwept == ASSUME n \in Nat PROVE P2PPair
<1>1. SUFFICES ASSUME n <= 255, NEW prefix \in 0..32,
                      compute_p2p_peer(n, prefix) # NoPeer
               PROVE  /\ prefix \in {30, 31}
                      /\ compute_p2p_peer(n, prefix) # n
                      /\ (compute_p2p_peer(n, prefix) \div 2 ^ (32 - prefix)) = (n \div 2 ^ (32 - prefix))
                      /\ prefix = 30 => compute_p2p_peer(n, prefix) % 4 \in {1, 2}
                      /\ compute_p2p_peer(compute_p2p_peer(n, prefix), prefix) = n
  BY Zenon DEF P2PPair
<1>2. PICK x \in 0..255 : x = n  BY <1>1, SMT
<1>3. prefix \in {30, 31}
  <2>1. prefix < 30 => compute_p2p_peer(n, prefix) = NoPeer
    BY SMT DEF compute_p2p_peer
  <2>2. prefix = 32 => compute_p2p_peer(n, prefix) = NoPeer  BY <1>2, PeerOf32, SMT
  <2>3. QED  BY <1>1, <2>1, <2>2, SMT
<1>4. CASE prefix = 31
  <2>1. PICK p \in 0..255 : p = IF x % 2 = 0 THEN x + 1 ELSE x - 1
    BY SMT
  <2>2. compute_p2p_peer(x, 31) = p /\ compute_p2p_peer(p, 31) = IF p % 2 = 0 THEN p + 1 ELSE p - 1
    BY <2>1, PeerOf31, SMT
  <2>3. p # x /\ p \div 2 = x \div 2 /\ (IF p % 2 = 0 THEN p + 1 ELSE p - 1) = x
    BY <2>1, SMT
  <2>4. 2 ^ (32 - 31) = 2
    BY SMT
  <2>5. QED  BY <1>2, <1>4, <2>2, <2>3, <2>4, SMT
<1>5. CASE prefix = 30
  <2>1. x % 4 \in {1, 2}  BY <1>1, <1>2, <1>5, PeerOf30, SMT
  <2>2. PICK p \in 0..255 : p = IF x % 4 = 1 THEN x + 1 ELSE x - 1
    BY <2>1, SMT
  <2>3. compute_p2p_peer(x, 30) = p  BY <2>1, <2>2, PeerOf30, SMT
  <2>4. p # x /\ p \div 4 = x \div 4 /\ p % 4 \in {1, 2} /\ p % 4 # x % 4
    BY <2>1, <2>2, SMT
  <2>5. compute_p2p_peer(p, 30) = IF p % 4 = 1 THEN p + 1 ELSE p - 1
    BY <2>4, PeerOf30, SMT
  <2>6. (IF p % 4 = 1 THEN p + 1 ELSE p - 1) = x
    BY <2>1, <2>2, <2>4, SMT
  <2>7. 2 ^ (32 - 30) = 4
    BY SMT
  <2>8. QED  BY <1>2, <1>5, <2>3, <2>4, <2>5, <2>6, <2>7, SMT
<1>6. QED  BY <1>3, <1>4, <1>5, SMT

-----------------------------------------------------------------------------
(* Base64: induction over the groups                                       *)

\* Every nonempty set of numbers has a least element.
LEMMA Least ==
  ASSUME NEW T, T \subseteq Nat, T # {}
  PROVE  \E x \in T : \A y \in T : x <= y
<1> DEFINE R == {ss \in Nat \X Nat : ss[1] < ss[2]}
<1>1. IsWellFoundedOn(R, Nat)  BY NatLessThanWellFounded, Zenon DEF OpToRel
<1>2. \E x \in T : \A y \in T : ~ (<<y, x>> \in R)  BY <1>1, WFMin, Zenon
<1>3. \A x, y \in Nat : y < x => <<y, x>> \in R
  OBVIOUS
<1> HIDE DEF R
<1>4. PICK x \in T : \A y \in T : ~ (<<y, x>> \in R)  BY <1>2
<1>5. \A y \in T : x \in Nat /\ y \in Nat /\ ~ (y < x)  BY <1>3, <1>4, Zenon
<1>6. \A y \in T : x <= y  BY <1>5
<1>7. QED  BY <1>6

\* Induction: a set that holds 0 and the successors of its elements up to m is
\* all of 0..m.
LEMMA UpTo ==
  ASSUME NEW m \in Nat, NEW S, 0 \in S, \A k \in 0..m : k \in S /\ k < m => k + 1 \in S
  PROVE  \A k \in 0..m : k \in S
<1> DEFINE T == {k \in 0..m : k \notin S}
<1>1. SUFFICES ASSUME T # {} PROVE FALSE
  OBVIOUS
<1>2. T \subseteq Nat
  OBVIOUS
<1>3. PICK x \in T : \A y \in T : x <= y
  BY <1>1, <1>2, Least, Zenon
<1>4. x \in 1..m /\ x - 1 \in 0..m /\ x - 1 \notin T  BY <1>3
<1>5. QED  BY <1>4

Bytes == 0..255
Symbols == 0..63

\* The symbols of a group of bytes, and the bytes of a group of symbols.
Symbol1(x) == x \div 4
Symbol2(x, y) == 16 * (x % 4) + (y \div 16)
Symbol3(y, z) == 4 * (y % 16) + (z \div 64)
Symbol4(z) == z % 64
Byte1(a, b) == 4 * a + (b \div 16)
Byte2(b, c) == (16 * b + (c \div 4)) % 256
Byte3(c, d) == (64 * c + d) % 256

\* What the four symbols of a group carry of its three bytes.
LEMMA Sextets ==
  ASSUME NEW x \in Bytes, NEW y \in Bytes, NEW z \in Bytes
  PROVE  /\ Symbol1(x) \in Symbols /\ Symbol2(x, y) \in Symbols
         /\ Symbol3(y, z) \in Symbols /\ Symbol4(z) \in Symbols
         /\ Byte1(Symbol1(x), Symbol2(x, y)) = x
         /\ Byte2(Symbol2(x, y), Symbol3(y, z)) = y
         /\ Byte3(Symbol3(y, z), Symbol4(z)) = z
<1> USE DEF Bytes
<1>1. PICK a \in 0..63 : a = x \div 4
  BY SMT
<1>2. PICK b \in 0..3 : b = x % 4
  BY SMT
<1>3. PICK c \in 0..15 : c = y \div 16
  BY SMT
<1>4. PICK d \in 0..15 : d = y % 16
  BY SMT
<1>5. PICK e \in 0..3 : e = z \div 64
  BY SMT
<1>6. PICK f \in 0..63 : f = z % 64
  BY SMT
<1>7. x = 4 * a + b /\ y = 16 * c + d /\ z = 64 * e + f
  BY <1>1, <1>2, <1>3, <1>4, <1>5, <1>6, SMT
<1>8. /\ 4 * a + ((16 * b + c) \div 16) = 4 * a + b
      /\ (16 * (16 * b + c) + ((4 * d + e) \div 4)) % 256 = 16 * c + d
      /\ (64 * (4 * d + e) + f) % 256 = 64 * e + f
  BY SMT
<1>9. 16 * b + c \in 0..63 /\ 4 * d + e \in 0..63
  BY SMT
<1>10. /\ Symbol1(x) = a /\ Symbol2(x, y) = 16 * b + c
       /\ Symbol3(y, z) = 4 * d + e /\ Symbol4(z) = f
  BY <1>1, <1>2, <1>3, <1>4, <1>5, <1>6, SMT DEF Symbol1, Symbol2, Symbol3, Symbol4
<1>11. /\ Byte1(a, 16 * b + c) = x
       /\ Byte2(16 * b + c, 4 * d + e) = y
       /\ Byte3(4 * d + e, f) = z
  BY <1>7, <1>8, SMT DEF Byte1, Byte2, Byte3
<1>12. a \in Symbols /\ 16 * b + c \in Symbols /\ 4 * d + e \in Symbols /\ f \in Symbols
  BY <1>9, SMT DEF Symbols
<1>13. QED  BY <1>10, <1>11, <1>12, Zenon

\* A group that is full, or lacks one or two bytes, as decode_group reads it.
LEMMA GroupOfThree ==
  ASSUME NEW q, NEW x \in Bytes, NEW y \in Bytes, NEW z \in Bytes,
         q[1] = Symbol1(x), q[2] = Symbol2(x, y), q[3] = Symbol3(y, z), q[4] = Symbol4(z)
  PROVE  decode_group(q) = <<x>> \o <<y>> \o <<z>>
<1>1. q[1] \in Symbols /\ q[2] \in Symbols /\ q[3] \in Symbols /\ q[4] \in Symbols
  BY Sextets
<1>2. q[1] # Equals /\ q[2] # Equals /\ q[3] # Equals /\ q[4] # Equals
  BY <1>1, SMT DEF Symbols, Equals
<1>3. decode_group(q) = <<Byte1(q[1], q[2])>> \o <<Byte2(q[2], q[3])>> \o <<Byte3(q[3], q[4])>>
  BY <1>2, SMT DEF decode_group, Byte1, Byte2, Byte3
<1>4. Byte1(q[1], q[2]) = x /\ Byte2(q[2], q[3]) = y /\ Byte3(q[3], q[4]) = z
  BY Sextets
<1>5. QED  BY <1>3, <1>4

\* A group with one sign of padding gives back its two bytes.
LEMMA GroupOfTwo ==
  ASSUME NEW q, NEW x \in Bytes, NEW y \in Bytes,
         q[1] = Symbol1(x), q[2] = Symbol2(x, y), q[3] = Symbol3(y, 0), q[4] = Equals
  PROVE  decode_group(q) = <<x>> \o <<y>>
<1>0. 0 \in Bytes  BY SMT DEF Bytes
<1>1. q[1] \in Symbols /\ q[2] \in Symbols /\ q[3] \in Symbols  BY <1>0, Sextets
<1>2. q[1] # Equals /\ q[2] # Equals /\ q[3] # Equals
  BY <1>1, SMT DEF Symbols, Equals
<1>3. decode_group(q) = <<Byte1(q[1], q[2])>> \o <<Byte2(q[2], q[3])>> \o <<>>
  BY <1>2, SMT DEF decode_group, Byte1, Byte2
<1>4. Byte1(q[1], q[2]) = x /\ Byte2(q[2], q[3]) = y  BY <1>0, Sextets
<1>5. <<x>> \in Seq(Bytes) /\ <<y>> \in Seq(Bytes)
  OBVIOUS
<1>6. (<<x>> \o <<y>>) \o <<>> = <<x>> \o <<y>>
  BY <1>5, ConcatProperties, ConcatEmptySeq
<1>7. QED  BY <1>3, <1>4, <1>6

\* A group with two signs of padding gives back its byte.
LEMMA GroupOfOne ==
  ASSUME NEW q, NEW x \in Bytes,
         q[1] = Symbol1(x), q[2] = Symbol2(x, 0), q[3] = Equals, q[4] = Equals
  PROVE  decode_group(q) = <<x>>
<1>0. 0 \in Bytes  BY SMT DEF Bytes
<1>1. q[1] \in Symbols /\ q[2] \in Symbols  BY <1>0, Sextets
<1>2. q[1] # Equals /\ q[2] # Equals
  BY <1>1, SMT DEF Symbols, Equals
<1>3. decode_group(q) = <<Byte1(q[1], q[2])>> \o <<>> \o <<>>
  BY <1>2, SMT DEF decode_group, Byte1
<1>4. Byte1(q[1], q[2]) = x  BY <1>0, Sextets
<1>5. <<x>> \in Seq(Bytes)
  OBVIOUS
<1>6. (<<x>> \o <<>>) \o <<>> = <<x>>
  BY <1>5, ConcatProperties, ConcatEmptySeq
<1>7. QED  BY <1>3, <1>4, <1>6

\* Byte k of group h, 0 past the end; groups and the bytes in them count from 0.
ByteOf(in, h, k) == IF 3 * h + k < Len(in) THEN in[3 * h + k + 1] ELSE 0

\* The four symbols that encode writes for a group.
LEMMA EncodedGroup ==
  ASSUME NEW in \in Seq(Bytes), NEW h \in Nat, 3 * h < Len(in)
  PROVE  /\ encode(in)[4 * h + 1] = Symbol1(ByteOf(in, h, 0))
         /\ encode(in)[4 * h + 2] = Symbol2(ByteOf(in, h, 0), ByteOf(in, h, 1))
         /\ encode(in)[4 * h + 3] = IF 3 * h + 1 < Len(in)
              THEN Symbol3(ByteOf(in, h, 1), ByteOf(in, h, 2)) ELSE Equals
         /\ encode(in)[4 * h + 4] = IF 3 * h + 2 < Len(in)
              THEN Symbol4(ByteOf(in, h, 2)) ELSE Equals
<1>1. PICK m \in Nat : m = Len(in)  BY LenProperties
<1>2. 4 * h + 4 <= b64_len(Len(in)) /\ b64_len(Len(in)) \in Nat  BY <1>1, SMT DEF b64_len
<1>3. SUFFICES ASSUME NEW r \in 0..3
      PROVE  encode(in)[4 * h + r + 1] =
               CASE r = 0 -> Symbol1(ByteOf(in, h, 0))
                 [] r = 1 -> Symbol2(ByteOf(in, h, 0), ByteOf(in, h, 1))
                 [] r = 2 -> IF 3 * h + 1 < Len(in)
                               THEN Symbol3(ByteOf(in, h, 1), ByteOf(in, h, 2)) ELSE Equals
                 [] r = 3 -> IF 3 * h + 2 < Len(in) THEN Symbol4(ByteOf(in, h, 2)) ELSE Equals
  <2>1. /\ 0 \in 0..3 /\ 1 \in 0..3 /\ 2 \in 0..3 /\ 3 \in 0..3
        /\ 4 * h + 0 + 1 = 4 * h + 1 /\ 4 * h + 1 + 1 = 4 * h + 2
        /\ 4 * h + 2 + 1 = 4 * h + 3 /\ 4 * h + 3 + 1 = 4 * h + 4
    BY SMT
  <2>2. QED  BY <2>1, SMT
<1>4. PICK o \in Nat : o = 4 * h + r + 1
  BY SMT
<1>5. o \in 1..b64_len(Len(in)) /\ (o - 1) \div 4 = h /\ (o - 1) % 4 = r
  BY <1>2, <1>4, SMT
<1>6. 3 * h + 0 = 3 * h
  BY SMT
<1>7. encode(in)[o] =
        CASE r = 0 -> ByteOf(in, h, 0) \div 4
          [] r = 1 -> 16 * (ByteOf(in, h, 0) % 4) + (ByteOf(in, h, 1) \div 16)
          [] r = 2 -> IF 3 * h + 1 < Len(in)
                        THEN 4 * (ByteOf(in, h, 1) % 16) + (ByteOf(in, h, 2) \div 64) ELSE Equals
          [] r = 3 -> IF 3 * h + 2 < Len(in) THEN ByteOf(in, h, 2) % 64 ELSE Equals
  BY <1>5, SMT DEF encode, ByteOf
<1>8. QED  BY <1>4, <1>7, SMT DEF Symbol1, Symbol2, Symbol3, Symbol4

\* One, two and three bytes in a row.
LEMMA ShortSubSeqs ==
  ASSUME NEW in \in Seq(Bytes), NEW a \in Nat, 1 <= a
  PROVE  /\ a <= Len(in) => SubSeq(in, a, a) = <<in[a]>>
         /\ a + 1 <= Len(in) => SubSeq(in, a, a + 1) = <<in[a]>> \o <<in[a + 1]>>
         /\ a + 2 <= Len(in) => SubSeq(in, a, a + 2) = <<in[a]>> \o <<in[a + 1]>> \o <<in[a + 2]>>
<1>1. PICK m \in Nat : m = Len(in)  BY LenProperties
<1>2. ASSUME a <= m PROVE SubSeq(in, a, a) = <<in[a]>>
  <2>1. a \in 1..Len(in) /\ a \in a..Len(in)  BY <1>1, <1>2
  <2>2. SubSeq(in, a, a) = SubSeq(in, a, a - 1) \o <<in[a]>>  BY <2>1, SubSeqRecursiveSecond
  <2>3. SubSeq(in, a, a - 1) = <<>>
    <3>1. a \in Int /\ a - 1 \in Int /\ a - 1 < a
      OBVIOUS
    <3>2. QED  BY <3>1, SubSeqEmpty
  <2>4. <<in[a]>> \in Seq(Bytes)  BY <2>1, ElementOfSeq
  <2>5. QED  BY <2>2, <2>3, <2>4, ConcatEmptySeq, Zenon
<1>3. ASSUME a + 1 <= m PROVE SubSeq(in, a, a + 1) = <<in[a]>> \o <<in[a + 1]>>
  <2>1. PICK b \in Nat : b = a + 1
    OBVIOUS
  <2>2. a \in 1..Len(in) /\ b \in a..Len(in) /\ b - 1 = a /\ a <= m  BY <1>1, <1>3, <2>1
  <2>3. SubSeq(in, a, b) = SubSeq(in, a, b - 1) \o <<in[b]>>  BY <2>2, SubSeqRecursiveSecond
  <2>4. QED  BY <1>2, <2>1, <2>2, <2>3
<1>4. ASSUME a + 2 <= m
      PROVE  SubSeq(in, a, a + 2) = <<in[a]>> \o <<in[a + 1]>> \o <<in[a + 2]>>
  <2>1. PICK b \in Nat : b = a + 2
    OBVIOUS
  <2>2. a \in 1..Len(in) /\ b \in a..Len(in) /\ b - 1 = a + 1 /\ a + 1 <= m
    BY <1>1, <1>4, <2>1
  <2>3. SubSeq(in, a, b) = SubSeq(in, a, b - 1) \o <<in[b]>>  BY <2>2, SubSeqRecursiveSecond
  <2>4. QED  BY <1>3, <2>1, <2>2, <2>3
<1>5. QED  BY <1>1, <1>2, <1>3, <1>4

\* decode_group takes back a group of encode.
LEMMA DecodedGroup ==
  ASSUME NEW in \in Seq(Bytes), NEW h \in Nat, 3 * h < Len(in)
  PROVE  decode_group(SubSeq(encode(in), 4 * h + 1, 4 * h + 4))
           = SubSeq(in, 3 * h + 1, IF 3 * h + 3 <= Len(in) THEN 3 * h + 3 ELSE Len(in))
<1>1. PICK m \in Nat : m = Len(in)  BY LenProperties
<1>2. PICK a \in Nat : a = 3 * h + 1
  OBVIOUS
<1> DEFINE q == SubSeq(encode(in), 4 * h + 1, 4 * h + 4)
<1>3. /\ q[1] = encode(in)[4 * h + 1] /\ q[2] = encode(in)[4 * h + 2]
      /\ q[3] = encode(in)[4 * h + 3] /\ q[4] = encode(in)[4 * h + 4]
  <2> DEFINE e == encode(in)
             S == {e[x] : x \in Int}
  <2>1. PICK lo \in Int : lo = 4 * h + 1
    OBVIOUS
  <2>2. PICK hi \in Int : hi = 4 * h + 4
    OBVIOUS
  <2>3. \A x \in lo..hi : e[x] \in S
    OBVIOUS
  <2> HIDE DEF e, S
  <2>4. \A x \in 1..(hi - lo + 1) : SubSeq(e, lo, hi)[x] = e[lo + x - 1]
    BY <2>3, SubSeqProperties
  <2>5. /\ 1 \in 1..(hi - lo + 1) /\ 2 \in 1..(hi - lo + 1)
        /\ 3 \in 1..(hi - lo + 1) /\ 4 \in 1..(hi - lo + 1)
        /\ lo + 1 - 1 = 4 * h + 1 /\ lo + 2 - 1 = 4 * h + 2
        /\ lo + 3 - 1 = 4 * h + 3 /\ lo + 4 - 1 = 4 * h + 4
    BY <2>1, <2>2
  <2>6. /\ SubSeq(e, lo, hi)[1] = e[4 * h + 1] /\ SubSeq(e, lo, hi)[2] = e[4 * h + 2]
        /\ SubSeq(e, lo, hi)[3] = e[4 * h + 3] /\ SubSeq(e, lo, hi)[4] = e[4 * h + 4]
    BY <2>4, <2>5
  <2>7. QED  BY <2>1, <2>2, <2>6 DEF e
<1> HIDE DEF q
<1>4. 1 <= a /\ a <= m /\ a + 1 = 3 * h + 2 /\ a + 2 = 3 * h + 3  BY <1>1, <1>2
<1>5. /\ encode(in)[4 * h + 1] = Symbol1(ByteOf(in, h, 0))
      /\ encode(in)[4 * h + 2] = Symbol2(ByteOf(in, h, 0), ByteOf(in, h, 1))
      /\ encode(in)[4 * h + 3] = IF 3 * h + 1 < Len(in)
           THEN Symbol3(ByteOf(in, h, 1), ByteOf(in, h, 2)) ELSE Equals
      /\ encode(in)[4 * h + 4] = IF 3 * h + 2 < Len(in)
           THEN Symbol4(ByteOf(in, h, 2)) ELSE Equals
  BY EncodedGroup, Zenon
<1>6. CASE a + 2 <= m
  <2>1. /\ ByteOf(in, h, 0) = in[a] /\ ByteOf(in, h, 1) = in[a + 1] /\ ByteOf(in, h, 2) = in[a + 2]
        /\ in[a] \in Bytes /\ in[a + 1] \in Bytes /\ in[a + 2] \in Bytes
    <3>1. a \in 1..Len(in) /\ a + 1 \in 1..Len(in) /\ a + 2 \in 1..Len(in)
      BY <1>1, <1>4, <1>6
    <3>2. in[a] \in Bytes /\ in[a + 1] \in Bytes /\ in[a + 2] \in Bytes
      BY <3>1, ElementOfSeq
    <3>3. QED  BY <1>1, <1>2, <1>6, <3>2, SMT DEF ByteOf
  <2>2. /\ q[1] = Symbol1(in[a]) /\ q[2] = Symbol2(in[a], in[a + 1])
        /\ q[3] = Symbol3(in[a + 1], in[a + 2]) /\ q[4] = Symbol4(in[a + 2])
    <3>1. 3 * h + 1 < Len(in) /\ 3 * h + 2 < Len(in)
      BY <1>1, <1>2, <1>6
    <3>2. QED  BY <1>3, <1>5, <2>1, <3>1
  <2>3. decode_group(q) = <<in[a]>> \o <<in[a + 1]>> \o <<in[a + 2]>>
    BY <2>1, <2>2, GroupOfThree, Zenon
  <2>4. SubSeq(in, a, a + 2) = <<in[a]>> \o <<in[a + 1]>> \o <<in[a + 2]>>
    BY <1>1, <1>4, <1>6, ShortSubSeqs, Zenon
  <2>5. 3 * h + 1 = a /\ (IF 3 * h + 3 <= Len(in) THEN 3 * h + 3 ELSE Len(in)) = a + 2
    BY <1>1, <1>2, <1>4, <1>6
  <2>6. QED  BY <2>3, <2>4, <2>5, Zenon DEF q
<1>7. CASE a + 1 = m
  <2>1. /\ ByteOf(in, h, 0) = in[a] /\ ByteOf(in, h, 1) = in[a + 1] /\ ByteOf(in, h, 2) = 0
        /\ in[a] \in Bytes /\ in[a + 1] \in Bytes
    <3>1. a \in 1..Len(in) /\ a + 1 \in 1..Len(in)
      BY <1>1, <1>4, <1>7
    <3>2. in[a] \in Bytes /\ in[a + 1] \in Bytes
      BY <3>1, ElementOfSeq
    <3>3. QED  BY <1>1, <1>2, <1>7, <3>2, SMT DEF ByteOf
  <2>2. /\ q[1] = Symbol1(in[a]) /\ q[2] = Symbol2(in[a], in[a + 1])
        /\ q[3] = Symbol3(in[a + 1], 0) /\ q[4] = Equals
    <3>1. 3 * h + 1 < Len(in) /\ ~(3 * h + 2 < Len(in))
      BY <1>1, <1>2, <1>7
    <3>2. QED  BY <1>3, <1>5, <2>1, <3>1
  <2>3. decode_group(q) = <<in[a]>> \o <<in[a + 1]>>
    BY <2>1, <2>2, GroupOfTwo, Zenon
  <2>4. SubSeq(in, a, a + 1) = <<in[a]>> \o <<in[a + 1]>>
    <3>1. a + 1 <= Len(in)  BY <1>1, <1>7
    <3>2. QED  BY <1>4, <3>1, ShortSubSeqs, Zenon
  <2>5. 3 * h + 1 = a /\ (IF 3 * h + 3 <= Len(in) THEN 3 * h + 3 ELSE Len(in)) = a + 1
    BY <1>1, <1>2, <1>4, <1>7
  <2>6. QED  BY <2>3, <2>4, <2>5, Zenon DEF q
<1>8. CASE a = m
  <2>1. /\ ByteOf(in, h, 0) = in[a] /\ ByteOf(in, h, 1) = 0 /\ in[a] \in Bytes
    <3>1. a \in 1..Len(in)
      BY <1>1, <1>4, <1>8
    <3>2. in[a] \in Bytes
      BY <3>1, ElementOfSeq
    <3>3. QED  BY <1>1, <1>2, <1>8, <3>2, SMT DEF ByteOf
  <2>2. q[1] = Symbol1(in[a]) /\ q[2] = Symbol2(in[a], 0) /\ q[3] = Equals /\ q[4] = Equals
    <3>1. ~(3 * h + 1 < Len(in)) /\ ~(3 * h + 2 < Len(in))
      BY <1>1, <1>2, <1>8
    <3>2. QED  BY <1>3, <1>5, <2>1, <3>1
  <2>3. decode_group(q) = <<in[a]>>
    BY <2>1, <2>2, GroupOfOne
  <2>4. SubSeq(in, a, a) = <<in[a]>>
    BY <1>1, <1>4, <1>8, ShortSubSeqs, Zenon
  <2>5. 3 * h + 1 = a /\ (IF 3 * h + 3 <= Len(in) THEN 3 * h + 3 ELSE Len(in)) = a
    BY <1>1, <1>2, <1>4, <1>8
  <2>6. QED  BY <2>3, <2>4, <2>5, Zenon DEF q
<1>9. a + 2 <= m \/ a + 1 = m \/ a = m  BY <1>4
<1>10. QED  BY <1>6, <1>7, <1>8, <1>9, Zenon

\* decode takes back what encode wrote, for any bytes and any length: after g
\* groups its output is the first 3 * g bytes.
THEOREM Base64Correct == \A in \in Seq(Bytes) : decode(encode(in)) = in
<1>1. SUFFICES ASSUME NEW in \in Seq(Bytes) PROVE decode(encode(in)) = in
  OBVIOUS
<1>2. PICK m \in Nat : m = Len(in)  BY LenProperties
<1> DEFINE e == encode(in)
           groups == Len(e) \div 4
           q(g) == decode_group(SubSeq(e, 4 * g - 3, 4 * g))
           Unrolled(f) == [g \in 0..groups |-> IF g = 0 THEN <<>> ELSE f[g - 1] \o q(g)]
           F == CHOOSE f : f = Unrolled(f)
           End(g) == IF 3 * g <= m THEN 3 * g ELSE m
           W == [g \in 0..groups |-> SubSeq(in, 1, End(g))]
<1>3. Len(e) = 4 * ((m + 2) \div 3)  BY <1>2 DEF encode, b64_len
<1>4. groups \in Nat /\ groups = (m + 2) \div 3 /\ Len(e) % 4 = 0  BY <1>3
<1>5. decode(e) = F[groups]
  <2> HIDE DEF e
  <2>1. QED  BY <1>4 DEF decode
<1> HIDE DEF groups
<1>6. \A g \in 1..groups : q(g) = SubSeq(in, 3 * g - 2, End(g))
  <2>1. SUFFICES ASSUME NEW g \in 1..groups PROVE q(g) = SubSeq(in, 3 * g - 2, End(g))
    OBVIOUS
  <2>2. PICK h \in Nat : h = g - 1  BY <1>4
  <2>3. 3 * h < Len(in)  BY <1>2, <1>4, <2>2
  <2>4. 4 * g - 3 = 4 * h + 1 /\ 4 * g = 4 * h + 4 /\ 3 * g - 2 = 3 * h + 1 /\ 3 * g = 3 * h + 3
    BY <1>4, <2>2
  <2>5. q(g) = decode_group(SubSeq(e, 4 * h + 1, 4 * h + 4))  BY <2>4
  <2>6. End(g) = IF 3 * h + 3 <= Len(in) THEN 3 * h + 3 ELSE Len(in)  BY <1>2, <2>4
  <2>7. QED  BY <2>3, <2>4, <2>5, <2>6, DecodedGroup, Zenon
<1>7. \A g \in 1..groups : End(g) \in Nat /\ End(g) >= 3 * g - 2 /\ End(g) <= m
  BY <1>4
<1> HIDE DEF q
<1>8. W[0] = <<>>
  <2>1. 0 \in 0..groups /\ End(0) = 0  BY <1>4
  <2>2. SubSeq(in, 1, 0) = <<>>
    <3>1. 0 \in Int /\ 1 \in Int /\ 0 < 1
      OBVIOUS
    <3>2. QED  BY <3>1, SubSeqEmpty
  <2> HIDE DEF End
  <2>3. QED  BY <2>1, <2>2
<1>9. \A g \in 1..groups : W[g] = W[g - 1] \o q(g)
  <2>1. SUFFICES ASSUME NEW g \in 1..groups PROVE W[g] = W[g - 1] \o q(g)
    BY Zenon
  <2>2. g \in 0..groups /\ g - 1 \in 0..groups  BY <1>4
  <2>3. PICK k \in Nat : k = 3 * g - 3  BY <1>4
  <2>4. End(g - 1) = k  BY <1>4, <2>3
  <2> HIDE DEF End
  <2>5. PICK x \in Nat : x = End(g)  BY <1>7
  <2>6. /\ 1 \in 1..(Len(in) + 1) /\ k \in (1 - 1)..Len(in) /\ x \in k..Len(in)
        /\ 3 * g - 2 = k + 1
    BY <1>2, <1>4, <1>7, <2>3, <2>5
  <2>7. SubSeq(in, 1, k) \o SubSeq(in, k + 1, x) = SubSeq(in, 1, x)
    BY <2>6, ConcatAdjacentSubSeq
  <2>8. W[g] = SubSeq(in, 1, x) /\ W[g - 1] = SubSeq(in, 1, k)  BY <2>2, <2>4, <2>5
  <2>9. q(g) = SubSeq(in, k + 1, x)  BY <1>6, <2>5, <2>6
  <2>10. QED  BY <2>7, <2>8, <2>9, Zenon
<1>10. W[groups] = in
  <2>1. groups \in 0..groups /\ End(groups) = Len(in)  BY <1>2, <1>4
  <2> HIDE DEF End
  <2>2. QED  BY <2>1, SubSeqFull
<1>11. W = Unrolled(W)
  <2>1. DOMAIN W = 0..groups
    OBVIOUS
  <2>2. W = [g \in 0..groups |-> W[g]]
    OBVIOUS
  <2> HIDE DEF W
  <2>3. \A g \in 0..groups : W[g] = IF g = 0 THEN <<>> ELSE W[g - 1] \o q(g)
    <3>1. \A g \in 0..groups : g # 0 => g \in 1..groups  BY <1>4
    <3>2. QED  BY <1>8, <1>9, <3>1, Zenon
  <2>4. QED  BY <2>2, <2>3
<1>12. F = Unrolled(F)
  <2> HIDE DEF Unrolled, W
  <2>1. QED  BY <1>11
<1> HIDE DEF W, F
<1>13. \A g \in 0..groups : F[g] = IF g = 0 THEN <<>> ELSE F[g - 1] \o q(g)
  BY <1>12, Zenon
<1> DEFINE S == {g \in 0..groups : F[g] = W[g]}
<1>14. 0 \in S  BY <1>4, <1>8, <1>13
<1>15. \A g \in 0..groups : g \in S /\ g < groups => g + 1 \in S
  <2>1. SUFFICES ASSUME NEW g \in 0..groups, F[g] = W[g], g < groups
                 PROVE  g + 1 \in 0..groups /\ F[g + 1] = W[g + 1]
    OBVIOUS
  <2>2. PICK h \in 1..groups : h = g + 1  BY <1>4, <2>1
  <2>3. h \in 0..groups /\ h # 0 /\ h - 1 = g  BY <1>4, <2>2
  <2>4. F[h] = F[g] \o q(h)  BY <1>13, <2>3
  <2>5. W[h] = W[g] \o q(h)  BY <1>9, <2>3
  <2>6. QED  BY <2>1, <2>2, <2>3, <2>4, <2>5
<1>16. groups \in S
  <2> HIDE DEF S
  <2>1. \A g \in 0..groups : g \in S  BY <1>4, <1>14, <1>15, UpTo
  <2>2. QED  BY <1>4, <2>1
<1>17. QED  BY <1>5, <1>10, <1>16

-----------------------------------------------------------------------------
(* All of the helpers                                                      *)

\* The byte strings of the sweep are decoded to themselves.
LEMMA Base64Swept == ASSUME n \in Nat PROVE Base64RoundTrip
<1>1. SUFFICES ASSUME n <= 255, NEW len \in 0..4, NEW in \in [1..len -> {n, 0, 255}]
               PROVE  decode(encode(in)) = in
  BY Zenon DEF Base64RoundTrip
<1>2. {n, 0, 255} \subseteq Bytes  BY <1>1, SMT DEF Bytes
<1>3. in \in Seq({n, 0, 255})  BY SMT
<1>4. in \in Seq(Bytes)  BY <1>2, <1>3, SeqMonotonic
<1>5. QED  BY <1>4, Base64Correct

HelpersInv == IsNat /\ CalendarInv

\* The counter is a number and the calendar is right at every step of the sweep.
LEMMA HelpersInvHolds == SweepSpec => []HelpersInv
<1>1. SweepInit => HelpersInv  BY FirstDay, SMT DEF SweepInit, IsNat, HelpersInv
<1>2. HelpersInv /\ [SweepNext]_sweep => HelpersInv'
  <2>1. SUFFICES ASSUME HelpersInv, [SweepNext]_sweep PROVE HelpersInv'
    OBVIOUS
  <2>2. n \in Nat /\ CalendarInv  BY <2>1 DEF HelpersInv, IsNat
  <2>3. n' \in Nat  BY <2>1, <2>2, SMT DEF SweepNext, sweep
  <2>4. CalendarInv'  BY <2>1, <2>2, CalendarStep
  <2>5. QED  BY <2>3, <2>4 DEF HelpersInv, IsNat
<1>3. QED  BY <1>1, <1>2, PTL DEF SweepSpec

\* The date that format_sip_date_only writes is the Gregorian date of every day
\* from 1970-01-01 on, without end.
THEOREM DateIsGregorian == SweepSpec => []CivilDate
<1>1. HelpersInv => CivilDate  BY CalendarSwept DEF HelpersInv, IsNat
<1>2. QED  BY <1>1, HelpersInvHolds, PTL

\* The version negotiation answer keeps to its buffers, Base64 is undone by
\* decode, the date is the Gregorian one, and the two ends of a point-to-point
\* link name each other.
THEOREM HelpersAreCorrect == SweepSpec => []HelpersCorrect
<1>1. HelpersInv => HelpersCorrect
  <2>1. SUFFICES ASSUME HelpersInv PROVE HelpersCorrect
    OBVIOUS
  <2>2. n \in Nat /\ CalendarInv  BY <2>1 DEF HelpersInv, IsNat
  <2>3. VnStaysInside /\ Base64RoundTrip /\ CivilDate /\ P2PPair
    BY <2>2, VnSwept, Base64Swept, CalendarSwept, P2PSwept
  <2>4. QED  BY <2>3 DEF HelpersCorrect
<1>2. QED  BY <1>1, HelpersInvHolds, PTL
=============================================================================

---------------------------- MODULE TunnelProofs ----------------------------
(***************************************************************************)
(* The tunnel for any ports, hosts, modes and datagrams: what is in flight *)
(* between a client and a server with a fixed peer, and what the two make  *)
(* of it.  What is known of the codec comes from FormatsProofs.            *)
(***************************************************************************)
EXTENDS FormatsProofs, Tunnel

-----------------------------------------------------------------------------
(* Packets of the tunnel                                                   *)

\* A packet of the tunnel as a case of the codec.
CaseOf(w, obfs, srv, draw, look) ==
  [type |-> w.type, len |-> w.len, id |-> w.id, obfs |-> obfs, srv |-> srv,
   draw |-> draw, key |-> Key, look |-> look]

\* A packet without the word that obfs_verify compares.
Wordless(wire) == wire.head.ppn = <<>>

\* What either side of the tunnel packs is a case of the lemmas above.
LEMMA CaseOfIs ==
    ASSUME NEW w \in CliPkts \cup SrvPkts, NEW obfs \in Modes, NEW srv \in BOOLEAN,
           NEW draw \in Draws, NEW look
    PROVE  /\ IsCase(CaseOf(w, obfs, srv, draw, look))
           /\ Sent(CaseOf(w, obfs, srv, draw, look)) = w
           /\ Encap(CaseOf(w, obfs, srv, draw, look)) = Packed(w, obfs, srv, draw, look)
<1> DEFINE c == CaseOf(w, obfs, srv, draw, look)
<1>1. /\ c.type = w.type /\ c.len = w.len /\ c.id = w.id /\ c.obfs = obfs /\ c.srv = srv
      /\ c.draw = draw /\ c.key = Key /\ c.look = look
  BY DEF CaseOf
<1>2. w.type \in 1..4 /\ w.len \in Nat /\ w.len >= 32 /\ w = Datagram(w.type, w.len, w.id)
  BY PktsAssumption
<1> HIDE DEF c
<1>3. IsCase(c)  BY <1>1, <1>2, DrawsAssumption DEF IsCase
<1>4. Sent(c) = w  BY <1>1, <1>2 DEF Sent
<1>5. Encap(c) = Packed(w, obfs, srv, draw, look)  BY <1>1, <1>4 DEF Encap, Packed
<1>6. QED  BY <1>3, <1>4, <1>5 DEF c

\* The fields of a header and of a packet.
IsHead(h) ==
  \E hdr, look, dcid, ppn, ports, byte :
    h = [hdr |-> hdr, look |-> look, dcid |-> dcid, ppn |-> ppn, ports |-> ports,
         padbyte |-> byte]

IsWire(wire) == \E l, h, b : IsHead(h) /\ wire = [len |-> l, head |-> h, body |-> b]

\* Every function that writes a header gives all of its fields.
LEMMA HeadersAreHeads ==
  /\ \A ppn, ports, pad, look : IsHead(write_gut_header(ppn, ports, pad, look))
  /\ \A dcid, ppn, ports, pad : IsHead(write_quic_short_header(dcid, ppn, ports, pad))
  /\ \A key, ppn, ports, pad : IsHead(write_quic_long_header(key, ppn, ports, pad))
BY Zenon DEF IsHead, write_gut_header, write_quic_short_header, write_quic_long_header

\* obfs_encap gives a packet with all of its fields.
LEMMA EncapIsWire ==
    ASSUME NEW w, NEW key, NEW obfs, NEW srv, NEW ports, NEW draw, NEW look
    PROVE  IsWire(obfs_encap(w, key, obfs, srv, ports, draw, look))
<1>1. IsWire(NoWire)
  BY HeadersAreHeads, Zenon DEF NoWire, IsWire
<1>2. CASE w.len < 16
  BY <1>1, <1>2, Zenon DEF obfs_encap
<1>3. CASE ~(w.len < 16)
  <2>1. PICK l, h, b : /\ IsHead(h)
                       /\ obfs_encap(w, key, obfs, srv, ports, draw, look)
                            = [len |-> l, head |-> h, body |-> b]
    BY <1>3, HeadersAreHeads, Zenon DEF obfs_encap
  <2>2. QED
    BY <2>1, Zenon DEF IsWire
<1>4. QED
  BY <1>2, <1>3, Zenon

\* A packet that is recognised in its header family and gives its datagram back.
Readable(wire, w, obfs) ==
  /\ obfs_verify(wire, Key, "quic") <=> obfs = "quic"
  /\ obfs_verify(wire, Key, "gut") <=> obfs # "quic"
  /\ \A o : (o = "quic" <=> obfs = "quic") => obfs_decap(wire, Key, o).w = w
  /\ obfs = "quic" => wire.head.look \in {"short", "long"}
  /\ wire.len >= 32
  /\ ~Wordless(wire) /\ IsWire(wire)

\* The other side can read what one side packs.
LEMMA PackedIs ==
    ASSUME NEW w \in CliPkts \cup SrvPkts, NEW obfs \in Modes, NEW srv \in BOOLEAN,
           NEW draw \in Draws, NEW look
    PROVE  Readable(Packed(w, obfs, srv, draw, look), w, obfs)
<1>0. PICK wire : wire = Packed(w, obfs, srv, draw, look)
  OBVIOUS
<1>1. PICK c : c = CaseOf(w, obfs, srv, draw, look)
  OBVIOUS
<1>2. c.obfs = obfs /\ c.key = Key /\ c.len = w.len /\ c.look = look
  BY <1>1, Zenon DEF CaseOf
<1>3. w.len \in Nat /\ w.len >= 32
  BY PktsAssumption, Zenon
<1>4. IsCase(c) /\ Sent(c) = w /\ Encap(c) = wire
  BY <1>0, <1>1, CaseOfIs
<1>5. \A o \in {"quic", "gut"} :
        obfs_verify(wire, Key, o) <=> c.len >= 32 /\ (o = "quic" <=> obfs = "quic")
  BY <1>2, <1>4, VerifyIs, Zenon
<1>6. /\ obfs_verify(wire, Key, "quic") <=> obfs = "quic"
      /\ obfs_verify(wire, Key, "gut") <=> obfs # "quic"
  BY <1>2, <1>3, <1>5, Zenon
<1>7. \A o : (o = "quic" <=> obfs = "quic") => obfs_decap(wire, Key, o).w = w
  <2> SUFFICES ASSUME NEW o, o = "quic" <=> c.obfs = "quic" PROVE obfs_decap(wire, Key, o).w = w
    BY <1>2, Zenon
  <2>1. obfs_decap(Encap(c), c.key, o) = [w |-> Sent(c), ports |-> 51820]
    BY <1>4, DecapIs
  <2>2. obfs_decap(Encap(c), c.key, o).w = Sent(c)
    BY <2>1
  <2>3. QED
    BY <1>2, <1>4, <2>2
<1>8. ~Wordless(wire)
  <2>1. wire.head.ppn = Word(Block(c), 10)
    BY <1>4, EncapIs, Zenon
  <2>2. QED
    BY <2>1 DEF Wordless, Word
<1>9. wire.len >= 32
  <2>1. /\ wire.len = Hdr(c) + c.len + Pad(c)
        /\ Hdr(c) \in Nat /\ Pad(c) \in 0 .. 64
    BY <1>4, EncapIs, HdrPadTypes, Zenon
  <2>2. QED
    BY <1>2, <1>3, <2>1
<1>10. obfs = "quic" => wire.head.look \in {"short", "long"}
  BY <1>2, <1>4, HeadIs, Zenon
<1>11. IsWire(wire)
  <2>1. PICK port : port = 51820
    OBVIOUS
  <2>2. IsWire(obfs_encap(w, Key, obfs, srv, port, draw, look))
    BY EncapIsWire, Zenon
  <2>3. wire = obfs_encap(w, Key, obfs, srv, port, draw, look)
    BY <1>0, <2>1 DEF Packed
  <2>4. QED
    BY <2>2, <2>3, Zenon
<1>12. QED
  BY <1>0, <1>6, <1>7, <1>8, <1>9, <1>10, <1>11, Zenon DEF Readable

\* Bytes without the word of a block in their header fail verification.
LEMMA WordlessFails ==
    ASSUME NEW wire, Wordless(wire), NEW key, NEW o
    PROVE  ~obfs_verify(wire, key, o)
<1>1. \A block : Word(block, 10) # <<>>
  BY DEF Word
<1>2. QED
  BY <1>1, Zenon DEF Wordless, obfs_verify

\* Neither side takes a packet without the word for one of the tunnel.
LEMMA WordlessRefused ==
    ASSUME NEW u, Wordless(u.wire)
    PROVE  ServerDetect(u) = "no" /\ ClientDetect(u) = "no"
BY WordlessFails, Zenon DEF ServerDetect, ClientDetect

\* Cutting off 12 bytes takes the word away.
LEMMA BeheadedIs ==
    ASSUME NEW wire, IsWire(wire)
    PROVE  Wordless(Beheaded(Plain(wire)))
<1>1. PICK l, b, hdr, look, dcid, ppn, ports, byte :
        wire = [len |-> l, head |-> [hdr |-> hdr, look |-> look, dcid |-> dcid, ppn |-> ppn,
                                     ports |-> ports, padbyte |-> byte], body |-> b]
  BY Zenon DEF IsWire, IsHead
<1>2. /\ Plain(wire).wrap = "none" /\ Plain(wire).wire = wire
  BY Zenon DEF Plain
<1>3. PICK k : Beheaded(Plain(wire)) = [wire EXCEPT !.len = k, !.head.ppn = <<>>,
                                                    !.head.ports = <<0, <<>>>>]
  BY <1>2, Zenon DEF Beheaded
<1>4. [wire EXCEPT !.len = k, !.head.ppn = <<>>, !.head.ports = <<0, <<>>>>].head.ppn = <<>>
  BY <1>1, Zenon
<1>5. QED
  BY <1>3, <1>4, Zenon DEF Wordless

\* Keepalives without payload and foreign bytes hold no such word.
LEMMA NoWireIs ==
  /\ Wordless(NoWire) /\ NoWire.head.look = "plain"
  /\ \A l : /\ Wordless([NoWire EXCEPT !.len = l])
            /\ [NoWire EXCEPT !.len = l].head.look = "plain"
  /\ \A l, look : Wordless(Foreign(l, look)) /\ Foreign(l, look).head.look = look
BY Zenon DEF NoWire, Wordless, Foreign, write_gut_header

\* What the receiver finds in a datagram: the packet that was put into it, with
\* the mode its wrapping names, or something without the word.
Found(wire, d, obfs) ==
  /\ Unwrap(d).wire = wire \/ Wordless(Unwrap(d).wire)
  /\ Unwrap(d).wire = wire =>
       Unwrap(d).prepend = IF obfs \in {"quic", "gut"} THEN "none" ELSE obfs
  /\ Domain <= 32 /\ Marked(d) /\ d.wire # NoWire => Unwrap(d).wire = wire

\* The ingress thread finds in a wrapped packet what was wrapped, except in a gut
\* packet that looks like RTP.
LEMMA UnwrapIs ==
    ASSUME NEW obfs \in Modes, NEW w, NEW wire, ~Wordless(wire), IsWire(wire)
    PROVE  Found(wire, Wrap(obfs, w, wire, Domain), obfs)
<1>0. PICK d : d = Wrap(obfs, w, wire, Domain)
  OBVIOUS
<1>1. Wordless(NoWire) /\ wire # NoWire
  BY NoWireIs, Zenon
<1> SUFFICES Found(wire, d, obfs)
  BY <1>0, Zenon
<1>2. CASE obfs = "syslog"
  <2>1. d.wrap = "syslog" /\ d.wire = wire /\ d.hlen = 36 + Domain
    BY <1>0, <1>2, Zenon DEF Wrap, Syslog, SyslogHdrBase
  <2>2. Domain <= 32 => d.hlen <= 68
    BY <2>1, DomainAssumption
  <2>3. CASE syslog_check(d)
    <3>1. Unwrap(d).wire = wire /\ Unwrap(d).prepend = "syslog"
      BY <2>1, <2>3, Zenon DEF Unwrap
    <3>2. QED
      BY <1>2, <3>1, Zenon DEF Found
  <2>4. CASE ~syslog_check(d)
    <3>1. ~(Domain <= 32)
      BY <2>1, <2>2, <2>4, Zenon DEF syslog_check
    <3>2. Unwrap(d).wire = NoWire
      BY <2>1, <2>4, Zenon DEF Unwrap, sip_check, check_rtp_header
    <3>3. QED
      BY <1>1, <3>1, <3>2, Zenon DEF Found
  <2>5. QED
    BY <2>3, <2>4, Zenon
<1>3. CASE obfs = "sip" /\ IsRtp(w)
  <2>1. d.wrap = "rtp" /\ d.wire = wire
    BY <1>0, <1>3, Zenon DEF Wrap, Rtp
  <2>2. Unwrap(d).wire = wire /\ Unwrap(d).prepend = "sip"
    BY <2>1, Zenon DEF Unwrap, syslog_check, sip_check, check_rtp_header, Beheaded
  <2>3. QED
    BY <1>3, <2>2, Zenon DEF Found
<1>4. CASE obfs = "sip" /\ ~IsRtp(w)
  <2>1. d.wrap = "sip" /\ (d.wire = wire \/ d.wire = NoWire)
    BY <1>0, <1>4, Zenon DEF Wrap, Sip
  <2>2. Unwrap(d).wire = d.wire /\ Unwrap(d).prepend = "sip"
    BY <2>1, Zenon DEF Unwrap, syslog_check, sip_check
  <2>3. QED
    BY <1>1, <1>4, <2>1, <2>2, Zenon DEF Found
<1>5. CASE obfs \in {"quic", "gut"}
  <2>1. d = Plain(wire)
    BY <1>0, <1>5, Zenon DEF Wrap
  <2>2. d.wrap = "none" /\ d.wire = wire
    <3>1. Plain(wire).wrap = "none" /\ Plain(wire).wire = wire
      BY Zenon DEF Plain
    <3>2. QED
      BY <2>1, <3>1
  <2>3. CASE check_rtp_header(d)
    <3>1. Unwrap(d).wire = Beheaded(d) /\ ~Marked(d)
      BY <2>2, <2>3, Zenon DEF Unwrap, syslog_check, sip_check, Marked
    <3>2. Wordless(Unwrap(d).wire)
      BY <2>1, <3>1, BeheadedIs, Zenon
    <3>3. QED
      BY <3>1, <3>2, Zenon DEF Found
  <2>4. CASE ~check_rtp_header(d)
    <3>1. Unwrap(d).wire = wire /\ Unwrap(d).prepend = "none"
      BY <2>2, <2>4, Zenon DEF Unwrap, syslog_check, sip_check
    <3>2. QED
      BY <1>5, <3>1, Zenon DEF Found
  <2>5. QED
    BY <2>3, <2>4, Zenon
<1>6. QED
  BY <1>2, <1>3, <1>4, <1>5, Zenon DEF Modes

\* The server's view of a packet of the client.
ServerReads(d, w) ==
  /\ ServerDetect(Unwrap(d)) # "no" =>
       /\ ServerDetect(Unwrap(d)) = cm
       /\ obfs_decap(Unwrap(d).wire, Key, cm).w = w
  /\ Domain <= 32 /\ Marked(d) /\ d.wire # NoWire => ServerDetect(Unwrap(d)) = cm

\* The server detects the mode of a packet of the client and decapsulates it, or
\* takes it for none of the tunnel.
LEMMA ClientPacketRead ==
    ASSUME cm \in Modes, NEW w \in CliPkts, NEW draw \in Draws, NEW look
    PROVE  ServerReads(Wrap(cm, w, Packed(w, cm, FALSE, draw, look), Domain), w)
<1>0. PICK d : d = Wrap(cm, w, Packed(w, cm, FALSE, draw, look), Domain)
  BY Zenon
<1>1. PICK wire : wire = Packed(w, cm, FALSE, draw, look)
  BY Zenon
<1>2. PICK u : u = Unwrap(d)
  OBVIOUS
<1>3. Readable(wire, w, cm)
  BY <1>1, PackedIs, Zenon
<1>4. Found(wire, d, cm)
  BY <1>0, <1>1, <1>3, UnwrapIs, Zenon DEF Readable
<1>5. u.wire = wire => ServerDetect(u) = cm
  BY <1>2, <1>3, <1>4, Zenon DEF Readable, Found, ServerDetect, QuicLook, Modes
<1>6. Wordless(u.wire) => ServerDetect(u) = "no"
  BY WordlessRefused, Zenon
<1>7. QED
  BY <1>0, <1>2, <1>3, <1>4, <1>5, <1>6, Zenon DEF Readable, Found, ServerReads

\* The client's view of a packet of the server.
ClientReads(d, w, obfs) ==
  /\ ClientDetect(Unwrap(d)) # "no" =>
       obfs_decap(Unwrap(d).wire, Key, ClientDetect(Unwrap(d))).w = w
  /\ obfs = cm /\ Domain <= 32 /\ Marked(d) /\ d.wire # NoWire => ClientDetect(Unwrap(d)) = cm

\* The same for the client and a packet of the server.
LEMMA ServerPacketRead ==
    ASSUME cm \in Modes, NEW obfs \in Modes, NEW w \in SrvPkts, NEW draw \in Draws, NEW look
    PROVE  ClientReads(Wrap(obfs, w, Packed(w, obfs, TRUE, draw, look), Domain), w, obfs)
<1>0. PICK d : d = Wrap(obfs, w, Packed(w, obfs, TRUE, draw, look), Domain)
  BY Zenon
<1>1. PICK wire : wire = Packed(w, obfs, TRUE, draw, look)
  BY Zenon
<1>2. PICK u : u = Unwrap(d)
  OBVIOUS
<1>3. Readable(wire, w, obfs)
  BY <1>1, PackedIs, Zenon
<1>4. Found(wire, d, obfs)
  BY <1>0, <1>1, <1>3, UnwrapIs, Zenon DEF Readable
<1>5. u.wire = wire /\ obfs = cm => ClientDetect(u) = cm
  <2>1. wire.len >= ShortHdr + 16
    BY <1>3 DEF Readable, ShortHdr
  <2>2. QED
    BY <1>3, <2>1, Zenon DEF Readable, ClientDetect, QuicLook
<1>6. Wordless(u.wire) => ClientDetect(u) = "no"
  BY WordlessRefused, Zenon
<1>7. u.wire = wire /\ ClientDetect(u) # "no" => (ClientDetect(u) = "quic" <=> obfs = "quic")
  BY <1>3, Zenon DEF Readable, ClientDetect
<1>8. QED
  BY <1>0, <1>2, <1>3, <1>4, <1>5, <1>6, <1>7, Zenon DEF Readable, Found, ClientReads

\* Datagrams that say nothing to either side: the idle packet, the answers and,
\* but for the one of another tunnel, what strangers send.
LEMMA OtherDatagrams ==
    ASSUME NEW wire, Wordless(wire), wire.head.look # "rtp", NEW kind
    PROVE  Wordless(Unwrap(Plain(wire)).wire) /\ Wordless(Unwrap(Sip(kind, wire)).wire)
<1>1. Plain(wire).wrap = "none" /\ Plain(wire).wire = wire
  BY Zenon DEF Plain
<1>2. Sip(kind, wire).wrap = "sip" /\ Sip(kind, wire).wire = wire
  BY Zenon DEF Sip
<1>3. Unwrap(Plain(wire)).wire = wire
  BY <1>1, Zenon DEF Unwrap, syslog_check, sip_check, check_rtp_header
<1>4. Unwrap(Sip(kind, wire)).wire = wire
  BY <1>2, Zenon DEF Unwrap, syslog_check, sip_check
<1>5. QED
  BY <1>3, <1>4, Zenon

\* A packet of a tunnel with another key does not verify.
LEMMA OtherKeyFails ==
    ASSUME NEW w, w.len = 80, NEW key, key # Key, NEW o
    PROVE  LET other == obfs_encap(w, key, "gut", FALSE, 1, 0, "plain")
           IN  other.head.look = "plain" /\ ~obfs_verify(other, Key, o)
<1>1. PICK other : other = obfs_encap(w, key, "gut", FALSE, 1, 0, "plain")
  BY Zenon
<1>2. ~(w.len < 16)
  OBVIOUS
<1>3. HeaderLen("gut", FALSE, TypeByte(w)) = GutHdr
  BY Zenon DEF HeaderLen
<1>4. PICK block, ports, pad :
        /\ block = chacha_block_fast(key, 47, wg_nonce32(w))
        /\ other.head = write_gut_header(Word(block, 10), ports, pad, "plain")
  BY <1>1, <1>2, <1>3, Zenon DEF obfs_encap
<1>5. other.head.look = "plain" /\ other.head.ppn = Word(block, 10)
  <2> DEFINE head == write_gut_header(Word(block, 10), ports, pad, "plain")
  <2>1. head.look = "plain" /\ head.ppn = Word(block, 10)
    BY Zenon DEF write_gut_header
  <2>2. other.head = head
    BY <1>4, Zenon
  <2> HIDE DEF head
  <2>3. QED
    BY <2>1, <2>2
<1>6. \A x : Word(block, 10) # Word(chacha_block_fast(Key, 47, x), 10)
  BY <1>4 DEF Word, chacha_block_fast
<1>7. QED
  BY <1>1, <1>5, <1>6, Zenon DEF obfs_verify

\* The server accepts nothing that comes from outside of the tunnel.
LEMMA StrangersRefused ==
    ASSUME NEW d \in Unrelated
    PROVE  ServerDetect(Unwrap(d)) = "no"
<1>1. CASE d = Plain(OtherTunnel)
  <2>1. "other key" # Key
    BY Zenon DEF Key
  <2>2. Datagram(4, 80, "x").len = 80
    BY Zenon DEF Datagram
  <2>3. OtherTunnel.head.look = "plain" /\ \A o : ~obfs_verify(OtherTunnel, Key, o)
    BY <2>1, <2>2, OtherKeyFails, Zenon DEF OtherTunnel
  <2>4. d.wrap = "none" /\ d.wire = OtherTunnel
    BY <1>1, Zenon DEF Plain
  <2>5. Unwrap(d).wire = OtherTunnel
    BY <2>3, <2>4, Zenon DEF Unwrap, syslog_check, sip_check, check_rtp_header
  <2>6. QED
    BY <2>3, <2>5, Zenon DEF ServerDetect
<1>2. CASE d = Sip("OPTIONS", NoWire)
  <2>1. Wordless(Unwrap(d).wire)
    BY <1>2, NoWireIs, OtherDatagrams, Zenon
  <2>2. QED
    BY <2>1, WordlessRefused, Zenon
<1>3. CASE d = Sip("INVITE", [NoWire EXCEPT !.len = 60])
  <2>1. PICK x : x = [NoWire EXCEPT !.len = 60]
    BY Zenon
  <2>2. Wordless(x) /\ x.head.look = "plain"
    BY <2>1, NoWireIs, Zenon
  <2>3. Wordless(Unwrap(d).wire)
    BY <1>3, <2>1, <2>2, OtherDatagrams, Zenon
  <2>4. QED
    BY <2>3, WordlessRefused, Zenon
<1>4. CASE d = Plain(OtherVersion)
  <2>1. PICK l : OtherVersion = Foreign(l, "long")
    BY SMT DEF OtherVersion
  <2>2. Wordless(OtherVersion) /\ OtherVersion.head.look = "long"
    BY <2>1, NoWireIs, Zenon
  <2>3. Wordless(Unwrap(d).wire)
    BY <1>4, <2>2, OtherDatagrams, Zenon
  <2>4. QED
    BY <2>3, WordlessRefused, Zenon
<1>5. QED
  BY <1>1, <1>2, <1>3, <1>4, Zenon DEF Unrelated

\* The server's answers say nothing to the client.
LEMMA AnswersRefused ==
    ASSUME NEW d, NEW u, NEW a \in Answer(d, u)
    PROVE  Wordless(Unwrap(a).wire)
<1>1. \/ \E kind : a = Sip(kind, NoWire)
      \/ \E l : a = Plain(Foreign(l, "plain"))
  BY Zenon DEF Answer
<1>2. ASSUME NEW kind, a = Sip(kind, NoWire) PROVE Wordless(Unwrap(a).wire)
  BY <1>2, NoWireIs, OtherDatagrams, Zenon
<1>3. ASSUME NEW l, a = Plain(Foreign(l, "plain"))
      PROVE  Wordless(Unwrap(a).wire)
  <2>1. PICK x : x = Foreign(l, "plain")
    OBVIOUS
  <2>2. Wordless(x) /\ x.head.look = "plain"
    BY <2>1, NoWireIs, Zenon
  <2>3. QED
    BY <1>3, <2>1, <2>2, OtherDatagrams, Zenon
<1>4. QED
  BY <1>1, <1>2, <1>3, Zenon

-----------------------------------------------------------------------------
(* The invariant: where a datagram in flight comes from and what it is, and *)
(* that the server knows endpoints of the client only, in the client's mode. *)

IsAddr(a) == a = Addr(a.host, a.port)

FromClient(m) ==
  /\ m.src \in used /\ m.dst.host = "srv"
  /\ \/ m.d = Plain([NoWire EXCEPT !.len = 17])
     \/ \E w \in CliPkts, draw \in Draws, look \in LooksOf(cm) :
          m.d = Wrap(cm, w, Packed(w, cm, FALSE, draw, look), Domain)

FromStranger(m) == m.src.host = "stray" /\ m.dst.host = "srv" /\ m.d \in Unrelated

Answered(m) == ~m.learned /\ m.dst.host # "srv" /\ Wordless(Unwrap(m.d).wire)

Replied(m) ==
  /\ m.dst.host \in Hosts
  /\ \E obfs \in Modes, w \in SrvPkts, draw \in Draws, look \in Looks :
       /\ m.learned => obfs = cm
       /\ m.d = Wrap(obfs, w, Packed(w, obfs, TRUE, draw, look), Domain)

FromServer(m) == (\E k \in Sockets : m.src = SrvAddr(k)) /\ (Answered(m) \/ Replied(m))

Genuine(m) == FromClient(m) \/ FromStranger(m) \/ FromServer(m)

SidesInv ==
  /\ cm \in ClientModes /\ sm \in ServerModes /\ host \in Hosts
  /\ \A a \in used : a.host \in Hosts /\ IsAddr(a)
  /\ cliExt = NoAddr \/ \E k \in Sockets : cliExt = SrvAddr(k)

ServerInv ==
  /\ DOMAIN srvObfs \subseteq used
  /\ \A a \in DOMAIN srvObfs : srvObfs[a] = cm
  /\ srvExt = NoAddr \/ srvExt \in DOMAIN srvObfs
  /\ job \in [Sockets -> {NoJob} \cup [src : DOMAIN srvObfs, w : CliPkts]]
  /\ eg # NoEgress =>
       /\ eg.w \in SrvPkts
       /\ IF eg.learned THEN eg.dest \in DOMAIN srvObfs ELSE eg.dest = CliConfigured

NetInv == \A m \in net : Genuine(m)

TunnelInv == SidesInv /\ ServerInv /\ NetInv /\ intact


\* Client, server and strangers have different hosts.
LEMMA HostsApart ==
  /\ "home" \in Hosts /\ "srv" \notin Hosts /\ "stray" \notin Hosts /\ "none" \notin Hosts
  /\ \A k : SrvAddr(k).host = "srv" /\ IsAddr(SrvAddr(k))
  /\ \A k : CliAddr(k).host = host /\ IsAddr(CliAddr(k))
  /\ CliConfigured.host = "home" /\ IsAddr(CliConfigured)
BY HostsAssumption, Zenon DEF SrvAddr, CliAddr, CliConfigured, Addr, IsAddr

\* FinalDest may change the port, never the host.
LEMMA FinalDestIs ==
    ASSUME NEW obfs, NEW a, IsAddr(a), NEW k, NEW ports
    PROVE  /\ FinalDest(obfs, a, k, ports).host = a.host
           /\ obfs = "sip" => FinalDest(obfs, a, k, ports) = Addr(a.host, ports[k])
           /\ obfs # "sip" => FinalDest(obfs, a, k, ports) = a
<1>1. PICK h, p : a = [host |-> h, port |-> p]  BY Zenon DEF IsAddr, Addr
<1>2. [a EXCEPT !.port = ports[k]] = Addr(a.host, ports[k])  BY <1>1 DEF Addr
<1>3. QED  BY <1>1, <1>2, Zenon DEF FinalDest, Addr

\* The egress thread chooses among the sockets that exist.
LEMMA SockIdxIs == \A obfs, w : SockIdx(obfs, w) \subseteq Sockets
BY PortsAssumption, Zenon DEF SockIdx, Sockets

\* The network holds nothing that was not sent.
LEMMA Sends ==
    ASSUME NEW S, NEW old, Send(S, old)
    PROVE  net' \subseteq old \cup S
BY Zenon DEF Send

\* What stays in flight was in flight.
LEMMA RestIs == \A m, kept : Rest(m, kept) \subseteq net
BY Zenon DEF Rest

\* What was genuine stays so when the client sends from more addresses.
LEMMA GenuineKept ==
    ASSUME cm' = cm, used \subseteq used', NEW m, Genuine(m)
    PROVE  Genuine(m)'
<1>1. LooksOf(cm)' = LooksOf(cm)  BY Zenon DEF LooksOf
<1>2. QED
  BY <1>1, Zenon
  DEF Genuine, FromClient, FromStranger, FromServer, Answered, Replied, SrvAddr, Sockets

\* Both sides are configured with modes of the program.
LEMMA ModesAreModes == SidesInv => cm \in Modes /\ sm \in Modes
BY ModesAssumption, Zenon DEF SidesInv

\* The invariant holds when both sides start.
LEMMA TunnelStarts == Init => TunnelInv
BY HostsApart, Zenon DEF Init, TunnelInv, SidesInv, ServerInv, NetInv

\* A step that sends genuine datagrams keeps all datagrams in flight genuine.
LEMMA NetGrows ==
    ASSUME NetInv, cm' = cm, used \subseteq used', NEW S, \A m \in S : Genuine(m)',
           net' \subseteq net \cup S
    PROVE  NetInv'
BY GenuineKept, Zenon DEF NetInv

\* The same for a step that sends one.
LEMMA NetGrowsByOne ==
    ASSUME NetInv, cm' = cm, used \subseteq used', NEW new, Genuine(new)',
           net' \subseteq net \cup {new}
    PROVE  NetInv'
<1>1. PICK S : S = {new}
  BY Zenon
<1>2. \A m \in S : Genuine(m)'
  BY <1>1, Zenon
<1>3. net' \subseteq net \cup S
  BY <1>1, Zenon
<1>4. QED
  BY <1>2, <1>3, NetGrows, Zenon

\* A step of the client or the network leaves what the server knows true.
LEMMA ServerKept ==
    ASSUME ServerInv, UNCHANGED <<cm, server>>, used \subseteq used'
    PROVE  ServerInv'
BY Zenon DEF ServerInv, server, CliConfigured

\* The addresses the client sends from are its own.
LEMMA UsedGrows ==
    ASSUME SidesInv, used' = used \cup CliAddrs
    PROVE  \A a \in used' : a.host \in Hosts /\ IsAddr(a)
BY HostsApart, Zenon DEF SidesInv, CliAddrs

\* The egress thread of the client keeps the invariant.
LEMMA EgressStep == ASSUME TunnelInv, Egress PROVE TunnelInv'
<1>1. PICK w \in CliPkts, draw \in Draws, look \in LooksOf(cm) : ClientEgress(w, draw, look)
  BY Zenon DEF Egress
<1>2. PICK dest : dest = IF cliExt # NoAddr THEN cliExt ELSE SrvConfigured
  BY Zenon
<1>3. PICK d : d = Wrap(cm, w, Packed(w, cm, FALSE, draw, look), Domain)
  BY Zenon
<1>4. PICK k \in SockIdx(cm, w) :
        Send({Msg(CliAddr(k), FinalDest(cm, dest, k, SrvPorts), d, FALSE)}, net)
  BY <1>1, <1>2, <1>3, Zenon DEF ClientEgress
<1>5. /\ used' = used \cup CliAddrs
      /\ UNCHANGED <<cm, sm, host, server, cliExt, intact>>
  BY <1>1, Zenon DEF ClientEgress, config
<1>6. PICK new : new = Msg(CliAddr(k), FinalDest(cm, dest, k, SrvPorts), d, FALSE)
  BY Zenon
<1>7. Genuine(new)'
  <2>1. dest.host = "srv" /\ IsAddr(dest)
    BY <1>2, HostsApart, Zenon DEF TunnelInv, SidesInv, SrvConfigured
  <2>2. new.dst.host = "srv" /\ new.d = d /\ new.src = CliAddr(k)
    BY <1>6, <2>1, FinalDestIs DEF Msg
  <2>3. CliAddr(k) \in used'  BY <1>4, <1>5, SockIdxIs, Zenon DEF CliAddrs
  <2>4. LooksOf(cm)' = LooksOf(cm)  BY <1>5, Zenon DEF LooksOf
  <2>5. QED  BY <1>3, <1>5, <2>2, <2>3, <2>4, Zenon DEF Genuine, FromClient
<1>8. NetInv'
  <2>1. net' \subseteq net \cup {new}  BY <1>4, <1>6, Sends, Zenon
  <2>2. QED  BY <1>5, <1>7, <2>1, NetGrowsByOne, Zenon DEF TunnelInv
<1>9. SidesInv'  BY <1>5, UsedGrows, Zenon DEF TunnelInv, SidesInv, SrvAddr
<1>10. ServerInv'  BY <1>5, ServerKept, Zenon DEF TunnelInv
<1>11. QED  BY <1>5, <1>8, <1>9, <1>10, Zenon DEF TunnelInv

\* The keepalive of an idle client keeps the invariant.
LEMMA IdleStep == ASSUME TunnelInv, ClientIdle PROVE TunnelInv'
<1>1. PICK new : new = Msg(CliAddr(1), SrvConfigured, Plain([NoWire EXCEPT !.len = 17]), FALSE)
  BY Zenon
<1>2. /\ used' = used \cup CliAddrs
      /\ UNCHANGED <<cm, sm, host, server, cliExt, intact>>
  BY Zenon DEF ClientIdle, config
<1>3. Genuine(new)'
  <2>1. /\ new.src = CliAddr(1) /\ new.dst.host = "srv"
        /\ new.d = Plain([NoWire EXCEPT !.len = 17])
    BY <1>1, HostsApart, Zenon DEF Msg, SrvConfigured
  <2>2. CliAddr(1) \in used'  BY <1>2, PortsAssumption, Zenon DEF CliAddrs, Sockets
  <2>3. QED  BY <2>1, <2>2, Zenon DEF Genuine, FromClient
<1>4. NetInv'
  <2>1. net' \subseteq net \cup {new}  BY <1>1, Sends, Zenon DEF ClientIdle
  <2>2. QED  BY <1>2, <1>3, <2>1, NetGrowsByOne, Zenon DEF TunnelInv
<1>5. SidesInv'  BY <1>2, UsedGrows, Zenon DEF TunnelInv, SidesInv, SrvAddr
<1>6. ServerInv'  BY <1>2, ServerKept, Zenon DEF TunnelInv
<1>7. QED  BY <1>2, <1>4, <1>5, <1>6, Zenon DEF TunnelInv

\* The choice of the destination by the server keeps the invariant: it is the
\* learned endpoint, whose mode is recorded, or the configured one.
LEMMA LoadStep == ASSUME TunnelInv, NEW w \in SrvPkts, ServerLoad(w) PROVE TunnelInv'
<1>1. /\ UNCHANGED <<cm, sm, host, used, net, cliExt, intact, srvExt, srvObfs, job>>
      /\ eg' = [w |-> w, learned |-> srvExt # NoAddr,
                dest |-> IF srvExt # NoAddr THEN srvExt ELSE CliConfigured]
  BY Zenon DEF ServerLoad, config, client
<1>2. SidesInv'  BY <1>1, Zenon DEF TunnelInv, SidesInv, SrvAddr
<1>3. ServerInv'
  <2>1. /\ eg'.w = w /\ (eg'.learned <=> srvExt # NoAddr)
        /\ eg'.dest = IF srvExt # NoAddr THEN srvExt ELSE CliConfigured
    BY <1>1, Zenon
  <2>2. CliConfigured' = CliConfigured  BY Zenon DEF CliConfigured
  <2>3. QED  BY <1>1, <2>1, <2>2, Zenon DEF TunnelInv, ServerInv
<1>4. NetInv'  BY <1>1, GenuineKept, Zenon DEF TunnelInv, NetInv
<1>5. QED  BY <1>1, <1>2, <1>3, <1>4, Zenon DEF TunnelInv

\* A reply keeps the invariant: to a learned endpoint it has the mode of the client.
LEMMA ReplyStep == ASSUME TunnelInv, Reply PROVE TunnelInv'
<1>1. PICK draw \in Draws, look \in Looks : ServerSend(draw, look)
  BY Zenon DEF Reply
<1>2. PICK obfs : obfs = IF eg.dest \in DOMAIN srvObfs THEN srvObfs[eg.dest] ELSE sm
  BY Zenon
<1>3. PICK d : d = Wrap(obfs, eg.w, Packed(eg.w, obfs, TRUE, draw, look), Domain)
  BY Zenon
<1>4. PICK k \in SockIdx(obfs, eg.w) :
        Send({Msg(SrvAddr(k), FinalDest(obfs, eg.dest, k, CliPorts), d, eg.learned)}, net)
  BY <1>1, <1>2, <1>3, Zenon DEF ServerSend
<1>5. /\ UNCHANGED <<cm, sm, host, used, cliExt, intact, srvExt, srvObfs, job>>
      /\ eg # NoEgress /\ eg' = NoEgress
  BY <1>1 DEF ServerSend, config, client
<1>6. PICK new : new = Msg(SrvAddr(k), FinalDest(obfs, eg.dest, k, CliPorts), d, eg.learned)
  BY Zenon
<1>7. Genuine(new)'
  <2>1. /\ obfs \in Modes /\ (eg.learned => obfs = cm)
        /\ eg.dest.host \in Hosts /\ IsAddr(eg.dest) /\ eg.w \in SrvPkts
    BY <1>2, <1>5, HostsApart, ModesAreModes DEF TunnelInv, SidesInv, ServerInv
  <2>2. /\ new.src = SrvAddr(k) /\ new.d = d /\ new.learned = eg.learned
        /\ new.dst.host \in Hosts
    BY <1>6, <2>1, FinalDestIs DEF Msg
  <2>3. k \in Sockets  BY <1>4, SockIdxIs, Zenon
  <2>4. Replied(new)'  BY <1>3, <1>5, <2>1, <2>2, Zenon DEF Replied
  <2>5. QED  BY <2>2, <2>3, <2>4, Zenon DEF Genuine, FromServer, SrvAddr
<1>8. NetInv'
  <2>1. net' \subseteq net \cup {new}  BY <1>4, <1>6, Sends, Zenon
  <2>2. QED  BY <1>5, <1>7, <2>1, NetGrowsByOne, Zenon DEF TunnelInv
<1>9. SidesInv'  BY <1>5, Zenon DEF TunnelInv, SidesInv, SrvAddr
<1>10. ServerInv'  BY <1>5, Zenon DEF TunnelInv, ServerInv
<1>11. QED  BY <1>5, <1>8, <1>9, <1>10, Zenon DEF TunnelInv


\* What arrives at the server is the client's or a stranger's, and only a packet
\* of the client is taken.
LEMMA ArrivedAtServer ==
    ASSUME TunnelInv, NEW m \in net, NEW k, m.dst = SrvAddr(k),
           ServerDetect(Unwrap(m.d)) # "no"
    PROVE  /\ m.src \in used /\ ServerDetect(Unwrap(m.d)) = cm
           /\ obfs_decap(Unwrap(m.d).wire, Key, cm).w \in CliPkts
<1>1. Genuine(m) /\ m.dst.host = "srv"  BY HostsApart, Zenon DEF TunnelInv, NetInv
<1>2. ~FromServer(m)
  BY <1>1, HostsApart, WordlessRefused, Zenon DEF FromServer, Answered, Replied
<1>3. ~FromStranger(m)  BY StrangersRefused, Zenon DEF FromStranger
<1>4. FromClient(m)  BY <1>1, <1>2, <1>3, Zenon DEF Genuine
<1>5. m.d # Plain([NoWire EXCEPT !.len = 17])
  <2>1. Wordless(Unwrap(Plain([NoWire EXCEPT !.len = 17])).wire)  BY NoWireIs, OtherDatagrams, Zenon
  <2>2. QED  BY <2>1, WordlessRefused, Zenon
<1>6. PICK w \in CliPkts, draw \in Draws, look \in LooksOf(cm) :
        m.d = Wrap(cm, w, Packed(w, cm, FALSE, draw, look), Domain)
  BY <1>4, <1>5, Zenon DEF FromClient
<1>7. cm \in Modes  BY ModesAreModes, Zenon DEF TunnelInv
<1>8. ServerReads(m.d, w)
  BY <1>6, <1>7, ClientPacketRead, Zenon
<1>9. QED  BY <1>4, <1>8, Zenon DEF FromClient, ServerReads

\* The ingress thread of the server keeps the invariant: it records a mode for
\* packets of the client only, and answers what it refuses.
LEMMA ServerIngressStep == ASSUME TunnelInv, NEW k \in Sockets, ServerIngress(k) PROVE TunnelInv'
<1>1. PICK m \in net, kept \in BOOLEAN :
        LET u    == Unwrap(m.d)
            mode == IF u.probe THEN "no" ELSE ServerDetect(u)
        IN /\ m.dst = SrvAddr(k) /\ Take(m, kept)
           /\ IF mode = "no"
                THEN /\ Send({Msg(SrvAddr(k), m.src, a, FALSE) : a \in Answer(m.d, u)},
                             Rest(m, kept))
                     /\ UNCHANGED <<srvObfs, job>>
                ELSE /\ net' = Rest(m, kept)
                     /\ srvObfs' = [a \in DOMAIN srvObfs \cup {m.src} |->
                                      IF a = m.src THEN mode ELSE srvObfs[a]]
                     /\ job' = [job EXCEPT ![k] =
                                  [src |-> m.src, w |-> obfs_decap(u.wire, Key, mode).w]]
  BY Zenon DEF ServerIngress
<1>2. UNCHANGED <<cm, sm, host, used, cliExt, intact, srvExt, eg>>
  BY Zenon DEF ServerIngress, config, client
<1>3. SidesInv'  BY <1>2, Zenon DEF TunnelInv, SidesInv, SrvAddr
<1> DEFINE u == Unwrap(m.d)
           mode == IF u.probe THEN "no" ELSE ServerDetect(u)
<1>4. CASE mode = "no"
  <2>1. UNCHANGED <<srvObfs, job>>  BY <1>1, <1>4, Zenon
  <2>2. ServerInv'  BY <1>2, <2>1, ServerKept, Zenon DEF TunnelInv, server
  <2>3. PICK S : S = {Msg(SrvAddr(k), m.src, a, FALSE) : a \in Answer(m.d, u)}
    BY Zenon
  <2>4. net' \subseteq net \cup S  BY <1>1, <1>4, <2>3, Sends, RestIs, Zenon
  <2>5. m.src.host # "srv"
    BY <1>1, HostsApart, Zenon
    DEF TunnelInv, NetInv, SidesInv, Genuine, FromClient, FromStranger, FromServer, Answered,
        Replied
  <2>6. ASSUME NEW new \in S PROVE Genuine(new)'
    <3>1. PICK a \in Answer(m.d, u) : new = Msg(SrvAddr(k), m.src, a, FALSE)  BY <2>3, Zenon
    <3>2. new.src = SrvAddr(k) /\ new.dst = m.src /\ new.d = a /\ ~new.learned
      BY <3>1, Zenon DEF Msg
    <3>3. Wordless(Unwrap(a).wire)  BY AnswersRefused, Zenon
    <3>4. QED  BY <2>5, <3>2, <3>3, Zenon DEF Genuine, FromServer, Answered, SrvAddr
  <2>7. NetInv'  BY <1>2, <2>4, <2>6, NetGrows, Zenon DEF TunnelInv
  <2>8. QED  BY <1>2, <1>3, <2>2, <2>7, Zenon DEF TunnelInv
<1>5. CASE mode # "no"
  <2>1. mode = ServerDetect(u) /\ ServerDetect(u) # "no"  BY <1>5, Zenon
  <2>2. m.src \in used /\ mode = cm /\ obfs_decap(u.wire, Key, mode).w \in CliPkts
    BY <1>1, <2>1, ArrivedAtServer, Zenon
  <2>3. /\ net' \subseteq net
        /\ srvObfs' = [a \in DOMAIN srvObfs \cup {m.src} |-> IF a = m.src THEN mode ELSE srvObfs[a]]
        /\ job' = [job EXCEPT ![k] = [src |-> m.src, w |-> obfs_decap(u.wire, Key, mode).w]]
    <3>1. net' = Rest(m, kept)
      BY <1>1, <1>5, Zenon
    <3>2. QED
      BY <1>1, <1>5, <3>1, RestIs, Zenon
  <2> HIDE DEF u, mode
  <2>4. NetInv'  BY <1>2, <2>3, GenuineKept, Zenon DEF TunnelInv, NetInv
  <2>5. DOMAIN srvObfs' = DOMAIN srvObfs \cup {m.src} /\ \A a \in DOMAIN srvObfs' : srvObfs'[a] = cm
    BY <2>2, <2>3 DEF TunnelInv, ServerInv
  <2>6. job' \in [Sockets -> {NoJob} \cup [src : DOMAIN srvObfs', w : CliPkts]]
    BY <2>2, <2>3, <2>5 DEF TunnelInv, ServerInv
  <2>7. ServerInv'
    BY <1>2, <2>2, <2>5, <2>6 DEF TunnelInv, ServerInv, CliConfigured
  <2>8. QED  BY <1>2, <1>3, <2>4, <2>7, Zenon DEF TunnelInv
<1>6. QED  BY <1>4, <1>5, Zenon

\* Learning keeps the invariant: the mode of the endpoint was recorded before.
LEMMA ServerLearnStep == ASSUME TunnelInv, NEW k \in Sockets, ServerLearn(k) PROVE TunnelInv'
<1>1. /\ UNCHANGED <<cm, sm, host, used, net, cliExt, srvObfs, eg>>
      /\ job[k] # NoJob /\ srvExt' = job[k].src /\ intact' = (intact /\ job[k].w \in CliPkts)
      /\ job' = [job EXCEPT ![k] = NoJob]
  BY Zenon DEF ServerLearn, config, client
<1>2. job[k] \in [src : DOMAIN srvObfs, w : CliPkts]  BY <1>1, Zenon DEF TunnelInv, ServerInv
<1>3. srvExt' \in DOMAIN srvObfs /\ intact'  BY <1>1, <1>2, Zenon DEF TunnelInv
<1>4. SidesInv'  BY <1>1, Zenon DEF TunnelInv, SidesInv, SrvAddr
<1>5. ServerInv'  BY <1>1, <1>3, Zenon DEF TunnelInv, ServerInv, CliConfigured
<1>6. NetInv'  BY <1>1, GenuineKept, Zenon DEF TunnelInv, NetInv
<1>7. QED  BY <1>3, <1>4, <1>5, <1>6, Zenon DEF TunnelInv

\* The ingress thread of the client keeps the invariant.
LEMMA ClientIngressStep == ASSUME TunnelInv, NEW k \in Sockets, ClientIngress(k) PROVE TunnelInv'
<1>1. PICK m \in net, kept \in BOOLEAN :
        LET u    == Unwrap(m.d)
            mode == IF u.probe THEN "no" ELSE ClientDetect(u)
        IN /\ m.dst = CliAddr(k) /\ net' = Rest(m, kept)
           /\ IF mode = "no" THEN UNCHANGED <<cliExt, intact>>
              ELSE /\ cliExt' = m.src
                   /\ intact' = (intact /\ (cliWg # 0 =>
                                   obfs_decap(u.wire, Key, mode).w \in SrvPkts))
  BY Zenon DEF ClientIngress
<1>2. UNCHANGED <<cm, sm, host, used, server>>
  BY Zenon DEF ClientIngress, config, client
<1>3. ServerInv'  BY <1>2, ServerKept, Zenon DEF TunnelInv
<1>4. NetInv'
  <2>1. net' \subseteq net  BY <1>1, RestIs, Zenon
  <2>2. QED  BY <1>2, <2>1, GenuineKept, Zenon DEF TunnelInv, NetInv
<1> DEFINE u == Unwrap(m.d)
           mode == IF u.probe THEN "no" ELSE ClientDetect(u)
<1>5. CASE mode = "no"
  <2>1. UNCHANGED <<cliExt, intact>>  BY <1>1, <1>5, Zenon
  <2>2. SidesInv'  BY <1>2, <2>1, Zenon DEF TunnelInv, SidesInv, SrvAddr
  <2>3. QED  BY <1>3, <1>4, <2>1, <2>2, Zenon DEF TunnelInv
<1>6. CASE mode # "no"
  <2>1. FromServer(m)
    BY <1>1, HostsApart, Zenon DEF TunnelInv, SidesInv, NetInv, Genuine, FromClient, FromStranger
  <2>2. ClientDetect(u) # "no"  BY <1>6, Zenon
  <2>3. Replied(m)  BY <2>1, <2>2, WordlessRefused, Zenon DEF FromServer, Answered
  <2>4. obfs_decap(u.wire, Key, mode).w \in SrvPkts
    <3>1. cm \in Modes  BY ModesAreModes, Zenon DEF TunnelInv
    <3>2. PICK obfs \in Modes, w \in SrvPkts, draw \in Draws, look \in Looks :
            m.d = Wrap(obfs, w, Packed(w, obfs, TRUE, draw, look), Domain)
      BY <2>3, Zenon DEF Replied
    <3>3. ClientReads(m.d, w, obfs)  BY <3>1, <3>2, ServerPacketRead, Zenon
    <3>4. QED  BY <1>6, <2>2, <3>3, Zenon DEF ClientReads
  <2>5. cliExt' = m.src /\ intact'  BY <1>1, <1>6, <2>4, Zenon DEF TunnelInv
  <2>6. SidesInv'  BY <1>2, <2>1, <2>5, Zenon DEF TunnelInv, SidesInv, SrvAddr, FromServer
  <2>7. QED  BY <1>3, <1>4, <2>5, <2>6, Zenon DEF TunnelInv
<1>7. QED  BY <1>5, <1>6, Zenon

\* Losses and moves of the client keep the invariant.
LEMMA NetworkStep == ASSUME TunnelInv, Lose \/ Move \/ UNCHANGED vars PROVE TunnelInv'
<1>1. /\ UNCHANGED <<cm, sm, used, server, cliExt, intact>>
      /\ net' \subseteq net /\ host' \in Hosts
  BY Zenon DEF Lose, Move, vars, config, client, server, TunnelInv, SidesInv
<1>2. SidesInv'  BY <1>1, Zenon DEF TunnelInv, SidesInv, SrvAddr
<1>3. ServerInv'  BY <1>1, ServerKept, Zenon DEF TunnelInv
<1>4. NetInv'  BY <1>1, GenuineKept, Zenon DEF TunnelInv, NetInv
<1>5. QED  BY <1>1, <1>2, <1>3, <1>4, Zenon DEF TunnelInv

\* Datagrams of strangers keep the invariant.
LEMMA StrayStep == ASSUME TunnelInv, Stray PROVE TunnelInv'
<1>1. PICK d \in Unrelated : Send({Msg(Addr("stray", 9), SrvAddr(1), d, FALSE)}, net)
  BY Zenon DEF Stray
<1>2. UNCHANGED <<cm, sm, host, used, server, cliExt, intact>>
  BY Zenon DEF Stray, config, client
<1>3. PICK new : new = Msg(Addr("stray", 9), SrvAddr(1), d, FALSE)
  BY Zenon
<1>4. Genuine(new)'
  <2>1. new.src.host = "stray" /\ new.dst.host = "srv" /\ new.d = d
    BY <1>3, HostsApart, Zenon DEF Msg, Addr
  <2>2. QED  BY <2>1, Zenon DEF Genuine, FromStranger
<1>5. NetInv'
  <2>1. net' \subseteq net \cup {new}  BY <1>1, <1>3, Sends, Zenon
  <2>2. QED  BY <1>2, <1>4, <2>1, NetGrowsByOne, Zenon DEF TunnelInv
<1>6. SidesInv'  BY <1>2, Zenon DEF TunnelInv, SidesInv, SrvAddr
<1>7. ServerInv'  BY <1>2, ServerKept, Zenon DEF TunnelInv
<1>8. QED  BY <1>2, <1>5, <1>6, <1>7, Zenon DEF TunnelInv

\* The invariant of the tunnel, for any ports, hosts, datagrams, modes and
\* padding, and a network that holds, loses and repeats any number of datagrams.
THEOREM TunnelInvariant == Spec => []TunnelInv
<1>1. Init => TunnelInv  BY TunnelStarts, Zenon
<1>2. TunnelInv /\ [Next]_vars => TunnelInv'
  BY EgressStep, IdleStep, ReplyStep, LoadStep, ServerIngressStep, ServerLearnStep,
     ClientIngressStep, NetworkStep, StrayStep, Zenon DEF Next
<1>3. QED  BY <1>1, <1>2, PTL DEF Spec

\* What either WireGuard is given is a datagram that the other one sent.
THEOREM AlwaysIntact == Spec => []DeliveredIntact
<1>1. TunnelInv => DeliveredIntact  BY Zenon DEF TunnelInv, DeliveredIntact
<1>2. QED  BY <1>1, TunnelInvariant, PTL

\* The server recognises what the client sends, and the client what the server
\* sends to a learned endpoint, in all sixteen pairs of modes, if the domain has
\* at most 32 characters.
THEOREM AlwaysRecognised == ASSUME Domain <= 32 PROVE Spec => []ArrivalsRecognised
<1>1. ASSUME TunnelInv PROVE ArrivalsRecognised
  <2> SUFFICES ASSUME NEW m \in net, Marked(m.d)
               PROVE  /\ m.src.host \in Hosts /\ m.d.wire \notin {NoWire, [NoWire EXCEPT !.len = 17]}
                           => ServerDetect(Unwrap(m.d)) = cm
                      /\ m.src.host = "srv" /\ m.learned /\ m.d.wire # NoWire
                           => ClientDetect(Unwrap(m.d)) = cm
    BY Zenon DEF ArrivalsRecognised
  <2>1. Genuine(m) /\ cm \in Modes  BY <1>1, ModesAreModes, Zenon DEF TunnelInv, NetInv
  <2>2. ASSUME m.src.host \in Hosts, m.d.wire \notin {NoWire, [NoWire EXCEPT !.len = 17]}
        PROVE  ServerDetect(Unwrap(m.d)) = cm
    <3>1. FromClient(m)
      BY <2>1, <2>2, HostsApart, Zenon DEF Genuine, FromStranger, FromServer
    <3>2. m.d # Plain([NoWire EXCEPT !.len = 17])  BY <2>2 DEF Plain
    <3>3. PICK w \in CliPkts, draw \in Draws, look \in LooksOf(cm) :
            m.d = Wrap(cm, w, Packed(w, cm, FALSE, draw, look), Domain)
      BY <3>1, <3>2, Zenon DEF FromClient
    <3>4. ServerReads(m.d, w)  BY <2>1, <3>3, ClientPacketRead, Zenon
    <3>5. QED  BY <2>2, <3>4, Zenon DEF ServerReads
  <2>3. ASSUME m.src.host = "srv", m.learned, m.d.wire # NoWire
        PROVE  ClientDetect(Unwrap(m.d)) = cm
    <3>1. Replied(m)
      BY <1>1, <2>1, <2>3, HostsApart, Zenon
      DEF TunnelInv, SidesInv, Genuine, FromClient, FromStranger, FromServer, Answered
    <3>2. PICK w \in SrvPkts, draw \in Draws, look \in Looks :
            m.d = Wrap(cm, w, Packed(w, cm, TRUE, draw, look), Domain)
      BY <2>3, <3>1, Zenon DEF Replied
    <3>3. ClientReads(m.d, w, cm)  BY <2>1, <3>2, ServerPacketRead, Zenon
    <3>4. QED  BY <2>3, <3>3, Zenon DEF ClientReads
  <2>4. QED  BY <2>2, <2>3, Zenon
<1>2. QED  BY <1>1, TunnelInvariant, PTL

\* A SIP client whose NAT keeps its ports has used all of them at every host.
PortsUsed ==
  cm = "sip" => \A a \in used, k \in Sockets : Addr(a.host, CliPorts[k]) \in used

\* Every step keeps it: a client that sends has bound all of its ports at its host.
LEMMA PortsUsedStep ==
    ASSUME NatKeepsPorts \/ "sip" \notin ClientModes, TunnelInv, PortsUsed, [Next]_vars
    PROVE  PortsUsed' /\ used \subseteq used' /\ cm' = cm
<1>1. cm' = cm /\ (used' = used \/ used' = used \cup CliAddrs)
  BY Zenon DEF Next, Egress, ClientEgress, ClientIdle, Reply, ServerSend, ServerLoad, ServerIngress,
         ServerLearn, ClientIngress, Lose, Move, Stray, config, client, vars
<1>2. CASE used' = used  BY <1>1, <1>2, Zenon DEF PortsUsed
<1>3. CASE used' = used \cup CliAddrs
  <2> SUFFICES ASSUME cm = "sip", NEW a \in used', NEW k \in Sockets
               PROVE  Addr(a.host, CliPorts[k]) \in used'
    BY <1>1, <1>3, Zenon DEF PortsUsed
  <2>1. NatKeepsPorts  BY Zenon DEF TunnelInv, SidesInv
  <2>2. CASE a \in used  BY <1>3, <2>2, Zenon DEF PortsUsed
  <2>3. CASE a \in CliAddrs
    <3>1. a.host = host  BY <2>3, HostsApart, Zenon DEF CliAddrs
    <3>2. CliAddr(k) = Addr(host, CliPorts[k])  BY <2>1, Zenon DEF CliAddr
    <3>3. QED  BY <1>3, <3>1, <3>2, Zenon DEF CliAddrs
  <2>4. QED  BY <1>3, <2>2, <2>3, Zenon
<1>4. QED  BY <1>1, <1>2, <1>3, Zenon

\* What is new in flight after one datagram was sent is that datagram.
LEMMA SentOne ==
    ASSUME NEW x, Send({x}, net), NEW m \in net', m \notin net
    PROVE  m = x
BY Zenon DEF Send

\* The datagrams that a step adds to the network, other than those of Reply, are
\* no replies to a learned endpoint.
LEMMA OthersReply ==
    ASSUME TunnelInv, [Next]_vars, ~Reply, NEW m \in net', m \notin net
    PROVE  ~(m.src.host = "srv" /\ m.learned)
<1>0. \A src, dst, d : ~Msg(src, dst, d, FALSE).learned
  BY Zenon DEF Msg
<1>1. CASE Egress \/ ClientIdle
  <2>1. PICK x : Send({x}, net) /\ ~x.learned
    BY <1>0, <1>1, Zenon DEF Egress, ClientEgress, ClientIdle
  <2>2. QED  BY <2>1, SentOne, Zenon
<1>2. CASE Stray
  <2>1. PICK x : Send({x}, net) /\ ~x.learned  BY <1>0, <1>2, Zenon DEF Stray
  <2>2. QED  BY <2>1, SentOne, Zenon
<1>3. ASSUME NEW k \in Sockets, ServerIngress(k) PROVE ~m.learned
  <2>1. PICK r \in net, kept \in BOOLEAN :
          \/ Send({Msg(SrvAddr(k), r.src, a, FALSE) : a \in Answer(r.d, Unwrap(r.d))},
                  Rest(r, kept))
          \/ net' = Rest(r, kept)
    BY <1>3, Zenon DEF ServerIngress
  <2>2. PICK S : S = {Msg(SrvAddr(k), r.src, a, FALSE) : a \in Answer(r.d, Unwrap(r.d))}
    BY Zenon
  <2>3. m \in S  BY <2>1, <2>2, Sends, RestIs, Zenon
  <2>4. \A x \in S : ~x.learned  BY <1>0, <2>2, Zenon
  <2>5. QED  BY <2>3, <2>4, Zenon
<1>4. CASE net' \subseteq net  BY <1>4, Zenon
<1>5. CASE \E k \in Sockets : ClientIngress(k)  BY <1>4, <1>5, RestIs, Zenon DEF ClientIngress
<1>6. CASE Lose \/ Move \/ UNCHANGED vars  BY <1>4, <1>6, Zenon DEF Lose, Move, vars
<1>7. CASE \/ \E w \in SrvPkts : ServerLoad(w)
           \/ \E k \in Sockets : ServerLearn(k)
  BY <1>4, <1>7, Zenon DEF ServerLoad, ServerLearn
<1>8. QED  BY <1>1, <1>2, <1>3, <1>5, <1>6, <1>7, Zenon DEF Next

\* A reply to a learned endpoint goes to an address the client has used.
LEMMA ReplyReturns ==
    ASSUME TunnelInv, PortsUsed, Reply, NEW m \in net', m \notin net, m.learned
    PROVE  m.dst \in used
<1>1. PICK draw \in Draws, look \in Looks : ServerSend(draw, look)
  BY Zenon DEF Reply
<1>2. PICK obfs : obfs = IF eg.dest \in DOMAIN srvObfs THEN srvObfs[eg.dest] ELSE sm
  BY Zenon
<1>3. PICK k \in SockIdx(obfs, eg.w) : \E d :
        /\ eg # NoEgress
        /\ Send({Msg(SrvAddr(k), FinalDest(obfs, eg.dest, k, CliPorts), d, eg.learned)}, net)
  BY <1>1, <1>2, Zenon DEF ServerSend
<1>4. PICK d : m = Msg(SrvAddr(k), FinalDest(obfs, eg.dest, k, CliPorts), d, eg.learned)
  BY <1>3, Sends
<1>5. m.dst = FinalDest(obfs, eg.dest, k, CliPorts) /\ eg.learned  BY <1>4, Zenon DEF Msg
<1>6. eg.dest \in used /\ obfs = cm /\ IsAddr(eg.dest)
  BY <1>2, <1>3, <1>5, Zenon DEF TunnelInv, SidesInv, ServerInv
<1>7. k \in Sockets  BY SockIdxIs, Zenon
<1>8. /\ obfs = "sip" => FinalDest(obfs, eg.dest, k, CliPorts) = Addr(eg.dest.host, CliPorts[k])
      /\ obfs # "sip" => FinalDest(obfs, eg.dest, k, CliPorts) = eg.dest
  BY <1>6, FinalDestIs
<1>9. FinalDest(obfs, eg.dest, k, CliPorts) \in used
  BY <1>6, <1>7, <1>8, Zenon DEF PortsUsed
<1>10. QED  BY <1>5, <1>9, Zenon

\* A reply to a learned endpoint goes to an address the client has sent from, if
\* the NAT keeps the ports of SIP clients or there are none.
THEOREM RepliesAlwaysReturn ==
  ASSUME NatKeepsPorts \/ "sip" \notin ClientModes
  PROVE  Spec => []RepliesReturn
<1> DEFINE Inv == PortsUsed /\ RepliesReturn
<1>1. Init => Inv  BY Zenon DEF Init, PortsUsed, RepliesReturn
<1>2. TunnelInv /\ Inv /\ [Next]_vars => Inv'
  <2> SUFFICES ASSUME TunnelInv, Inv, [Next]_vars PROVE Inv'
    BY Zenon
  <2>1. PortsUsed' /\ used \subseteq used'  BY PortsUsedStep, Zenon
  <2>2. ASSUME NEW m \in net', m.src.host = "srv", m.learned PROVE m.dst \in used'
    <3>1. CASE m \in net  BY <2>1, <2>2, <3>1, Zenon DEF RepliesReturn
    <3>2. CASE m \notin net  BY <2>1, <2>2, <3>2, OthersReply, ReplyReturns, Zenon
    <3>3. QED  BY <3>1, <3>2, Zenon
  <2>3. QED  BY <2>1, <2>2, Zenon DEF RepliesReturn
<1>3. Inv => RepliesReturn  BY Zenon
<1> HIDE DEF Inv
<1>4. QED  BY <1>1, <1>2, <1>3, TunnelInvariant, PTL DEF Spec

=============================================================================

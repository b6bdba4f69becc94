---------------------------- MODULE KernelCodec ----------------------------
(***************************************************************************)
(* The packet codec of the eBPF data path for the modes "quic" and "gut":  *)
(* the tc program that disguises what WireGuard sends                      *)
(* (bpf/tc_gut_egress.bpf.c) and the XDP program that recognises and       *)
(* restores what arrives (bpf/xdp_gut_ingress.bpf.c).  Packets, masks and  *)
(* headers are those of module Codec.  Addresses, checksums and the random *)
(* drop of keepalives do not change the payload and are left out, and so   *)
(* are the maps of a server with several clients.                          *)
(***************************************************************************)
EXTENDS Codec

KernelModes == {"quic", "gut"}

WgMinPacket == 32

-----------------------------------------------------------------------------
(* tc egress                                                               *)

\* Initiations and cookies get the long header, whichever side sends them.
tc_outer_hdr_len(obfs, type) ==
  IF obfs = "gut" THEN GutHdr
  ELSE IF type \in {1, 3} THEN LongHdr ELSE ShortHdr

\* Packets below 256 bytes are rounded up to 16 in "gut" mode, packets below
\* BALLAST_THRESHOLD get 1..64 bytes in "quic" mode.
tc_pad_len(obfs, hdr, len, draw) ==
  IF obfs = "gut"
    THEN IF len < 256 /\ (8 + hdr + len) % 16 # 0
           THEN 16 - ((8 + hdr + len) % 16) ELSE 0
  ELSE IF len < 220 THEN (draw % 64) + 1 ELSE 0

\* Short packets and packets of no WireGuard type are passed on as they are.
gut_egress(w, key, obfs, ports, draw) ==
  LET hdr   == tc_outer_hdr_len(obfs, TypeByte(w))
      block == chacha_block_fast(key, 47, wg_nonce32(w))
      ppn   == Word(block, 10)
      dcid  == Word(block, 9)
      enc   == <<ports, Word(block, 11)>>
      pad   == tc_pad_len(obfs, hdr, w.len, draw)
  IN IF w.len < WgMinPacket \/ TypeByte(w) \notin 1..4 THEN NoWire ELSE
     [len  |-> hdr + w.len + pad,
      head |-> IF hdr = GutHdr THEN write_gut_header(ppn, enc, pad, "plain")
               ELSE IF hdr = ShortHdr
                 THEN write_quic_short_header(dcid, ppn, enc, pad)
               ELSE write_quic_long_header(key, ppn, enc, pad),
      body |-> Mask2(xor16(w, 0, block), TypeByte(w), w.len, block)]

-----------------------------------------------------------------------------
(* XDP ingress                                                             *)

\* The packet behind the header with its ballast, which is cut off last.
xdp_rest(wire) == wire.len - wire.head.hdr

Resize(w, len) == [w EXCEPT !.len = len]

xdp_wg(wire) == Resize(wire.body, xdp_rest(wire))

xdp_ks47(wire, key) == chacha_block_fast(key, 47, wg_nonce32(xdp_wg(wire)))

\* The header by the first byte; 0x40 and the high bit are the two QUIC forms.
xdp_outer_hdr_len(wire, obfs) ==
  IF obfs = "gut" THEN GutHdr
  ELSE IF wire.head.look = "short" THEN ShortHdr
  ELSE IF wire.head.look = "long" THEN LongHdr
  ELSE 0

\* The words of the header are compared with the block the payload selects.
\* Read at the offsets of another header they do not match.
xdp_valid(wire, key, obfs) ==
  LET hdr == xdp_outer_hdr_len(wire, obfs)
  IN /\ wire.len >= WgMinPacket
     /\ hdr = wire.head.hdr
     /\ xdp_rest(wire) >= WgMinPacket
     /\ wire.head.ppn = Word(xdp_ks47(wire, key), 10)
     /\ hdr = ShortHdr => wire.head.dcid = Word(xdp_ks47(wire, key), 9)
     /\ hdr = LongHdr => wire.head.dcid = FixedDcid(key)

\* A packet the program leaves to the kernel's stack, or drops.
Refused == [w |-> NoDatagram, ports |-> 0]

\* Variant of the ballast check that cuts a byte too few off.
xdp_ballast_short(wire) ==
  LET ballast == BallastLen(wire.head.padbyte)
  IN IF ballast > 0 THEN ballast - 1 ELSE 0

xdp_ballast(wire) == BallastLen(wire.head.padbyte)

\* The second region is found with the length that still contains the ballast.
gut_xdp_core(wire, key, obfs) ==
  LET block   == xdp_ks47(wire, key)
      plain   == xor16(xdp_wg(wire), 0, block)
      out     == Mask2(plain, TypeByte(plain), xdp_rest(wire), block)
      ballast == xdp_ballast(wire)
  IN IF \/ ~xdp_valid(wire, key, obfs)
        \/ ballast > 63 \/ ballast > xdp_rest(wire)
        \/ xdp_rest(wire) - ballast < WgMinPacket
     THEN Refused
     ELSE [w |-> Resize(out, xdp_rest(wire) - ballast),
           ports |-> IF wire.head.ports[2] = Word(block, 11)
                       THEN wire.head.ports[1] ELSE 0]
=============================================================================

------------------------------ MODULE Formats ------------------------------
(***************************************************************************)
(* The pure algorithms of gutd against what they should compute: the codec *)
(* of modules Codec (userspace) and KernelCodec (eBPF) for every packet    *)
(* length, Base64 (src/proto/base64.rs),                                   *)
(* the calendar of the SIP and syslog headers (src/proto/sip.rs,           *)
(* src/proto/syslog.rs), the other end of a point-to-point link            *)
(* (src/tun.rs) and the version negotiation answer (src/userspace.rs).     *)
(*                                                                         *)
(* A counter n sweeps the inputs: it is the length of a packet, a byte,    *)
(* the length of a connection id, the last octet of an address, and the    *)
(* number of days since 1970-01-01.  Beside it walks the calendar, moved   *)
(* from one day to the next by the Gregorian rule.                         *)
(***************************************************************************)
EXTENDS KernelCodec, Sequences

CONSTANTS
  Keys,     \* keys of unrelated tunnels
  MaxLen,   \* longest packet swept
  MaxDay    \* last day swept

VARIABLES n, civil

sweep == <<n, civil>>

-----------------------------------------------------------------------------
(* Base64                                                                  *)

\* Symbols are their 6-bit values; Equals is the padding character.
Equals == 64

\* Three bytes give four symbols; a last group of one or two bytes is padded.
encode(in) ==
  [o \in 1 .. b64_len(Len(in)) |->
    LET g    == 3 * ((o - 1) \div 4)
        b(k) == IF g + k < Len(in) THEN in[g + k + 1] ELSE 0
    IN CASE (o - 1) % 4 = 0 -> b(0) \div 4
         [] (o - 1) % 4 = 1 -> 16 * (b(0) % 4) + (b(1) \div 16)
         [] (o - 1) % 4 = 2 ->
              IF g + 1 < Len(in) THEN 4 * (b(1) % 16) + (b(2) \div 64) ELSE Equals
         [] (o - 1) % 4 = 3 -> IF g + 2 < Len(in) THEN b(2) % 64 ELSE Equals]

\* A group of four symbols gives one byte and one more for each of its last two
\* symbols that is not padding.
decode_group(q) ==
  LET v(k) == IF q[k] = Equals THEN 0 ELSE q[k]
  IN <<4 * v(1) + (v(2) \div 16)>>
     \o (IF q[3] # Equals THEN <<(16 * v(2) + (v(3) \div 4)) % 256>> ELSE <<>>)
     \o (IF q[4] # Equals THEN <<(64 * v(3) + v(4)) % 256>> ELSE <<>>)

\* Only whole groups decode, one after the other; <<256>> stands for None.
decode(in) ==
  LET groups == Len(in) \div 4
      out[g \in 0..groups] ==
        IF g = 0 THEN <<>>
        ELSE out[g - 1] \o decode_group(SubSeq(in, 4 * g - 3, 4 * g))
  IN IF Len(in) % 4 # 0 THEN <<256>> ELSE out[groups]

-----------------------------------------------------------------------------
(* The calendar                                                            *)

\* The year of day doe of an era of 400 years that begins on the first of March.
YearOfEra(doe) ==
  (((doe - (doe \div 1460)) + (doe \div 36524)) - (doe \div 146096)) \div 365

\* The day of that year.
DayOfYear(doe, yoe) == doe - ((365 * yoe + (yoe \div 4)) - (yoe \div 100))

\* The date of day doy of the year that begins in March of the given year.
DateOfYear(year, doy) ==
  LET mp == (5 * doy + 2) \div 153
      m  == IF mp < 10 THEN mp + 3 ELSE mp - 9
  IN [year |-> year + (IF m <= 2 THEN 1 ELSE 0), month |-> m,
      day |-> (doy - ((153 * mp + 2) \div 5)) + 1]

\* Variant of the date without the correction for the common years of a century.
format_sip_date_drift(days) ==
  LET z   == days + 719468
      era == z \div 146097
      doe == z - era * 146097
      yoe == (doe - (doe \div 1460)) \div 365
  IN DateOfYear(yoe + era * 400, DayOfYear(doe, yoe))

\* Day, month and year from the days since 1970-01-01.
format_sip_date_only(days) ==
  LET z   == days + 719468
      era == z \div 146097
      doe == z - era * 146097
      yoe == YearOfEra(doe)
  IN DateOfYear(yoe + era * 400, DayOfYear(doe, yoe))

\* The Gregorian rule, the reference.
Leap(y) == (y % 4 = 0 /\ y % 100 # 0) \/ y % 400 = 0

MonthLen(y, m) ==
  CASE m \in {4, 6, 9, 11} -> 30
    [] m = 2 -> IF Leap(y) THEN 29 ELSE 28
    [] m \in {1, 3, 5, 7, 8, 10, 12} -> 31

NextDay(c) ==
  IF c.day < MonthLen(c.year, c.month)
    THEN [year |-> c.year, month |-> c.month, day |-> c.day + 1]
  ELSE IF c.month < 12 THEN [year |-> c.year, month |-> c.month + 1, day |-> 1]
  ELSE [year |-> c.year + 1, month |-> 1, day |-> 1]

-----------------------------------------------------------------------------
(* Point-to-point links                                                    *)

NoPeer == 256

\* The last octet of the other end, or NoPeer for the code's Err.  Only /30 and
\* /31 give one, so the host part lies within the last octet.
compute_p2p_peer(octet, prefix) ==
  LET size == IF prefix >= 24 THEN 2 ^ (32 - prefix) ELSE 256
      host == octet % size
      net  == octet - host
  IN IF prefix = 31 THEN net + (1 - host)
     ELSE IF prefix >= 30 /\ host # 0 /\ host # size - 1
       THEN net + (IF host = 1 THEN 2 ELSE 1)
     ELSE NoPeer

-----------------------------------------------------------------------------

SweepInit == n = 0 /\ civil = [year |-> 1970, month |-> 1, day |-> 1]

SweepNext == n < MaxDay /\ n' = n + 1 /\ civil' = NextDay(civil)

SweepSpec == SweepInit /\ [][SweepNext]_sweep

-----------------------------------------------------------------------------
(* What the algorithms should do                                           *)

\* Every packet of n bytes, as each side encapsulates it in each mode.
Cases ==
  [type : 1..4, len : {n}, id : {"a"}, obfs : Modes, srv : BOOLEAN, draw : Draws,
   key : Keys, look : {"plain"}]

Sent(c) == Datagram(c.type, c.len, c.id)

Encap(c) == obfs_encap(Sent(c), c.key, c.obfs, c.srv, 51820, c.draw, c.look)

\* Whatever its type, length, mode, direction and padding, a WireGuard datagram
\* that obfs_encap sends comes out of obfs_decap with the same bytes, length
\* and ports: no mask is left on it and no padding.
RoundTrip ==
  n \in 16..MaxLen =>
    \A c \in Cases : obfs_decap(Encap(c), c.key, c.obfs)
                       = [w |-> Sent(c), ports |-> 51820]

\* obfs_verify recognises exactly the packets of its own key with at least 32
\* bytes of payload, and only in the header family they were written in: a
\* server may therefore try "quic" first and "gut" afterwards.
Recognised ==
  n \in 16..MaxLen =>
    \A c \in Cases, k \in Keys, o \in {"quic", "gut"} :
      obfs_verify(Encap(c), k, o)
        <=> n >= 32 /\ k = c.key /\ (o = "quic" <=> c.obfs = "quic")

\* The lengths of the datagrams WireGuard sends: handshake messages have one
\* each, data messages at least that of a keepalive.
WgSends(type, len) ==
  \/ type = 1 /\ len = 148
  \/ type = 2 /\ len = 92
  \/ type = 3 /\ len = 64
  \/ type = 4 /\ len >= WgMinPacket

EncapTc(c) == gut_egress(Sent(c), c.key, c.obfs, 51820, c.draw)

\* The eBPF and the userspace data path understand each other in "quic" and
\* "gut" mode: userspace recognises and restores every datagram of WireGuard
\* that tc disguised, and XDP restores what either of them sent, bytes, length
\* and ports.  Nothing is said of 64 bytes of ballast, which the code of XDP drops
\* although its comments allow them (theorem LongestBallastDropped).
KernelInterop ==
  n <= MaxLen =>
    \A c \in Cases :
      c.obfs \in KernelModes /\ WgSends(c.type, n) =>
        LET whole == [w |-> Sent(c), ports |-> 51820]
        IN /\ obfs_verify(EncapTc(c), c.key, c.obfs)
           /\ obfs_decap(EncapTc(c), c.key, c.obfs) = whole
           /\ \A wire \in {EncapTc(c), Encap(c)} :
                BallastLen(wire.head.padbyte) # 64 =>
                  gut_xdp_core(wire, c.key, c.obfs) = whole

\* The WireGuard MTU that doc/configuration.md recommends for a mode.
RecommendedMtu ==
  [quic |-> 1420, gut |-> 1420, sip |-> 1400, syslog |-> 800]

\* With the recommended MTU (a data packet adds 32 bytes to it) the datagram on
\* the wire fits a 1500-byte link under IPv4 and UDP headers of 28 bytes, and
\* the receive slot of BatchRecv, so that it is neither fragmented nor cut off.
MtuFits ==
  \A c \in Cases :
    n >= 16 /\ n <= RecommendedMtu[c.obfs] + 32 /\ (c.type = 4 \/ n <= 148) =>
      /\ Wrap(c.obfs, Sent(c), Encap(c), Domain).size + 28 <= 1500
      /\ CryptoFrameTotal(Domain) <= 128

\* The datagrams that are swept: lengths of the second connection id, sizes on
\* both sides of the limits, and versions.
VnScids == {0, 1, 8, 20, 255}
VnSizes == {13, 14, 15, 40, 64, 300, 600}
VnVersions == {"other", "own", "vn"}

\* generate_quic_version_negotiation reads both connection ids within the
\* datagram and writes within its 64-byte answer; it never answers an answer.
VnStaysInside ==
  n <= 255 =>
    \A s \in VnScids, size \in VnSizes, v \in VnVersions :
      LET q == [size |-> size, long |-> TRUE, version |-> v, dcid |-> n, scid |-> s]
          out == generate_quic_version_negotiation(q)
      IN out # 0 => out <= VnOut /\ 7 + n + s <= size /\ v = "other"

\* decode takes back what encode wrote, for any bytes and any length.
Base64RoundTrip ==
  n <= 255 =>
    \A len \in 0..4 : \A in \in [1..len -> {n, 0, 255}] : decode(encode(in)) = in

\* The date in the SIP and syslog headers is the Gregorian date of the day.
CivilDate == format_sip_date_only(n) = civil

\* The two ends of a /30 or /31 compute each other: the peer is another host
\* address of the same network, and its peer is oneself.
P2PPair ==
  n <= 255 =>
    \A prefix \in 0..32 :
      LET p == compute_p2p_peer(n, prefix)
          size == 2 ^ (32 - prefix)
      IN p # NoPeer =>
           /\ prefix \in {30, 31}
           /\ p # n /\ (p \div size) = (n \div size)
           /\ prefix = 30 => p % 4 \in {1, 2}
           /\ compute_p2p_peer(p, prefix) = n

\* The smaller functions compute what they should: the version negotiation
\* answer keeps to its buffers, Base64 is undone by decode, the date in the SIP
\* and syslog headers is the Gregorian one, and the two ends of a point-to-point
\* link name each other.
HelpersCorrect == VnStaysInside /\ Base64RoundTrip /\ CivilDate /\ P2PPair
=============================================================================

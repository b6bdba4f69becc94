----------------------------- MODULE BatchRecv -----------------------------
(***************************************************************************)
(* The batched receiver of src/userspace.rs (struct BatchRecv): recvmmsg   *)
(* fills several slots of one buffer, recv() hands them out one a call,    *)
(* and the caller works in place on the slot it was given while the rest   *)
(* of the batch waits in the slots behind it.  The socket's queue in the   *)
(* kernel fills concurrently.                                              *)
(*                                                                         *)
(* The caller modelled is the egress loop: obfs_encap moves the datagram   *)
(* behind its header within the slot and pads it there, and a Rust slice   *)
(* index beyond the slot is a panic that ends the thread.                  *)
(***************************************************************************)
EXTENDS Naturals, Sequences, FiniteSetsExt

CONSTANTS
  MaxMsgs,   \* datagrams that arrive
  Bad,       \* those whose sockaddr is neither AF_INET nor AF_INET6
  Size,      \* bytes of each datagram
  Long,      \* those of a type that QUIC mode gives the long header
  Modes,     \* obfuscation modes of the destinations
  OuterMtu,  \* outer_mtu of the configuration
  RcvBuf     \* datagrams the kernel queues before it drops

ASSUME Assumptions ==
  /\ MaxMsgs \in Nat /\ OuterMtu \in Nat /\ RcvBuf \in Nat
  /\ Size \in [1..MaxMsgs -> Nat]
  /\ Modes \subseteq {"gut", "quic", "syslog", "sip"}

VARIABLES
  arrived,  \* number of the last datagram that reached the host
  kq,       \* the socket's queue
  mem,      \* the slots: a datagram's number, 0 when worked on or never filled
  count, current,
  got,      \* datagrams handed to the caller
  pc        \* "recv", "handle", or "panic"

Datagram == 1..MaxMsgs

vars == <<arrived, kq, mem, count, current, got, pc>>

\* Variant of the slot size without the room for headers.
pkt_buf_tight(mtu) == mtu

pkt_buf(mtu) == Max({mtu + 548, 2048})

\* new(): as many slots as fit 64 KiB, at most 16.
batch == Min({16, 65536 \div pkt_buf(OuterMtu)})

Slots == 1..batch

Init ==
  /\ arrived = 0 /\ kq = <<>>
  /\ mem = [i \in Slots |-> 0] /\ count = 0 /\ current = 0
  /\ got = <<>> /\ pc = "recv"

Arrive ==
  /\ arrived < MaxMsgs
  /\ arrived' = arrived + 1
  /\ kq' = IF Len(kq) < RcvBuf THEN Append(kq, arrived + 1) ELSE kq
  /\ UNCHANGED <<mem, count, current, got, pc>>

\* mmsg_sockaddr gives None for the bad ones: recv() returns an error, the loop
\* goes on.
HandOut(d) ==
  /\ got' = IF d \in Bad THEN got ELSE Append(got, d)
  /\ pc' = IF d \in Bad THEN "recv" ELSE "handle"

\* recv() with slots left from the last batch.
RecvSlot ==
  /\ pc = "recv" /\ current < count
  /\ current' = current + 1
  /\ HandOut(mem[current + 1])
  /\ UNCHANGED <<arrived, kq, mem, count>>

\* Variant of recv() that refills while a slot of the batch is left.
RecvBatchEarly ==
  /\ pc = "recv" /\ current + 1 >= count /\ kq # <<>>
  /\ \E n \in 1 .. Min({batch, Len(kq)}) :
       /\ mem' = [i \in Slots |-> IF i <= n THEN kq[i] ELSE mem[i]]
       /\ count' = n
       /\ kq' = SubSeq(kq, n + 1, Len(kq))
  /\ current' = 1
  /\ HandOut(kq[1])
  /\ UNCHANGED arrived

\* recv() with the batch used up: recvmmsg with MSG_WAITFORONE blocks until
\* there is one datagram and takes what is there up to the batch size, less if
\* the kernel meets an error on the way.  A time-out or an error without a
\* datagram leaves everything as it is.
RecvBatch ==
  /\ pc = "recv" /\ current >= count /\ kq # <<>>
  /\ \E n \in 1 .. Min({batch, Len(kq)}) :
       /\ mem' = [i \in Slots |-> IF i <= n THEN kq[i] ELSE mem[i]]
       /\ count' = n
       /\ kq' = SubSeq(kq, n + 1, Len(kq))
  /\ current' = 1
  /\ HandOut(kq[1])
  /\ UNCHANGED arrived

\* The length the kernel reports: a datagram longer than the slot is cut off.
MsgLen(d) == Min({Size[d], pkt_buf(OuterMtu)})

\* obfs_encap: the header in front of a datagram (quic_hdr_len) ...
quic_hdr_len(m, d) ==
  IF m # "quic" THEN 10 ELSE IF d \in Long THEN 1200 ELSE 16

\* ... and the padding behind its n bytes (pad_len): aligned to 16 or drawn from
\* the key stream.
pad_len(m, n) ==
  IF m = "gut"
    THEN IF n < 256 THEN {(16 - ((8 + 10 + n) % 16)) % 16} ELSE {0}
  ELSE IF n >= 220
    THEN IF m = "quic" THEN {0} ELSE 1..15
  ELSE IF m = "quic" THEN 1..64 ELSE 1..32

\* The caller encapsulates in place.  It leaves alone what has no destination
\* and what is too short to be WireGuard's.
Handle ==
  /\ pc = "handle"
  /\ LET d == mem[current]
         n == MsgLen(d) IN
     \/ pc' = "recv"
     \/ /\ n >= 16
        /\ \E m \in Modes : \E p \in pad_len(m, n) :
             pc' = IF quic_hdr_len(m, d) + n + p > pkt_buf(OuterMtu)
                     THEN "panic" ELSE "recv"
  /\ mem' = [mem EXCEPT ![current] = 0]
  /\ UNCHANGED <<arrived, kq, count, current, got>>

Next == Arrive \/ RecvSlot \/ RecvBatch \/ Handle

Spec == Init /\ [][Next]_vars

\* The thread runs.
FairSpec == Spec /\ WF_vars(RecvSlot \/ RecvBatch \/ Handle)

-----------------------------------------------------------------------------
(* Properties                                                              *)

TypeOK ==
  /\ arrived \in 0..MaxMsgs /\ kq \in Seq(Datagram) /\ got \in Seq(Datagram)
  /\ mem \in [Slots -> Datagram \cup {0}]
  /\ current \in 0..count /\ count \in 0..batch
  /\ pc \in {"recv", "handle", "panic"}

\* The slot in hand and those not handed out yet hold datagrams: no handler has
\* worked on them.
SlotsFresh ==
  /\ \A i \in (current + 1) .. count : mem[i] \in Datagram
  /\ pc = "handle" => current >= 1 /\ mem[current] \in Datagram

Inv == TypeOK /\ SlotsFresh

\* What recv() has not handed out: the r slots of m after position c, then the
\* kernel's queue k.
Waiting(m, c, r, k) ==
  [i \in 1 .. (r + Len(k)) |-> IF i <= r THEN m[c + i] ELSE k[i - r]]

Pending == Waiting(mem, current, count - current, kq)

Sock == INSTANCE Socket WITH queue <- Pending

\* Seen from its callers the batched receiver is a plain socket: nothing is
\* lost, repeated or reordered between the kernel and the loop, although slots
\* are reused and overwritten in place.
ImplementsSocket == Sock!Spec

\* The egress thread dies of an oversized datagram only: one of more than
\* outer_mtu + 523 bytes (the 548 that new() adds, less the 25 by which
\* encapsulation grows a large datagram), or one of a long-header type that is
\* larger than WireGuard makes them (148 bytes).  recvmmsg does not refuse
\* those, and the loop does not look at the length.
PanicsOnOversizeOnly ==
  pc = "panic" =>
    LET d == got[Len(got)] IN
      \/ Size[d] > OuterMtu + 523
      \/ d \in Long /\ Size[d] > 148

\* Every datagram the kernel has queued is handed out, unless its address is bad
\* or an oversized one has ended the thread.
AllHandedOut ==
  \A d \in Datagram :
    (\E i \in 1..Len(kq) : kq[i] = d)
      ~> (d \in Bad \/ pc = "panic" \/ \E i \in 1..Len(got) : got[i] = d)
=============================================================================

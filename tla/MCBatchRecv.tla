---------------------------- MODULE MCBatchRecv ----------------------------
(* With outer_mtu 20000 a batch has three slots, so that nine datagrams fill  *)
(* several batches, whole and partial.  Every second datagram is the longest  *)
(* that always fits, and the last one is one byte longer; two are handshake   *)
(* initiations.                                                               *)
EXTENDS BatchRecv

MCSize ==
  [d \in 1..MaxMsgs |->
     IF d \in Long THEN 148
     ELSE IF d = MaxMsgs THEN OuterMtu + 524
     ELSE IF d % 2 = 0 THEN 96
     ELSE OuterMtu + 523]
=============================================================================

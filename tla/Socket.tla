------------------------------- MODULE Socket -------------------------------
(***************************************************************************)
(* What the loops of src/userspace.rs rely on when they call recv(): a     *)
(* socket that hands over one datagram a call, in the order of arrival,    *)
(* each once, leaving out those whose sender's address has no known        *)
(* family.  Datagrams are numbered as they arrive.                         *)
(***************************************************************************)
EXTENDS Naturals, Sequences

CONSTANTS MaxMsgs,  \* datagrams that arrive
          Bad       \* those with an address of another family

VARIABLES queue, got, arrived

Init == queue = <<>> /\ got = <<>> /\ arrived = 0

Arrive ==
  /\ arrived < MaxMsgs
  /\ arrived' = arrived + 1
  /\ queue' = Append(queue, arrived + 1)
  /\ UNCHANGED got

\* The receive buffer of the socket is full.
Overflow ==
  /\ arrived < MaxMsgs
  /\ arrived' = arrived + 1
  /\ UNCHANGED <<queue, got>>

\* One call of recv(): Ok, or Err for a bad address.
Recv ==
  /\ queue # <<>>
  /\ queue' = Tail(queue)
  /\ got' = IF Head(queue) \in Bad THEN got ELSE Append(got, Head(queue))
  /\ UNCHANGED arrived

Next == Arrive \/ Overflow \/ Recv

Spec == Init /\ [][Next]_<<queue, got, arrived>>
=============================================================================

----------------------------- MODULE SharedAddr -----------------------------
(***************************************************************************)
(* The lock-free SharedAddr of src/userspace.rs: a socket address kept in  *)
(* six AtomicU32 cells that writers and readers touch one at a time.  The  *)
(* five data cells are accessed Relaxed, the family cell with              *)
(* Release/Acquire, so between two ordering points the data accesses of a  *)
(* thread take effect in any order: store() writes the data cells in any   *)
(* order and then the family; load() reads the family and then the data    *)
(* cells in any order.                                                     *)
(*                                                                         *)
(* Two objects of the program have this type.  shared_peer_ext is written  *)
(* by every ingress thread (Storers) and read by the egress thread;        *)
(* shared_wg_peer is written by the egress thread alone, which first       *)
(* compares a fingerprint (Tracker), and read by the ingress threads.      *)
(* The variable object says which of the two a behaviour is about.         *)
(***************************************************************************)
EXTENDS Integers, FiniteSets

CONSTANTS PeerAddr, WgAddr,  \* the addresses packets of the peer, of WireGuard, come from
          Storers,  \* threads that store() every address they see
          Tracker,  \* threads that store() only when the fingerprint differs
          Readers   \* threads that load()

Addr == PeerAddr \cup WgAddr

Data == {"port", "ip0", "ip1", "ip2", "ip3"}
Cells == Data \cup {"fam"}

Writers == Storers \cup Tracker

\* new(): every cell is 0, and family 0 means "no address yet".
Unset == [f \in Cells |-> 0]

\* An address is the six words store() would write: family 4 uses ip0 only and
\* zeroes the rest, family 6 uses all four words.
ASSUME AddrAssumption ==
    /\ Addr \subseteq [Cells -> Nat]
    /\ \A a \in Addr : a["fam"] \in {4, 6}
    /\ \A a \in Addr : a["fam"] = 4 => \A f \in {"ip1", "ip2", "ip3"} : a[f] = 0

\* The compare before the store is only ever used by one thread, alone.
ASSUME ThreadAssumption ==
    /\ Storers \cap Tracker = {}
    /\ \A s, t \in Tracker : s = t

VARIABLES
    object,   \* "peer_ext" for shared_peer_ext, "wg_peer" for shared_wg_peer
    cell,     \* the six atomics
    writing,  \* per writer: the address its store() is writing, or Unset
    pending,  \* per writer: the data cells that store() has still to write
    loaded,   \* per reader: the cells its load() has read, 0 where not read
    unread,   \* per reader: the data cells that load() has still to read
    phase,    \* per reader: "idle", "loading" or "done" (loaded is its result)
    src,      \* the source of the last packet a tracker handled, or Unset
    live,     \* history: addresses some cell may still hold
    overlap,  \* history, per writer: addresses whose store() overlaps its own
    cand      \* history, per reader: addresses live at some time in its load()

addrVars == <<object, cell, writing, pending, loaded, unread, phase, src, live, overlap, cand>>
writerVars == <<object, writing, pending, src>>
readerVars == <<loaded, unread, phase>>

Busy(w) == writing[w] # Unset
Loading(r) == phase[r] = "loading"

AddrTypeOK ==
    /\ object \in {"peer_ext", "wg_peer"}
    /\ cell \in [Cells -> Nat]
    /\ writing \in [Writers -> Addr \cup {Unset}]
    /\ pending \in [Writers -> SUBSET Data]
    /\ loaded \in [Readers -> [Cells -> Nat]]
    /\ unread \in [Readers -> SUBSET Data]
    /\ phase \in [Readers -> {"idle", "loading", "done"}]
    /\ src \in Addr \cup {Unset}
    /\ live \in SUBSET (Addr \cup {Unset})
    /\ overlap \in [Writers -> SUBSET Addr]
    /\ cand \in [Readers -> SUBSET (Addr \cup {Unset})]

AddrInit ==
    /\ object \in {"peer_ext", "wg_peer"}
    /\ cell = Unset
    /\ writing = [w \in Writers |-> Unset]
    /\ pending = [w \in Writers |-> {}]
    /\ loaded = [r \in Readers |-> Unset]
    /\ unread = [r \in Readers |-> {}]
    /\ phase = [r \in Readers |-> "idle"]
    /\ src = Unset
    /\ live = {Unset}
    /\ overlap = [w \in Writers |-> {}]
    /\ cand = [r \in Readers |-> {}]

-----------------------------------------------------------------------------
\* XOR of two-bit words; XOR works bit by bit, so two bits stand for 32.
Xor(x, y) == ((x + y) % 2) + (2 * (((x \div 2) + (y \div 2)) % 2))

\* Variant of Fingerprint that leaves the port out.
FingerprintNoPort(a) == <<Xor(a["ip0"], a["ip2"]), Xor(a["ip1"], a["ip3"])>>

\* load_raw() and addr_fingerprint(): the high and the low half of
\* ((w0 ^ w2) << 32 | (w1 ^ w3)) ^ port.  The family is not part of it.
Fingerprint(a) ==
    <<Xor(a["ip0"], a["ip2"]), Xor(Xor(a["ip1"], a["ip3"]), a["port"])>>

\* Variant of BeginStore that publishes the family before the data.
BeginStoreFamilyFirst(w, a) ==
    /\ ~Busy(w)
    /\ cell' = [cell EXCEPT !["fam"] = a["fam"]]
    /\ writing' = [writing EXCEPT ![w] = a]
    /\ pending' = [pending EXCEPT ![w] = Data]
    /\ live' = live \cup {a}
    /\ overlap' = [v \in Writers |->
                     IF v = w THEN {a} \cup {writing[u] : u \in {u \in Writers : Busy(u)}}
                     ELSE IF Busy(v) THEN overlap[v] \cup {a}
                     ELSE overlap[v]]
    /\ cand' = [r \in Readers |-> IF Loading(r) THEN cand[r] \cup {a} ELSE cand[r]]
    /\ UNCHANGED readerVars

\* Entering store(a).
BeginStore(w, a) ==
    /\ ~Busy(w)
    /\ writing' = [writing EXCEPT ![w] = a]
    /\ pending' = [pending EXCEPT ![w] = Data]
    /\ live' = live \cup {a}
    /\ overlap' = [v \in Writers |->
                     IF v = w THEN {a} \cup {writing[u] : u \in {u \in Writers : Busy(u)}}
                     ELSE IF Busy(v) THEN overlap[v] \cup {a}
                     ELSE overlap[v]]
    /\ cand' = [r \in Readers |-> IF Loading(r) THEN cand[r] \cup {a} ELSE cand[r]]
    /\ UNCHANGED <<cell, readerVars>>

\* An ingress thread stores the source of every packet it has decapsulated.
IngressStore(w, a) ==
    /\ object = "peer_ext" /\ w \in Storers /\ a \in PeerAddr
    /\ BeginStore(w, a)
    /\ UNCHANGED <<object, src>>

\* The client's egress thread stores the source of a packet from WireGuard when
\* its fingerprint is not the one already there.  No other thread writes, so the
\* five loads of load_raw() see one state.
EgressTrack(w, a) ==
    /\ object = "wg_peer" /\ w \in Tracker /\ a \in WgAddr
    /\ ~Busy(w)
    /\ src' = a
    /\ UNCHANGED object
    /\ IF Fingerprint(cell) # Fingerprint(a)
         THEN BeginStore(w, a)
         ELSE UNCHANGED <<cell, writing, pending, readerVars, live, overlap, cand>>

\* One Relaxed store of store().
StoreWord(w, f) ==
    /\ f \in pending[w]
    /\ cell' = [cell EXCEPT ![f] = writing[w][f]]
    /\ pending' = [pending EXCEPT ![w] = @ \ {f}]
    /\ UNCHANGED <<object, writing, src, readerVars, live, overlap, cand>>

\* The Release store of the family, after every data store; store() returns.
StoreFamily(w) ==
    /\ Busy(w)
    /\ pending[w] = {}
    /\ cell' = [cell EXCEPT !["fam"] = writing[w]["fam"]]
    /\ writing' = [writing EXCEPT ![w] = Unset]
    /\ live' = live \cap overlap[w]
    /\ UNCHANGED <<object, pending, src, readerVars, overlap, cand>>

-----------------------------------------------------------------------------
\* The data cells load() reads for each family it may find.
DataOf(fam) ==
    IF fam = 0 THEN {} ELSE IF fam = 4 THEN {"port", "ip0"} ELSE Data

\* The Acquire load of the family that opens load(); 0 returns None at once.
LoadFamily(r) ==
    /\ ~Loading(r)
    /\ loaded' = [loaded EXCEPT ![r] = [Unset EXCEPT !["fam"] = cell["fam"]]]
    /\ unread' = [unread EXCEPT ![r] = DataOf(cell["fam"])]
    /\ phase' = [phase EXCEPT ![r] = IF cell["fam"] = 0 THEN "done" ELSE "loading"]
    /\ cand' = [cand EXCEPT ![r] = live]
    /\ UNCHANGED <<cell, writerVars, live, overlap>>

\* One Relaxed load of load(); the last one returns the address.
LoadWord(r, f) ==
    /\ f \in unread[r]
    /\ loaded' = [loaded EXCEPT ![r][f] = cell[f]]
    /\ unread' = [unread EXCEPT ![r] = @ \ {f}]
    /\ phase' = [phase EXCEPT ![r] = IF unread[r] = {f} THEN "done" ELSE "loading"]
    /\ UNCHANGED <<cell, writerVars, live, overlap, cand>>

AddrNext ==
    \/ \E w \in Writers, a \in Addr : IngressStore(w, a)
    \/ \E w \in Writers, a \in Addr : EgressTrack(w, a)
    \/ \E w \in Writers, f \in Data : StoreWord(w, f)
    \/ \E w \in Writers : StoreFamily(w)
    \/ \E r \in Readers : LoadFamily(r)
    \/ \E r \in Readers, f \in Data : LoadWord(r, f)

AddrSpec == AddrInit /\ [][AddrNext]_addrVars

-----------------------------------------------------------------------------
\* A load() that finds a family returns, cell by cell, words of addresses whose
\* store() was the last to complete before the load() began, overlapped that
\* one, or ran during the load(); the zeroes of new() never leak into a result.
\* A load() returns None only when no store() had completed before it.
FieldwiseRegular ==
    \A r \in Readers : phase[r] = "done" =>
        IF loaded[r]["fam"] = 0
          THEN Unset \in cand[r]
          ELSE \A f \in {"fam"} \cup DataOf(loaded[r]["fam"]) :
                 \E a \in cand[r] \cap Addr : a[f] = loaded[r][f]

\* Between packets, shared_wg_peer is the address the last packet of WireGuard
\* came from: the fingerprint comparison skips a store() only when it would
\* change nothing.
TracksWgPeer ==
    object = "wg_peer" => \A w \in Tracker : ~Busy(w) => cell = src
=============================================================================

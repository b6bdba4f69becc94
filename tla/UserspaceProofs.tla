--------------------------- MODULE UserspaceProofs ---------------------------
(***************************************************************************)
(* Proofs about the two data structures of src/userspace.rs: SharedAddr,   *)
(* for any set of addresses, writers and readers, and the batched          *)
(* receiver, which implements a plain socket for every number of           *)
(* datagrams, every outer_mtu and every size of the kernel's queue.        *)
(***************************************************************************)
EXTENDS SharedAddr, BatchRecv, SequenceTheorems, TLAPS

-----------------------------------------------------------------------------
(* SharedAddr                                                              *)

\* Some live address explains what cell f holds, and every store() that has
\* already written f began before that address was out of date.
Explained(f) ==
    \E a \in live :
        /\ a[f] = cell[f]
        /\ \A w \in Writers : Busy(w) /\ f \in Data \ pending[w] => a \in overlap[w]

WriterInv ==
    \A w \in Writers :
        /\ ~Busy(w) => pending[w] = {}
        /\ Busy(w) => /\ writing[w] \in live
                      /\ \A v \in Writers : Busy(v) => writing[w] \in overlap[v]

ReaderInv ==
    \A r \in Readers :
        /\ Loading(r) => live \subseteq cand[r] /\ loaded[r]["fam"] # 0
        /\ ~Loading(r) => unread[r] = {}
        /\ phase[r] # "idle" /\ loaded[r]["fam"] = 0 => Unset \in cand[r]
        /\ phase[r] # "idle" /\ loaded[r]["fam"] # 0 =>
             /\ Unset \notin cand[r]
             /\ \A f \in ({"fam"} \cup DataOf(loaded[r]["fam"])) \ unread[r] :
                  \E a \in cand[r] : a[f] = loaded[r][f]

\* The inductive invariant behind FieldwiseRegular.
RegularInv ==
    /\ AddrTypeOK
    /\ \A f \in Cells : Explained(f)
    /\ cell["fam"] # 0 <=> Unset \notin live
    /\ WriterInv
    /\ ReaderInv

-----------------------------------------------------------------------------
\* The all-zero cells of new() are not the words of any address.
LEMMA UnsetNotAddr ==
    /\ Unset \in [Cells -> Nat]
    /\ Unset \notin Addr
    /\ \A f \in Cells : Unset[f] = 0
BY AddrAssumption DEF Unset, Cells

\* Every address, and the unset one, is six words.
LEMMA AddrWords ==
    /\ Addr \cup {Unset} \subseteq [Cells -> Nat]
    /\ \A a \in Addr : a["fam"] # 0 /\ a["fam"] \in Nat
BY UnsetNotAddr, AddrAssumption DEF Cells

\* Every step of every thread keeps the six cells, the stores in progress and
\* the loads in progress well typed.
LEMMA AddrTypeStep == AddrTypeOK /\ [AddrNext]_addrVars => AddrTypeOK'
<1> USE AddrWords, UnsetNotAddr DEF AddrTypeOK, Data, Cells
<1> SUFFICES ASSUME AddrTypeOK, [AddrNext]_addrVars PROVE AddrTypeOK'
  BY Zenon
<1>b. ASSUME NEW w \in Writers, NEW a \in Addr, BeginStore(w, a), src' \in Addr \cup {Unset},
             object' = object
      PROVE  AddrTypeOK'
  <2>1. overlap' \in [Writers -> SUBSET Addr]
    BY <1>b DEF BeginStore, Busy
  <2>2. cand' \in [Readers -> SUBSET (Addr \cup {Unset})]
    BY <1>b DEF BeginStore
  <2>3. QED
    BY <1>b, <2>1, <2>2, Zenon DEF BeginStore, readerVars
<1>1. ASSUME NEW w \in Writers, NEW a \in Addr, IngressStore(w, a) PROVE AddrTypeOK'
  BY <1>1, <1>b, Zenon DEF IngressStore
<1>2. ASSUME NEW w \in Writers, NEW a \in Addr, EgressTrack(w, a) PROVE AddrTypeOK'
  <2>1. CASE BeginStore(w, a)
    BY <1>2, <1>b, <2>1, Zenon DEF EgressTrack
  <2>2. CASE ~BeginStore(w, a)
    BY <1>2, <2>2, Zenon DEF EgressTrack, readerVars
  <2>3. QED
    BY <2>1, <2>2, Zenon
<1>3. ASSUME NEW w \in Writers, NEW f \in Data, StoreWord(w, f) PROVE AddrTypeOK'
  BY <1>3 DEF StoreWord, readerVars
<1>4. ASSUME NEW w \in Writers, StoreFamily(w) PROVE AddrTypeOK'
  BY <1>4, Zenon DEF StoreFamily, readerVars, Busy
<1>5. ASSUME NEW r \in Readers, LoadFamily(r) PROVE AddrTypeOK'
  BY <1>5, Zenon DEF LoadFamily, writerVars, DataOf
<1>6. ASSUME NEW r \in Readers, NEW f \in Data, LoadWord(r, f) PROVE AddrTypeOK'
  BY <1>6, Zenon DEF LoadWord, writerVars
<1>7. CASE UNCHANGED addrVars
  BY <1>7, Zenon DEF addrVars
<1>8. QED
  BY <1>1, <1>2, <1>3, <1>4, <1>5, <1>6, <1>7 DEF AddrNext

\* SharedAddr is well typed in every reachable state, whatever the addresses.
THEOREM AddrTypeCorrect == AddrSpec => []AddrTypeOK
<1>1. AddrInit => AddrTypeOK
  BY AddrWords, UnsetNotAddr DEF AddrInit, AddrTypeOK
<1>2. QED
  BY <1>1, AddrTypeStep, PTL DEF AddrSpec

-----------------------------------------------------------------------------
\* Entering store() keeps RegularInv, whichever caller entered it.
LEMMA BeginStoreRegular ==
    ASSUME RegularInv, AddrTypeOK',
           NEW w \in Writers, NEW a \in Addr, BeginStore(w, a)
    PROVE  RegularInv'
<1> USE DEF RegularInv, BeginStore, AddrTypeOK
<1>1. \A v \in Writers : Busy(v)' <=> Busy(v) \/ v = w
  BY UnsetNotAddr, Zenon DEF Busy
<1>2. \A v \in Writers : Busy(v) => overlap[v] \subseteq overlap'[v]
  BY Zenon DEF Busy
<1>3. \A f \in Cells : Explained(f)'
  <2> TAKE f \in Cells
  <2>1. PICK b \in live :
           /\ b[f] = cell[f]
           /\ \A v \in Writers : Busy(v) /\ f \in Data \ pending[v] => b \in overlap[v]
    BY Zenon DEF Explained
  <2>2. \A v \in Writers : Busy(v)' /\ f \in Data \ pending'[v] => b \in overlap'[v]
    BY <2>1, <1>1, <1>2
  <2>3. QED
    BY <2>1, <2>2, Zenon DEF Explained
<1>4. cell'["fam"] # 0 <=> Unset \notin live'
  BY UnsetNotAddr, Zenon
<1>5. WriterInv'
  <2>a. \A u \in Writers : ~Busy(u)' => pending'[u] = {}
    BY <1>1, Zenon DEF WriterInv
  <2> SUFFICES ASSUME NEW u \in Writers, Busy(u)'
               PROVE  /\ writing'[u] \in live'
                      /\ \A v \in Writers : Busy(v)' => writing'[u] \in overlap'[v]
    BY <2>a, Zenon DEF WriterInv
  <2>1. CASE u = w
    BY <2>1, <1>1, Zenon DEF Busy
  <2>2. CASE u # w
    <3>1. Busy(u) /\ writing'[u] = writing[u] /\ writing[u] \in live
      BY <2>2, <1>1, Zenon DEF WriterInv
    <3>2. \A v \in Writers \ {w} : Busy(v)' => writing'[u] \in overlap'[v]
      BY <3>1, <1>1, <1>2, Zenon DEF WriterInv
    <3>3. writing'[u] \in overlap'[w]
      BY <3>1, Zenon
    <3>4. QED
      BY <3>1, <3>2, <3>3, Zenon
  <2>3. QED
    BY <2>1, <2>2, Zenon
<1>6. ReaderInv'
  <2> SUFFICES ASSUME NEW r \in Readers
               PROVE
        /\ Loading(r)' => live' \subseteq cand'[r] /\ loaded'[r]["fam"] # 0
        /\ ~Loading(r)' => unread'[r] = {}
        /\ phase'[r] # "idle" /\ loaded'[r]["fam"] = 0 => Unset \in cand'[r]
        /\ phase'[r] # "idle" /\ loaded'[r]["fam"] # 0 =>
             /\ Unset \notin cand'[r]
             /\ \A f \in ({"fam"} \cup DataOf(loaded'[r]["fam"])) \ unread'[r] :
                  \E b \in cand'[r] : b[f] = loaded'[r][f]
    BY Zenon DEF ReaderInv
  <2>1. /\ cand'[r] = cand[r] \/ (Loading(r) /\ cand'[r] = cand[r] \cup {a})
        /\ Loading(r) => cand'[r] = cand[r] \cup {a}
        /\ loaded' = loaded /\ unread' = unread /\ phase' = phase
    BY Zenon DEF readerVars
  <2>2. QED
    BY <2>1, UnsetNotAddr DEF ReaderInv, Loading
<1>7. QED
  BY <1>3, <1>4, <1>5, <1>6, Zenon

\* One Relaxed store of store() keeps RegularInv: the word it writes belongs to
\* an address in every overlapping store().
LEMMA StoreWordRegular ==
    ASSUME RegularInv, AddrTypeOK',
           NEW w \in Writers, NEW g \in Data, StoreWord(w, g)
    PROVE  RegularInv'
<1> USE DEF RegularInv, StoreWord, AddrTypeOK
<1>0. Busy(w)
  BY Zenon DEF WriterInv
<1>1. \A v \in Writers : Busy(v)' <=> Busy(v)
  BY Zenon DEF Busy
<1>2. \A f \in Cells : Explained(f)'
  <2> TAKE f \in Cells
  <2>1. CASE f = g
    <3>1. writing[w] \in live /\ cell'[f] = writing[w][f]
      BY <1>0, <2>1, Zenon DEF WriterInv, Cells
    <3>2. \A v \in Writers : Busy(v)' => writing[w] \in overlap'[v]
      BY <1>0, <1>1, Zenon DEF WriterInv
    <3>3. QED
      BY <3>1, <3>2, Zenon DEF Explained
  <2>2. CASE f # g
    <3>1. PICK b \in live :
             /\ b[f] = cell[f]
             /\ \A v \in Writers : Busy(v) /\ f \in Data \ pending[v] => b \in overlap[v]
      BY Zenon DEF Explained
    <3>2. \A v \in Writers : Busy(v)' /\ f \in Data \ pending'[v] => b \in overlap'[v]
      BY <3>1, <2>2, <1>1, Zenon
    <3>3. QED
      BY <3>1, <3>2, <2>2, Zenon DEF Explained
  <2>3. QED
    BY <2>1, <2>2, Zenon
<1>3. cell'["fam"] # 0 <=> Unset \notin live'
  BY Zenon DEF Data, Cells
<1>4. WriterInv'
  BY <1>0, <1>1, Zenon DEF WriterInv
<1>5. ReaderInv'
  BY DEF ReaderInv, readerVars, Loading
<1>6. QED
  BY <1>2, <1>3, <1>4, <1>5, Zenon

\* The Release store of the family keeps RegularInv: every data cell is already
\* explained by an address that overlaps this store(), so older ones retire.
LEMMA StoreFamilyRegular ==
    ASSUME RegularInv, AddrTypeOK', NEW w \in Writers, StoreFamily(w)
    PROVE  RegularInv'
<1> USE DEF RegularInv, StoreFamily, AddrTypeOK
<1>1. \A v \in Writers : Busy(v)' <=> Busy(v) /\ v # w
  BY Zenon DEF Busy
<1>2. writing[w] \in Addr /\ writing[w] \in live /\ writing[w] \in overlap[w]
  BY Zenon DEF WriterInv, Busy
<1>3. \A f \in Cells : Explained(f)'
  <2> TAKE f \in Cells
  <2>1. CASE f = "fam"
    <3>1. writing[w] \in live' /\ writing[w][f] = cell'[f]
      BY <2>1, <1>2, Zenon
    <3>2. f \notin Data
      BY <2>1, Zenon DEF Data
    <3>3. QED
      BY <3>1, <3>2, Zenon DEF Explained
  <2>2. CASE f # "fam"
    <3>1. PICK b \in live :
             /\ b[f] = cell[f]
             /\ \A v \in Writers : Busy(v) /\ f \in Data \ pending[v] => b \in overlap[v]
      BY Zenon DEF Explained
    <3>2. f \in Data
      BY <2>2, Zenon DEF Cells
    <3>3. b \in live' /\ b[f] = cell'[f]
      BY <3>1, <3>2, <2>2, Zenon
    <3>4. \A v \in Writers : Busy(v)' /\ f \in Data \ pending'[v] => b \in overlap'[v]
      BY <3>1, <1>1, Zenon
    <3>5. QED
      BY <3>3, <3>4, Zenon DEF Explained
  <2>3. QED
    BY <2>1, <2>2, Zenon
<1>4. cell'["fam"] # 0 <=> Unset \notin live'
  <2>1. cell'["fam"] = writing[w]["fam"]
    BY Zenon DEF Cells
  <2>2. QED
    BY <2>1, <1>2, AddrWords, UnsetNotAddr, Zenon
<1>5. WriterInv'
  <2>a. \A u \in Writers : ~Busy(u)' => pending'[u] = {}
    BY <1>1, Zenon DEF WriterInv
  <2> SUFFICES ASSUME NEW u \in Writers, Busy(u)'
               PROVE  /\ writing'[u] \in live'
                      /\ \A v \in Writers : Busy(v)' => writing'[u] \in overlap'[v]
    BY <2>a, Zenon DEF WriterInv
  <2>1. Busy(u) /\ writing'[u] = writing[u]
    BY <1>1, Zenon
  <2>2. QED
    BY <2>1, <1>1, Zenon DEF WriterInv
<1>6. ReaderInv'
  BY DEF ReaderInv, readerVars, Loading
<1>7. QED
  BY <1>3, <1>4, <1>5, <1>6, Zenon

\* Both kinds of load step keep RegularInv.
LEMMA LoadRegular ==
    ASSUME RegularInv, AddrTypeOK', NEW s \in Readers,
           LoadFamily(s) \/ \E g \in Data : LoadWord(s, g)
    PROVE  RegularInv'
<1> USE DEF RegularInv, AddrTypeOK
<1>1. UNCHANGED <<cell, writing, pending, live, overlap>>
  BY Zenon DEF LoadFamily, LoadWord, writerVars
<1>2. (\A f \in Cells : Explained(f))' /\ WriterInv' /\ (cell["fam"] # 0 <=> Unset \notin live)'
  BY <1>1, Zenon DEF Explained, WriterInv, Busy
<1>3. CASE LoadFamily(s)
  <2>1. \E a \in live : a["fam"] = cell["fam"]
    BY Zenon DEF Explained, Cells
  <2>2. ReaderInv'
    <3> SUFFICES ASSUME NEW r \in Readers
                 PROVE
          /\ Loading(r)' => live' \subseteq cand'[r] /\ loaded'[r]["fam"] # 0
          /\ ~Loading(r)' => unread'[r] = {}
          /\ phase'[r] # "idle" /\ loaded'[r]["fam"] = 0 => Unset \in cand'[r]
          /\ phase'[r] # "idle" /\ loaded'[r]["fam"] # 0 =>
               /\ Unset \notin cand'[r]
               /\ \A f \in ({"fam"} \cup DataOf(loaded'[r]["fam"])) \ unread'[r] :
                    \E b \in cand'[r] : b[f] = loaded'[r][f]
      BY Zenon DEF ReaderInv
    <3>1. CASE r # s
      BY <1>3, <3>1, <1>1 DEF ReaderInv, LoadFamily, Loading
    <3>2. CASE r = s
      BY <1>3, <3>2, <1>1, <2>1, UnsetNotAddr DEF LoadFamily, Loading, DataOf, Cells
    <3>3. QED
      BY <3>1, <3>2, Zenon
  <2>3. QED
    BY <1>2, <2>2, Zenon
<1>4. CASE \E g \in Data : LoadWord(s, g)
  <2>1. PICK g \in Data : LoadWord(s, g)
    BY <1>4, Zenon
  <2>2. PICK a \in live : a[g] = cell[g]
    BY Zenon DEF Explained, Cells
  <2>3. g # "fam"
    BY Zenon DEF Data
  <2>4. ReaderInv'
    <3> SUFFICES ASSUME NEW r \in Readers
                 PROVE
          /\ Loading(r)' => live' \subseteq cand'[r] /\ loaded'[r]["fam"] # 0
          /\ ~Loading(r)' => unread'[r] = {}
          /\ phase'[r] # "idle" /\ loaded'[r]["fam"] = 0 => Unset \in cand'[r]
          /\ phase'[r] # "idle" /\ loaded'[r]["fam"] # 0 =>
               /\ Unset \notin cand'[r]
               /\ \A f \in ({"fam"} \cup DataOf(loaded'[r]["fam"])) \ unread'[r] :
                    \E b \in cand'[r] : b[f] = loaded'[r][f]
      BY Zenon DEF ReaderInv
    <3>1. CASE r # s
      BY <2>1, <3>1, <1>1 DEF ReaderInv, LoadWord, Loading
    <3>2. CASE r = s
      <4>1. Loading(s) /\ live \subseteq cand[s] /\ loaded[s]["fam"] # 0 /\ Unset \notin cand[s]
        BY <2>1, Zenon DEF ReaderInv, LoadWord, Loading
      <4>2. loaded'[s] = [loaded[s] EXCEPT ![g] = cell[g]] /\ loaded'[s]["fam"] = loaded[s]["fam"]
        BY <2>1, <2>3 DEF LoadWord, Cells
      <4>3. /\ unread'[s] = unread[s] \ {g} /\ cand'[s] = cand[s]
            /\ phase'[s] # "idle" /\ (phase'[s] # "loading" => unread'[s] = {})
        BY <2>1 DEF LoadWord
      <4>4. ASSUME NEW f \in ({"fam"} \cup DataOf(loaded[s]["fam"])) \ unread'[s]
            PROVE  \E b \in cand[s] : b[f] = loaded'[s][f]
        <5>1. CASE f = g
          BY <5>1, <4>1, <4>2, <2>2 DEF Cells
        <5>2. CASE f # g
          <6>1. f \in ({"fam"} \cup DataOf(loaded[s]["fam"])) \ unread[s] /\ f \in Cells
            BY <5>2, <4>3, Zenon DEF DataOf, Data, Cells
          <6>2. \E b \in cand[s] : b[f] = loaded[s][f]
            BY <6>1, <4>1, Zenon DEF ReaderInv, Loading
          <6>3. QED
            BY <6>1, <6>2, <4>2, <5>2
        <5>3. QED
          BY <5>1, <5>2, Zenon
      <4>5. QED
        BY <3>2, <4>1, <4>2, <4>3, <4>4, <1>1, Zenon DEF Loading
    <3>3. QED
      BY <3>1, <3>2, Zenon
  <2>5. QED
    BY <1>2, <2>4, Zenon
<1>5. QED
  BY <1>3, <1>4, Zenon

\* RegularInv holds initially and every step of the program keeps it.
LEMMA RegularInductive ==
    /\ AddrInit => RegularInv
    /\ RegularInv /\ [AddrNext]_addrVars => RegularInv'
<1>1. AddrInit => RegularInv
  <2> SUFFICES ASSUME AddrInit PROVE RegularInv
    BY Zenon
  <2>1. AddrTypeOK
    BY AddrWords, UnsetNotAddr, Zenon DEF AddrInit, AddrTypeOK
  <2>2. \A f \in Cells : Explained(f)
    BY Zenon DEF AddrInit, Explained, Busy
  <2>3. cell["fam"] # 0 <=> Unset \notin live
    BY UnsetNotAddr, Zenon DEF AddrInit, Cells
  <2>4. WriterInv /\ ReaderInv
    BY Zenon DEF AddrInit, WriterInv, ReaderInv, Busy, Loading
  <2>5. QED
    BY <2>1, <2>2, <2>3, <2>4, Zenon DEF RegularInv
<1>2. ASSUME RegularInv, [AddrNext]_addrVars PROVE RegularInv'
  <2>0. AddrTypeOK'
    BY <1>2, AddrTypeStep, Zenon DEF RegularInv
  <2>1. ASSUME NEW w \in Writers, NEW a \in Addr, BeginStore(w, a) PROVE RegularInv'
    BY <1>2, <2>0, <2>1, BeginStoreRegular, Zenon
  <2>2. CASE UNCHANGED <<cell, writing, pending, loaded, unread, phase, live, overlap, cand>>
    BY <1>2, <2>0, <2>2
    DEF RegularInv, Explained, WriterInv, ReaderInv, Busy, Loading
  <2>3. ASSUME NEW w \in Writers, NEW a \in Addr, IngressStore(w, a) \/ EgressTrack(w, a)
        PROVE  RegularInv'
    BY <2>1, <2>2, <2>3, Zenon DEF IngressStore, EgressTrack, readerVars
  <2>4. ASSUME NEW w \in Writers, NEW f \in Data, StoreWord(w, f) PROVE RegularInv'
    BY <1>2, <2>0, <2>4, StoreWordRegular, Zenon
  <2>5. ASSUME NEW w \in Writers, StoreFamily(w) PROVE RegularInv'
    BY <1>2, <2>0, <2>5, StoreFamilyRegular, Zenon
  <2>6. ASSUME NEW r \in Readers, LoadFamily(r) \/ \E f \in Data : LoadWord(r, f)
        PROVE  RegularInv'
    BY <1>2, <2>0, <2>6, LoadRegular, Zenon
  <2>7. CASE UNCHANGED addrVars
    BY <2>2, <2>7, Zenon DEF addrVars
  <2>8. QED
    BY <1>2, <2>3, <2>4, <2>5, <2>6, <2>7, Zenon DEF AddrNext
<1>3. QED
  BY <1>1, <1>2, Zenon

\* For any addresses and any number of ingress, egress and reader threads, load()
\* is regular cell by cell and never exposes the zeroes of new().
THEOREM LoadIsFieldwiseRegular == AddrSpec => []FieldwiseRegular
<1>1. RegularInv => FieldwiseRegular
  <2> SUFFICES ASSUME RegularInv, NEW r \in Readers, phase[r] = "done"
               PROVE  IF loaded[r]["fam"] = 0
                        THEN Unset \in cand[r]
                        ELSE \A f \in {"fam"} \cup DataOf(loaded[r]["fam"]) :
                               \E a \in cand[r] \cap Addr : a[f] = loaded[r][f]
    BY Zenon DEF FieldwiseRegular
  <2>1. unread[r] = {} /\ phase[r] # "idle"
    BY Zenon DEF RegularInv, ReaderInv, Loading
  <2>2. cand[r] \subseteq Addr \cup {Unset}
    BY Zenon DEF RegularInv, AddrTypeOK
  <2>3. QED
    BY <2>1, <2>2, Zenon DEF RegularInv, ReaderInv
<1>2. QED
  BY <1>1, RegularInductive, PTL DEF AddrSpec

-----------------------------------------------------------------------------
\* While the tracker stores, the cells it has written are those of the last
\* packet's source; between packets all six are.
TrackInv ==
    /\ AddrTypeOK
    /\ object = "wg_peer" =>
         /\ src \in WgAddr \cup {Unset}
         /\ \A w \in Storers : ~Busy(w) /\ pending[w] = {}
         /\ \A w \in Tracker :
              /\ ~Busy(w) => cell = src /\ pending[w] = {}
              /\ Busy(w) => writing[w] = src /\ \A f \in Data \ pending[w] : cell[f] = src[f]

\* The fingerprints of the addresses WireGuard may use, and of the unset cells,
\* are pairwise different.
Injective ==
    \A a, b \in WgAddr \cup {Unset} : Fingerprint(a) = Fingerprint(b) => a = b

\* When no two addresses share a fingerprint, the compare-and-store of the
\* client's egress thread never leaves a stale shared_wg_peer behind.
THEOREM TracksIfInjective ==
    ASSUME Injective
    PROVE  AddrSpec => []TracksWgPeer
<1>1. AddrInit => TrackInv
  <2> SUFFICES ASSUME AddrInit PROVE TrackInv
    BY Zenon
  <2>1. AddrTypeOK
    BY AddrWords, UnsetNotAddr, Zenon DEF AddrInit, AddrTypeOK
  <2>2. \A w \in Storers \cup Tracker : ~Busy(w) /\ pending[w] = {}
    BY Zenon DEF AddrInit, Busy, Writers
  <2>3. cell = src /\ src \in WgAddr \cup {Unset}
    BY Zenon DEF AddrInit
  <2>4. QED
    BY <2>1, <2>2, <2>3, Zenon DEF TrackInv
<1>2. ASSUME TrackInv, [AddrNext]_addrVars PROVE TrackInv'
  <2>0. AddrTypeOK' /\ object' = object
    <3>1. object' = object
      BY <1>2, Zenon
      DEF AddrNext, IngressStore, EgressTrack, StoreWord, StoreFamily, LoadFamily, LoadWord,
          writerVars, addrVars
    <3>2. QED
      BY <1>2, <3>1, AddrTypeStep, Zenon DEF TrackInv
  <2> DEFINE Quiet == \A w \in Storers : ~Busy(w)' /\ pending'[w] = {}
             Follows(t) == /\ ~Busy(t)' => cell' = src' /\ pending'[t] = {}
                           /\ Busy(t)' => /\ writing'[t] = src'
                                          /\ \A f \in Data \ pending'[t] : cell'[f] = src'[f]
  <2> SUFFICES ASSUME object = "wg_peer"
               PROVE  src' \in WgAddr \cup {Unset} /\ Quiet /\ \A t \in Tracker : Follows(t)
    BY <2>0, Zenon DEF TrackInv
  <2>1. /\ src \in WgAddr \cup {Unset} /\ \A w \in Storers : ~Busy(w) /\ pending[w] = {}
        /\ AddrTypeOK /\ \A w \in Storers : w \notin Tracker
    BY <1>2, ThreadAssumption, Zenon DEF TrackInv
  <2>2. ASSUME NEW t \in Tracker, NEW a \in Addr, EgressTrack(t, a)
        PROVE  Follows(t) /\ Quiet /\ src' \in WgAddr
    <3>1. cell = src /\ pending[t] = {} /\ ~Busy(t) /\ src' = a /\ a \in WgAddr /\ t \in Writers
      BY <1>2, <2>2, Zenon DEF TrackInv, EgressTrack, Writers
    <3>2. CASE Fingerprint(cell) # Fingerprint(a)
      <4>1. /\ writing' = [writing EXCEPT ![t] = a] /\ pending' = [pending EXCEPT ![t] = Data]
        BY <2>2, <3>2, Zenon DEF EgressTrack, BeginStore
      <4>2. writing'[t] = a /\ pending'[t] = Data
        BY <2>1, <3>1, <4>1, Zenon DEF AddrTypeOK
      <4>3. Busy(t)'
        BY <4>2, UnsetNotAddr, Zenon DEF Busy
      <4>4. Quiet
        BY <2>1, <4>1, Zenon DEF AddrTypeOK, Busy, Writers
      <4>5. QED
        BY <3>1, <4>2, <4>3, <4>4, Zenon
    <3>3. CASE Fingerprint(cell) = Fingerprint(a)
      <4>1. cell = a
        BY <2>1, <3>1, <3>3, Injective, Zenon DEF Injective
      <4>2. cell' = cell /\ writing' = writing /\ pending' = pending
        BY <2>2, <3>3, Zenon DEF EgressTrack
      <4>3. ~Busy(t)' /\ Quiet
        BY <2>1, <3>1, <4>2, Zenon DEF Busy
      <4>4. QED
        BY <3>1, <4>1, <4>2, <4>3, Zenon
    <3>4. QED
      BY <3>2, <3>3, Zenon
  <2>3. ASSUME NEW t \in Tracker, NEW f \in Data, StoreWord(t, f)
        PROVE  Follows(t) /\ Quiet /\ src' = src
    <3>1. Busy(t) /\ writing[t] = src /\ writing' = writing /\ src' = src /\ t \in Writers
      BY <1>2, <2>3, Zenon DEF TrackInv, StoreWord, Writers
    <3>2. /\ cell' = [cell EXCEPT ![f] = src[f]] /\ pending' = [pending EXCEPT ![t] = @ \ {f}]
          /\ pending'[t] = pending[t] \ {f}
      BY <2>1, <2>3, <3>1, Zenon DEF AddrTypeOK, StoreWord
    <3>3. \A g \in Data \ pending'[t] : cell'[g] = src[g]
      BY <1>2, <3>1, <3>2, Zenon DEF TrackInv, AddrTypeOK, Cells
    <3>4. Quiet
      BY <2>1, <3>1, <3>2, Zenon DEF AddrTypeOK, Busy, Writers
    <3>5. QED
      BY <3>1, <3>3, <3>4, Zenon DEF Busy
  <2>4. ASSUME NEW t \in Tracker, StoreFamily(t)
        PROVE  Follows(t) /\ Quiet /\ src' = src
    <3>1. /\ writing[t] = src /\ src' = src /\ pending' = pending /\ pending[t] = {}
          /\ cell' = [cell EXCEPT !["fam"] = src["fam"]] /\ t \in Writers
          /\ writing' = [writing EXCEPT ![t] = Unset]
          /\ \A g \in Data : cell[g] = src[g]
      BY <1>2, <2>4, Zenon DEF TrackInv, StoreFamily, Writers
    <3>2. writing'[t] = Unset
      BY <2>1, <3>1, Zenon DEF AddrTypeOK
    <3>3. src \in [Cells -> Nat] /\ cell \in [Cells -> Nat]
      BY <2>1, AddrWords, Zenon DEF AddrTypeOK
    <3>4. \A g \in Cells : cell'[g] = src[g]
      BY <3>1, <3>3, Zenon DEF Cells
    <3>5. cell' = src
      BY <3>1, <3>3, <3>4, Zenon
    <3>6. Quiet
      BY <2>1, <3>1, Zenon DEF AddrTypeOK, Busy, Writers
    <3>7. QED
      BY <3>1, <3>2, <3>5, <3>6, Zenon DEF Busy
  <2>5. CASE UNCHANGED <<cell, writing, pending, src>>
    BY <1>2, <2>1, <2>5, Zenon DEF TrackInv, Busy
  <2>6. \A s, t \in Tracker : s = t
    BY ThreadAssumption, Zenon
  <2>7. ASSUME NEW t \in Tracker, Follows(t) PROVE \A s \in Tracker : Follows(s)
    <3> HIDE DEF Follows
    <3>1. QED
      BY <2>6, <2>7, Zenon
  <2>8. ASSUME NEW w \in Writers, NEW f \in Data, StoreWord(w, f) PROVE w \in Tracker
    BY <2>1, <2>8, Zenon DEF StoreWord, Writers
  <2>9. ASSUME NEW w \in Writers, StoreFamily(w) PROVE w \in Tracker
    BY <2>1, <2>9, Zenon DEF StoreFamily, Writers
  <2>10. ASSUME NEW w \in Writers, NEW a \in Addr PROVE ~IngressStore(w, a)
    BY Zenon DEF IngressStore
  <2>11. ASSUME NEW w \in Writers, NEW a \in Addr, EgressTrack(w, a) PROVE w \in Tracker
    BY <2>11, Zenon DEF EgressTrack
  <2>12. CASE \/ \E r \in Readers : LoadFamily(r)
              \/ \E r \in Readers, f \in Data : LoadWord(r, f)
              \/ UNCHANGED addrVars
    BY <2>5, <2>12, Zenon DEF LoadFamily, LoadWord, writerVars, addrVars
  <2> HIDE DEF Follows, Quiet
  <2>13. QED
    BY <1>2, <2>1, <2>2, <2>3, <2>4, <2>7, <2>8, <2>9, <2>10, <2>11, <2>12, Zenon DEF AddrNext
<1>3. TrackInv => TracksWgPeer
  BY Zenon DEF TrackInv, TracksWgPeer
<1>4. QED
  BY <1>1, <1>2, <1>3, PTL DEF AddrSpec

\* IPv4 addresses with two-bit words and a nonzero port have pairwise different
\* fingerprints, so shared_wg_peer is exact when WireGuard is reached over IPv4.
THEOREM TracksIPv4 ==
    ASSUME \A a \in WgAddr : a["fam"] = 4 /\ a["ip0"] \in 0..3 /\ a["port"] \in 1..3
    PROVE  AddrSpec => []TracksWgPeer
<1>1. \A x \in 0..3 : Xor(x, 0) = x /\ Xor(0, x) = x
  BY DEF Xor
<1>0. WgAddr \subseteq Addr
  BY DEF Addr
<1>2. ASSUME NEW a \in WgAddr \cup {Unset}
      PROVE  Fingerprint(a) = <<a["ip0"], a["port"]>>
  <2>1. /\ a["ip0"] \in 0..3 /\ a["port"] \in 0..3
        /\ a["ip1"] = 0 /\ a["ip2"] = 0 /\ a["ip3"] = 0
    BY <1>0, AddrAssumption, UnsetNotAddr DEF Cells, Data
  <2>2. QED
    BY <1>1, <2>1 DEF Fingerprint
<1>3. ASSUME NEW a \in WgAddr \cup {Unset}, NEW b \in WgAddr \cup {Unset},
             Fingerprint(a) = Fingerprint(b)
      PROVE  a = b
  <2>1. a["ip0"] = b["ip0"] /\ a["port"] = b["port"]
    BY <1>2, <1>3
  <2>2. a["fam"] = b["fam"]
    BY <2>1, UnsetNotAddr DEF Cells, Data
  <2>3. \A f \in {"ip1", "ip2", "ip3"} : a[f] = 0 /\ b[f] = 0
    BY <1>0, AddrAssumption, UnsetNotAddr DEF Cells, Data
  <2>4. \A f \in Cells : a[f] = b[f]
    BY <2>1, <2>2, <2>3, Zenon DEF Cells, Data
  <2>5. QED
    BY <1>0, <2>4, AddrWords
<1>4. QED
  BY <1>3, TracksIfInjective, Zenon DEF Injective

-----------------------------------------------------------------------------
(* BatchRecv                                                               *)

\* The larger and the smaller of two numbers, as the community modules choose
\* them.
LEMMA MaxOfTwo == ASSUME NEW a \in Nat, NEW b \in Nat
                  PROVE  Max({a, b}) = IF a >= b THEN a ELSE b
<1>1. CASE a >= b
  BY <1>1 DEF Max
<1>2. CASE ~(a >= b)
  BY <1>2 DEF Max
<1> QED
  BY <1>1, <1>2, Zenon

\* The smaller of two numbers, as the size of a batch is computed.
LEMMA MinOfTwo == ASSUME NEW a \in Nat, NEW b \in Nat
                  PROVE  Min({a, b}) = IF a <= b THEN a ELSE b
<1>1. CASE a <= b
  BY <1>1 DEF Min
<1>2. CASE ~(a <= b)
  BY <1>2 DEF Min
<1> QED
  BY <1>1, <1>2, Zenon

\* The number of slots, whatever it is.
LEMMA BatchNat == batch \in Nat
<1>1. pkt_buf(OuterMtu) \in Nat \ {0}
  BY Assumptions, MaxOfTwo DEF pkt_buf
<1>2. 65536 \div pkt_buf(OuterMtu) \in Nat
  BY <1>1
<1> QED
  BY <1>2, MinOfTwo DEF batch

\* What recv() takes from the kernel: n datagrams, no more than there are slots
\* or datagrams.
LEMMA TakenFits ==
  ASSUME NEW q \in Seq(Datagram), NEW n \in 1 .. Min({batch, Len(q)})
  PROVE  n \in Nat /\ 1 <= n /\ n <= batch /\ n <= Len(q)
BY BatchNat, MinOfTwo

\* Handing out a datagram keeps the types.
LEMMA HandOutType ==
  ASSUME NEW d \in Datagram, got \in Seq(Datagram), HandOut(d)
  PROVE  got' \in Seq(Datagram) /\ pc' \in {"recv", "handle", "panic"}
BY DEF HandOut

\* The receiver starts with no batch.
LEMMA InitInv == Init => Inv
BY BatchNat, Assumptions DEF Init, Inv, TypeOK, SlotsFresh, Slots

\* A datagram that arrives touches no slot.
LEMMA ArriveInv == Inv /\ Arrive => Inv'
<1> SUFFICES ASSUME Inv, Arrive PROVE Inv'
  BY Zenon
<1>1. arrived' \in 0..MaxMsgs /\ arrived + 1 \in Datagram
  BY Assumptions DEF Inv, TypeOK, Arrive, Datagram
<1>2. kq' \in Seq(Datagram)
  BY <1>1, AppendProperties, Zenon DEF Inv, TypeOK, Arrive
<1>3. TypeOK'
  BY <1>1, <1>2, Zenon DEF Inv, TypeOK, Arrive, Slots
<1>4. SlotsFresh'
  BY Zenon DEF Inv, SlotsFresh, Arrive
<1> QED
  BY <1>3, <1>4, Zenon DEF Inv

\* Handing out the next datagram of the batch keeps the slots behind it fresh.
LEMMA RecvSlotInv == Inv /\ RecvSlot => Inv'
<1> SUFFICES ASSUME Inv, RecvSlot PROVE Inv'
  OBVIOUS
<1>1. mem[current + 1] \in Datagram
  BY BatchNat DEF Inv, TypeOK, SlotsFresh, RecvSlot
<1>2. got' \in Seq(Datagram) /\ pc' \in {"recv", "handle", "panic"}
  BY <1>1, HandOutType, Zenon DEF Inv, TypeOK, RecvSlot
<1>3. TypeOK'
  BY <1>2, BatchNat DEF Inv, TypeOK, RecvSlot, Slots
<1>4. SlotsFresh'
  BY <1>1, BatchNat DEF Inv, TypeOK, SlotsFresh, RecvSlot
<1> QED
  BY <1>3, <1>4 DEF Inv

\* A refill fills the slots that it counts.
LEMMA RecvBatchInv == Inv /\ RecvBatch => Inv'
<1> SUFFICES ASSUME Inv, RecvBatch PROVE Inv'
  OBVIOUS
<1>1. PICK n \in 1 .. Min({batch, Len(kq)}) :
        /\ mem' = [i \in Slots |-> IF i <= n THEN kq[i] ELSE mem[i]]
        /\ count' = n
        /\ kq' = SubSeq(kq, n + 1, Len(kq))
  BY Zenon DEF RecvBatch
<1>2. kq \in Seq(Datagram) /\ mem \in [Slots -> Datagram \cup {0}]
  BY Zenon DEF Inv, TypeOK
<1>3. n \in Nat /\ 1 <= n /\ n <= batch /\ n <= Len(kq)
  BY <1>2, TakenFits, Zenon
<1>4. \A i \in 1..Len(kq) : kq[i] \in Datagram
  BY <1>2, LenProperties, Zenon
<1>5. got' \in Seq(Datagram) /\ pc' \in {"recv", "handle", "panic"}
  BY <1>3, <1>4, HandOutType DEF Inv, TypeOK, RecvBatch
<1>6. kq' \in Seq(Datagram)
  <2>1. \A i \in (n + 1) .. Len(kq) : kq[i] \in Datagram
    BY <1>2, <1>3, <1>4
  <2>2. n + 1 \in Int /\ Len(kq) \in Int
    BY <1>2, <1>3, LenProperties
  <2> QED
    BY <1>1, <2>1, <2>2, SubSeqProperties, Zenon
<1>7. mem' \in [Slots -> Datagram \cup {0}]
  <2>1. \A i \in Slots : (IF i <= n THEN kq[i] ELSE mem[i]) \in Datagram \cup {0}
    BY <1>2, <1>3, <1>4, BatchNat DEF Slots
  <2> QED
    BY <1>1, <2>1, Zenon
<1>8. TypeOK'
  BY <1>1, <1>3, <1>5, <1>6, <1>7, BatchNat DEF Inv, TypeOK, RecvBatch, Slots
<1>9. SlotsFresh'
  BY <1>1, <1>3, <1>4, BatchNat DEF SlotsFresh, RecvBatch, Slots
<1> QED
  BY <1>8, <1>9, Zenon DEF Inv

\* Encapsulation in place touches no slot that is still to be handed out.
LEMMA HandleInv == Inv /\ Handle => Inv'
<1> SUFFICES ASSUME Inv, Handle PROVE Inv'
  OBVIOUS
<1>1. mem' \in [Slots -> Datagram \cup {0}]
  <2>1. mem' = [mem EXCEPT ![current] = 0]
    BY Zenon DEF Handle
  <2> QED
    BY <2>1, Zenon DEF Inv, TypeOK
<1>2. pc' \in {"recv", "panic"}
  BY Zenon DEF Handle
<1>3. TypeOK'
  BY <1>1, <1>2, BatchNat, Zenon DEF Inv, TypeOK, Handle, Slots
<1>4. SlotsFresh'
  BY <1>2, BatchNat DEF Inv, TypeOK, SlotsFresh, Handle, Slots
<1> QED
  BY <1>3, <1>4 DEF Inv

\* Slots handed out are the only ones a handler has worked on: the rest of the
\* batch is what the kernel put there.
THEOREM SlotsStayFresh == Spec => []Inv
<1>1. Inv /\ UNCHANGED vars => Inv'
  BY Zenon DEF Inv, TypeOK, SlotsFresh, Slots, vars
<1>2. Inv /\ [Next]_vars => Inv'
  BY <1>1, ArriveInv, RecvSlotInv, RecvBatchInv, HandleInv, Zenon DEF Next
<1> QED
  BY InitInv, <1>2, PTL DEF Spec

-----------------------------------------------------------------------------
(* The simulation                                                          *)

\* The r slots of m after position c hold elements of D.
Filled(m, c, r, D) == \A i \in 1..r : m[c + i] \in D

\* What waits is a sequence of datagrams.
LEMMA WaitingSeq ==
  ASSUME NEW D, NEW m, NEW c \in Nat, NEW r \in Nat, NEW k \in Seq(D),
         Filled(m, c, r, D)
  PROVE  /\ Waiting(m, c, r, k) \in Seq(D)
         /\ Len(Waiting(m, c, r, k)) = r + Len(k)
<1>1. Len(k) \in Nat /\ r + Len(k) \in Nat /\ \A i \in 1..Len(k) : k[i] \in D
  BY LenProperties
<1>2. ASSUME NEW i \in 1 .. (r + Len(k))
      PROVE  (IF i <= r THEN m[c + i] ELSE k[i - r]) \in D
  <2>1. CASE i <= r
    BY <2>1 DEF Filled
  <2>2. CASE ~(i <= r)
    <3>1. i - r \in 1..Len(k)
      BY <1>1, <2>2
    <3> QED
      BY <1>1, <2>2, <3>1, Zenon
  <2> QED
    BY <2>1, <2>2, Zenon
<1>3. Waiting(m, c, r, k) \in [1 .. (r + Len(k)) -> D]
  BY <1>2, Zenon DEF Waiting
<1>4. Waiting(m, c, r, k) \in Seq(D)
  BY <1>1, <1>3, SeqDef
<1> QED
  BY <1>1, <1>3, <1>4, LenProperties

\* A datagram that arrives waits behind the others.
LEMMA WaitingAppend ==
  ASSUME NEW D, NEW m, NEW c \in Nat, NEW r \in Nat, NEW k \in Seq(D), NEW d \in D,
         Filled(m, c, r, D)
  PROVE  Waiting(m, c, r, Append(k, d)) = Append(Waiting(m, c, r, k), d)
<1>1. Append(k, d) \in Seq(D) /\ Len(Append(k, d)) = Len(k) + 1 /\ Len(k) \in Nat
  BY AppendProperties, LenProperties, Zenon
<1>2. PICK w : w = Waiting(m, c, r, k)
  BY Zenon
<1>3. PICK a : a = Waiting(m, c, r, Append(k, d))
  BY Zenon
<1>4. w \in Seq(D) /\ Len(w) = r + Len(k)
  BY <1>2, WaitingSeq
<1>5. a \in Seq(D) /\ Len(a) = r + Len(Append(k, d))
  <2>1. PICK l \in Seq(D) : l = Append(k, d)
    BY <1>1, Zenon
  <2>2. Waiting(m, c, r, l) \in Seq(D) /\ Len(Waiting(m, c, r, l)) = r + Len(l)
    BY WaitingSeq
  <2> QED
    BY <1>3, <2>1, <2>2, Zenon
<1>6. Append(w, d) \in Seq(D) /\ Len(Append(w, d)) = r + Len(k) + 1
  BY <1>1, <1>4, AppendProperties
<1>7. ASSUME NEW i \in 1 .. (r + Len(k) + 1)
      PROVE  a[i] = Append(w, d)[i]
  <2>1. a[i] = IF i <= r THEN m[c + i] ELSE Append(k, d)[i - r]
    BY <1>1, <1>3 DEF Waiting
  <2>2. CASE i <= r + Len(k)
    <3>1. Append(w, d)[i] = w[i]
      BY <1>1, <1>4, <2>2, AppendProperties
    <3>2. w[i] = IF i <= r THEN m[c + i] ELSE k[i - r]
      BY <1>1, <1>2, <2>2 DEF Waiting
    <3>3. i > r => i - r \in 1..Len(k) /\ Append(k, d)[i - r] = k[i - r]
      BY <1>1, <2>2, AppendProperties
    <3> QED
      BY <2>1, <3>1, <3>2, <3>3
  <2>3. CASE i = r + Len(k) + 1
    <3>1. Append(w, d)[i] = d
      BY <1>1, <1>4, <2>3, AppendProperties
    <3>2. i - r = Len(k) + 1 /\ ~(i <= r)
      BY <1>1, <2>3
    <3>3. Append(k, d)[Len(k) + 1] = d
      BY AppendProperties, Zenon
    <3> QED
      BY <2>1, <3>1, <3>2, <3>3, Zenon
  <2>4. i <= r + Len(k) \/ i = r + Len(k) + 1
    BY <1>1
  <2> QED
    BY <2>2, <2>3, <2>4, Zenon
<1>8. Len(a) = Len(Append(w, d)) /\ Len(a) = r + Len(k) + 1
  BY <1>1, <1>5, <1>6
<1>9. a = Append(w, d)
  BY <1>5, <1>6, <1>7, <1>8, SeqEqual, Zenon
<1> QED
  BY <1>2, <1>3, <1>9, Zenon

\* The first of those that wait is in the next slot.
LEMMA WaitingHead ==
  ASSUME NEW D, NEW m, NEW c \in Nat, NEW r \in Nat, NEW k \in Seq(D),
         r > 0, Filled(m, c, r, D)
  PROVE  Len(Waiting(m, c, r, k)) > 0 /\ Head(Waiting(m, c, r, k)) = m[c + 1]
<1>1. PICK w : w = Waiting(m, c, r, k)
  BY Zenon
<1>2. Len(k) \in Nat
  BY LenProperties, Zenon
<1>3. w \in Seq(D) /\ Len(w) = r + Len(k)
  BY <1>1, WaitingSeq
<1>4. w[1] = m[c + 1]
  BY <1>1, <1>2 DEF Waiting
<1> QED
  BY <1>1, <1>2, <1>3, <1>4

\* As an operator, so that the provers see an atom.
IsTail(t, w) == t = Tail(w)

\* recv() from a slot takes the first of those that wait.
LEMMA WaitingTail ==
  ASSUME NEW D, NEW m, NEW c \in Nat, NEW r \in Nat, NEW k \in Seq(D),
         r > 0, Filled(m, c, r, D)
  PROVE  IsTail(Waiting(m, c + 1, r - 1, k), Waiting(m, c, r, k))
<1>1. PICK w : w = Waiting(m, c, r, k)
  OBVIOUS
<1>2. PICK a : a = Waiting(m, c + 1, r - 1, k)
  BY Zenon
<1>3. Len(k) \in Nat
  BY LenProperties
<1>4. w \in Seq(D) /\ Len(w) = r + Len(k)
  BY <1>1, WaitingSeq
<1>5. a \in Seq(D) /\ Len(a) = (r - 1) + Len(k)
  <2>1. Filled(m, c + 1, r - 1, D)
    <3>1. ASSUME NEW i \in 1..(r - 1) PROVE m[c + 1 + i] \in D
      <4>1. i + 1 \in 1..r /\ c + 1 + i = c + (i + 1)
        OBVIOUS
      <4> QED
        BY <4>1, Zenon DEF Filled
    <3> QED
      BY <3>1, Zenon DEF Filled
  <2>2. c + 1 \in Nat /\ r - 1 \in Nat
    OBVIOUS
  <2> QED
    BY <1>2, <2>1, <2>2, WaitingSeq
<1>6. w # <<>>
  BY <1>3, <1>4
<1>8. Tail(w) \in Seq(D) /\ Len(Tail(w)) = (r - 1) + Len(k)
  BY <1>3, <1>4, <1>6, HeadTailProperties
<1>9. ASSUME NEW i \in 1 .. ((r - 1) + Len(k)) PROVE a[i] = Tail(w)[i]
  <2>1. a[i] = IF i <= r - 1 THEN m[c + 1 + i] ELSE k[i - (r - 1)]
    BY <1>2, Zenon DEF Waiting
  <2>2. i + 1 \in 1 .. (r + Len(k))
    BY <1>3
  <2>3. w[i + 1] = IF i + 1 <= r THEN m[c + (i + 1)] ELSE k[i + 1 - r]
    BY <1>1, <2>2 DEF Waiting
  <2>4. c + 1 + i = c + (i + 1) /\ i - (r - 1) = i + 1 - r /\ (i + 1 <= r <=> i <= r - 1)
    BY <1>3
  <2>5. Tail(w)[i] = w[i + 1]
    BY <1>4, <1>6, <1>8, HeadTailProperties, Zenon
  <2> QED
    BY <2>1, <2>3, <2>4, <2>5, Zenon
<1>10. a = Tail(w)
  BY <1>5, <1>8, <1>9, SeqEqual, Zenon
<1> QED
  BY <1>1, <1>2, <1>10, Zenon DEF IsTail

\* With the batch used up only the kernel's queue waits.
LEMMA WaitingKernel ==
  ASSUME NEW D, NEW m, NEW c \in Nat, NEW k \in Seq(D)
  PROVE  Waiting(m, c, 0, k) = k
<1>1. PICK w : w = Waiting(m, c, 0, k)
  BY Zenon
<1>2. Len(k) \in Nat
  BY LenProperties, Zenon
<1>3. Filled(m, c, 0, D)
  BY DEF Filled
<1>4. w \in Seq(D) /\ Len(w) = Len(k)
  BY <1>1, <1>2, <1>3, WaitingSeq
<1>5. ASSUME NEW i \in 1..Len(k) PROVE w[i] = k[i]
  BY <1>1, <1>2 DEF Waiting
<1>6. w = k
  BY <1>4, <1>5, SeqEqual, Zenon
<1> QED
  BY <1>1, <1>6, Zenon

\* recv() that refills the slots takes the first of the kernel's queue.
LEMMA WaitingRefill ==
  ASSUME NEW D, NEW m, NEW k \in Seq(D), NEW n \in Nat \ {0}, n <= Len(k),
         \A i \in 1..n : m[i] = k[i]
  PROVE  Waiting(m, 1, n - 1, SubSeq(k, n + 1, Len(k))) = Tail(k)
<1>1. Len(k) \in Nat /\ \A i \in 1..Len(k) : k[i] \in D
  BY LenProperties, Zenon
<1>2. PICK l : l = SubSeq(k, n + 1, Len(k))
  BY Zenon
<1>3. /\ l \in Seq(D)
      /\ Len(l) = Len(k) - n
      /\ \A i \in 1 .. (Len(k) - n) : l[i] = k[n + i]
  <2>1. \A i \in (n + 1) .. Len(k) : k[i] \in D
    BY <1>1
  <2>2. n + 1 \in Int /\ Len(k) \in Int
    BY <1>1
  <2>3. /\ l \in Seq(D)
        /\ Len(l) = IF n + 1 <= Len(k) THEN Len(k) - (n + 1) + 1 ELSE 0
        /\ \A i \in 1 .. (Len(k) - (n + 1) + 1) : l[i] = k[n + 1 + i - 1]
    BY <1>2, <2>1, <2>2, SubSeqProperties
  <2>4. Len(l) = Len(k) - n /\ Len(k) - (n + 1) + 1 = Len(k) - n
    BY <1>1, <2>3
  <2>5. ASSUME NEW i \in 1 .. (Len(k) - n) PROVE l[i] = k[n + i]
    <3>1. n + 1 + i - 1 = n + i
      OBVIOUS
    <3> QED
      BY <2>3, <2>4, <3>1, Zenon
  <2> QED
    BY <2>3, <2>4, <2>5, Zenon
<1>4. PICK w : w = Waiting(m, 1, n - 1, l)
  BY Zenon
<1>5. Filled(m, 1, n - 1, D)
  <2>1. ASSUME NEW i \in 1..(n - 1) PROVE m[1 + i] \in D
    <3>1. 1 + i \in 1..n /\ 1 + i \in 1..Len(k)
      BY <1>1
    <3> QED
      BY <1>1, <3>1, Zenon
  <2> QED
    BY <2>1, Zenon DEF Filled
<1>6. w \in Seq(D) /\ Len(w) = (n - 1) + Len(l)
  <2>1. PICK c \in Nat : c = 1
    BY Zenon
  <2>2. PICK r \in Nat : r = n - 1
    OBVIOUS
  <2>3. Filled(m, c, r, D) /\ l \in Seq(D)
    BY <1>3, <1>5, <2>1, <2>2, Zenon
  <2>4. Waiting(m, c, r, l) \in Seq(D) /\ Len(Waiting(m, c, r, l)) = r + Len(l)
    BY <2>3, WaitingSeq
  <2> QED
    BY <1>4, <2>1, <2>2, <2>4, Zenon
<1>7. k # <<>>
  BY <1>1
<1>8. Tail(k) \in Seq(D) /\ Len(Tail(k)) = Len(k) - 1
  BY <1>1, <1>7, HeadTailProperties, Zenon
<1>9. ASSUME NEW i \in 1 .. (Len(k) - 1) PROVE w[i] = Tail(k)[i]
  <2>1. Tail(k)[i] = k[i + 1]
    BY <1>1, <1>7, <1>8, HeadTailProperties, Zenon
  <2>2. w[i] = IF i <= n - 1 THEN m[1 + i] ELSE l[i - (n - 1)]
    <3>1. i \in 1 .. ((n - 1) + Len(l))
      BY <1>1, <1>3
    <3> QED
      BY <1>4, <3>1, Zenon DEF Waiting
  <2>3. CASE i <= n - 1
    <3>1. 1 + i \in 1..n /\ 1 + i = i + 1
      BY <2>3
    <3> QED
      BY <2>1, <2>2, <2>3, <3>1, Zenon
  <2>4. CASE ~(i <= n - 1)
    <3>1. i - (n - 1) \in 1 .. (Len(k) - n) /\ n + (i - (n - 1)) = i + 1
      BY <1>1, <2>4
    <3> QED
      BY <1>3, <2>1, <2>2, <2>4, <3>1, Zenon
  <2> QED
    BY <2>3, <2>4, Zenon
<1>10. w = Tail(k)
  <2>1. Len(w) = Len(k) - 1
    BY <1>1, <1>3, <1>6
  <2> QED
    BY <1>6, <1>8, <1>9, <2>1, SeqEqual, Zenon
<1> QED
  BY <1>2, <1>4, <1>10, Zenon

\* What the invariant says of the slots, in the form the lemmas above use.
LEMMA SlotsFilled ==
  ASSUME Inv
  PROVE  /\ current \in Nat /\ count - current \in Nat /\ kq \in Seq(Datagram)
         /\ Filled(mem, current, count - current, Datagram)
<1>1. current \in Nat /\ count \in Nat /\ current <= count /\ kq \in Seq(Datagram)
  BY BatchNat DEF Inv, TypeOK
<1>2. ASSUME NEW i \in 1 .. (count - current) PROVE mem[current + i] \in Datagram
  <2>1. current + i \in (current + 1) .. count
    BY <1>1
  <2> QED
    BY <2>1, Zenon DEF Inv, SlotsFresh
<1> QED
  BY <1>1, <1>2 DEF Filled

\* The receiver starts as the socket does.
LEMMA InitSim == Init => Sock!Init
<1> SUFFICES ASSUME Init PROVE Pending = <<>>
  BY Zenon DEF Init, Sock!Init
<1>1. kq \in Seq(Datagram) /\ kq = <<>> /\ current \in Nat /\ count - current = 0
  BY DEF Init
<1> QED
  BY <1>1, WaitingKernel, Zenon DEF Pending

\* A datagram that arrives joins the end of the mapped queue.
LEMMA ArriveSim == Inv /\ Arrive => Sock!Next
<1> SUFFICES ASSUME Inv, Arrive PROVE Sock!Next
  BY Zenon
<1>1. CASE Len(kq) < RcvBuf
  <2>1. arrived + 1 \in Datagram
    BY Assumptions DEF Inv, TypeOK, Arrive, Datagram
  <2>2. PICK d \in Datagram : d = arrived + 1
    BY <2>1, Zenon
  <2>3. PICK r : r = count - current
    BY Zenon
  <2>4. Waiting(mem, current, r, Append(kq, d)) = Append(Waiting(mem, current, r, kq), d)
    <3>1. /\ current \in Nat /\ r \in Nat /\ kq \in Seq(Datagram)
          /\ Filled(mem, current, r, Datagram)
      BY <2>3, SlotsFilled, Zenon
    <3> QED
      BY <3>1, WaitingAppend
  <2>5. Pending' = Append(Pending, d)
    BY <1>1, <2>2, <2>3, <2>4, Zenon DEF Arrive, Pending
  <2> QED
    BY <2>2, <2>5, Zenon DEF Arrive, Sock!Next, Sock!Arrive
<1>2. CASE ~(Len(kq) < RcvBuf)
  <2>1. Pending' = Pending
    BY <1>2, Zenon DEF Arrive, Pending
  <2> QED
    BY <2>1, Zenon DEF Arrive, Sock!Next, Sock!Overflow
<1> QED
  BY <1>1, <1>2, Zenon

\* Handing out takes the head of the mapped queue.
LEMMA RecvSlotSim == Inv /\ RecvSlot => Sock!Next
<1> SUFFICES ASSUME Inv, RecvSlot PROVE Sock!Next
  OBVIOUS
<1>1. PICK r \in Nat : r = count - current /\ r > 0
  BY SlotsFilled, BatchNat DEF RecvSlot, Inv, TypeOK
<1>2. /\ Waiting(mem, current, r, kq) # <<>>
      /\ Head(Waiting(mem, current, r, kq)) = mem[current + 1]
      /\ Waiting(mem, current + 1, r - 1, kq) = Tail(Waiting(mem, current, r, kq))
  <2>1. /\ current \in Nat /\ kq \in Seq(Datagram)
        /\ Filled(mem, current, r, Datagram) /\ r > 0
    BY <1>1, SlotsFilled, Zenon
  <2>2. Len(Waiting(mem, current, r, kq)) > 0 /\ Head(Waiting(mem, current, r, kq)) = mem[current + 1]
    BY <2>1, WaitingHead
  <2>3. IsTail(Waiting(mem, current + 1, r - 1, kq), Waiting(mem, current, r, kq))
    BY <2>1, WaitingTail, Zenon
  <2> QED
    BY <2>2, <2>3 DEF IsTail
<1>3. count' - current' = r - 1
  BY <1>1, SlotsFilled, BatchNat DEF RecvSlot, Inv, TypeOK
<1>4. Pending' = Tail(Pending) /\ Pending # <<>> /\ Head(Pending) = mem[current + 1]
  BY <1>1, <1>2, <1>3, Zenon DEF RecvSlot, Pending
<1> QED
  BY <1>4, Zenon DEF RecvSlot, HandOut, Sock!Next, Sock!Recv

\* A refill and the handing out after it take the head of the mapped queue.
LEMMA RecvBatchSim == Inv /\ RecvBatch => Sock!Next
<1> SUFFICES ASSUME Inv, RecvBatch PROVE Sock!Next
  OBVIOUS
<1>1. PICK n \in 1 .. Min({batch, Len(kq)}) :
        /\ mem' = [i \in Slots |-> IF i <= n THEN kq[i] ELSE mem[i]]
        /\ count' = n
        /\ kq' = SubSeq(kq, n + 1, Len(kq))
  BY DEF RecvBatch
<1>2. kq \in Seq(Datagram) /\ kq # <<>> /\ current \in Nat /\ count - current = 0
  BY SlotsFilled, BatchNat DEF RecvBatch, Inv, TypeOK
<1>3. n \in Nat /\ 1 <= n /\ n <= batch /\ n <= Len(kq)
  BY <1>2, TakenFits, Zenon
<1>4. PICK m : m = mem'
  BY Zenon
<1>5. \A i \in 1..n : m[i] = kq[i]
  BY <1>1, <1>3, <1>4, BatchNat DEF Slots
<1>6. Waiting(m, 1, n - 1, SubSeq(kq, n + 1, Len(kq))) = Tail(kq)
  BY <1>2, <1>3, <1>5, WaitingRefill
<1>7. Pending = kq
  BY <1>2, WaitingKernel, Zenon DEF Pending
<1>8. Pending' = Tail(kq)
  BY <1>1, <1>4, <1>6, Zenon DEF RecvBatch, Pending
<1>9. Head(kq) = kq[1]
  BY <1>2
<1> QED
  BY <1>2, <1>7, <1>8, <1>9, Zenon DEF RecvBatch, HandOut, Sock!Next, Sock!Recv

\* A handler works on the slot it holds, which no longer waits.
LEMMA HandleSim == Inv /\ Handle => UNCHANGED <<Pending, got, arrived>>
<1> SUFFICES ASSUME Inv, Handle PROVE Pending' = Pending
  BY Zenon DEF Handle
<1>1. PICK r \in Nat : r = count - current
  BY SlotsFilled, Zenon
<1>2. current \in Nat /\ current + r <= batch /\ batch \in Nat /\ mem \in [Slots -> Datagram \cup {0}]
  BY <1>1, SlotsFilled, BatchNat DEF Inv, TypeOK
<1>3. mem' = [mem EXCEPT ![current] = 0] /\ kq' = kq /\ count' - current' = r /\ current' = current
  BY <1>1, Zenon DEF Handle
<1>4. \A i \in 1..r : mem'[current + i] = mem[current + i]
  BY <1>2, <1>3 DEF Slots
<1>5. PICK m : m = mem'
  BY Zenon
<1>6. Waiting(m, current, r, kq) = Waiting(mem, current, r, kq)
  BY <1>1, <1>4, <1>5, SlotsFilled, LenProperties DEF Waiting
<1> QED
  BY <1>1, <1>3, <1>5, <1>6, Zenon DEF Pending

\* Seen from the loops, the batched receiver of src/userspace.rs is a socket
\* that hands over one datagram a call, in order and once: slots, refills and
\* work in place do not show.
THEOREM BatchImplementsSocket == Spec => ImplementsSocket
<1>1. Inv /\ UNCHANGED vars => UNCHANGED <<Pending, got, arrived>>
  BY Zenon DEF vars, Pending
<1>2. Inv /\ [Next]_vars => [Sock!Next]_<<Pending, got, arrived>>
  BY <1>1, ArriveSim, RecvSlotSim, RecvBatchSim, HandleSim, Zenon DEF Next
<1> QED
  BY InitSim, <1>2, SlotsStayFresh, PTL DEF Spec, ImplementsSocket, Sock!Spec

-----------------------------------------------------------------------------
(* The slot is large enough                                                *)

\* Encapsulation grows a datagram by at most 25 bytes from 220 bytes on, and by
\* at most 80 below, unless it gets the long header, which takes at most 1264.
LEMMA PaddingBounded ==
  ASSUME NEW m \in {"gut", "quic", "syslog", "sip"}, NEW n \in Nat, NEW p \in pad_len(m, n)
  PROVE  /\ p \in Nat /\ p <= 64
         /\ n >= 220 => p <= 15
         /\ n >= 220 /\ m = "quic" => p = 0
<1>1. CASE m = "gut"
  <2>1. (16 - ((8 + 10 + n) % 16)) % 16 \in 0..15
    OBVIOUS
  <2> QED
    BY <1>1, <2>1 DEF pad_len
<1>2. CASE m # "gut"
  BY <1>2 DEF pad_len
<1> QED
  BY <1>1, <1>2

\* A datagram within the bounds is encapsulated within its slot.
LEMMA FitsInSlot ==
  ASSUME NEW d \in Datagram, NEW m \in Modes, NEW p \in pad_len(m, MsgLen(d)),
         Size[d] <= OuterMtu + 523, d \in Long => Size[d] <= 148
  PROVE  ~(quic_hdr_len(m, d) + MsgLen(d) + p > pkt_buf(OuterMtu))
<1>1. Size[d] \in Nat /\ OuterMtu \in Nat /\ m \in {"gut", "quic", "syslog", "sip"}
  BY Assumptions, Zenon DEF Datagram
<1>2. /\ pkt_buf(OuterMtu) \in Nat /\ pkt_buf(OuterMtu) >= OuterMtu + 548
      /\ pkt_buf(OuterMtu) >= 2048
  BY <1>1, MaxOfTwo DEF pkt_buf
<1>3. MsgLen(d) \in Nat /\ MsgLen(d) <= Size[d]
  BY <1>1, <1>2, MinOfTwo DEF MsgLen
<1>4. /\ p \in Nat /\ p <= 64
      /\ MsgLen(d) >= 220 => p <= 15
      /\ MsgLen(d) >= 220 /\ m = "quic" => p = 0
  <2>1. PICK n \in Nat : n = MsgLen(d)
    BY <1>3, Zenon
  <2>2. p \in pad_len(m, n)
    BY <2>1, Zenon
  <2> HIDE <2>1
  <2>3. /\ p \in Nat /\ p <= 64
        /\ n >= 220 => p <= 15
        /\ n >= 220 /\ m = "quic" => p = 0
    BY <1>1, <2>2, PaddingBounded
  <2> QED
    BY <2>1, <2>3
<1>5. CASE d \in Long
  <2>1. quic_hdr_len(m, d) \in {10, 1200}
    BY <1>5 DEF quic_hdr_len
  <2> QED
    BY <1>1, <1>2, <1>3, <1>4, <1>5, <2>1
<1>6. CASE d \notin Long
  <2>1. quic_hdr_len(m, d) = IF m = "quic" THEN 16 ELSE 10
    BY <1>6 DEF quic_hdr_len
  <2> QED
    BY <1>1, <1>2, <1>3, <1>4, <2>1
<1> QED
  BY <1>5, <1>6, Zenon

\* The datagram in hand is the last one that recv() gave out.
InHand == pc = "handle" => Len(got) >= 1 /\ got[Len(got)] = mem[current]

\* recv() gives the caller the slot of the datagram it returns.
LEMMA HandOutInHand ==
  ASSUME NEW d \in Datagram, got \in Seq(Datagram), HandOut(d),
         mem'[current'] = d
  PROVE  InHand'
<1>1. CASE d \in Bad
  BY <1>1, Zenon DEF HandOut, InHand
<1>2. CASE d \notin Bad
  <2>1. got' = Append(got, d)
    BY <1>2, Zenon DEF HandOut
  <2>2. Len(got') = Len(got) + 1 /\ got'[Len(got) + 1] = d /\ Len(got) \in Nat
    BY <2>1, AppendProperties, LenProperties
  <2> QED
    BY <2>2 DEF InHand
<1> QED
  BY <1>1, <1>2, Zenon

\* InHand is inductive with Inv.
LEMMA InHandStep == Inv /\ InHand /\ [Next]_vars => InHand'
<1> SUFFICES ASSUME Inv, InHand, [Next]_vars PROVE InHand'
  BY Zenon
<1>0. got \in Seq(Datagram)
  BY Zenon DEF Inv, TypeOK
<1>1. CASE Arrive \/ UNCHANGED vars
  BY <1>1, Zenon DEF Arrive, vars, InHand
<1>2. CASE RecvSlot
  <2>1. mem[current + 1] \in Datagram
    BY <1>2, BatchNat DEF Inv, TypeOK, SlotsFresh, RecvSlot
  <2>2. HandOut(mem[current + 1]) /\ mem'[current'] = mem[current + 1]
    BY <1>2, Zenon DEF RecvSlot
  <2> QED
    BY <1>0, <2>1, <2>2, HandOutInHand, Zenon
<1>3. CASE RecvBatch
  <2>1. PICK n \in 1 .. Min({batch, Len(kq)}) :
          mem' = [i \in Slots |-> IF i <= n THEN kq[i] ELSE mem[i]]
    BY <1>3, Zenon DEF RecvBatch
  <2>2. kq \in Seq(Datagram)
    BY Zenon DEF Inv, TypeOK
  <2>3. n \in Nat /\ 1 <= n /\ n <= batch /\ n <= Len(kq)
    BY <2>2, TakenFits, Zenon
  <2>4. kq[1] \in Datagram /\ 1 \in Slots
    BY <2>2, <2>3, BatchNat, LenProperties DEF Slots
  <2>5. mem'[1] = kq[1]
    BY <2>1, <2>3, <2>4
  <2>6. HandOut(kq[1]) /\ current' = 1
    BY <1>3, Zenon DEF RecvBatch
  <2> QED
    BY <1>0, <2>4, <2>5, <2>6, HandOutInHand, Zenon
<1>4. CASE Handle
  BY <1>4, Zenon DEF Handle, InHand
<1> QED
  BY <1>1, <1>2, <1>3, <1>4, Zenon DEF Next

\* For every outer_mtu, every size of datagram and every obfuscation mode the
\* egress thread runs over its slot only for a datagram of more than
\* outer_mtu + 523 bytes or an oversized handshake message.
THEOREM EgressPanicsOnOversizeOnly == Spec => []PanicsOnOversizeOnly
<1>1. Init => InHand /\ PanicsOnOversizeOnly
  BY Zenon DEF Init, InHand, PanicsOnOversizeOnly
<1>2. ASSUME Inv, InHand, PanicsOnOversizeOnly, [Next]_vars PROVE PanicsOnOversizeOnly'
  <2>1. CASE Arrive \/ UNCHANGED vars
    BY <1>2, <2>1, Zenon DEF Arrive, vars, PanicsOnOversizeOnly
  <2>2. CASE RecvSlot \/ RecvBatch
    <3>1. pc' = "recv" \/ pc' = "handle"
      BY <2>2, Zenon DEF RecvSlot, RecvBatch, HandOut
    <3>2. pc' # "panic"
      BY <3>1
    <3>3. QED
      BY <3>2, Zenon DEF PanicsOnOversizeOnly
  <2>3. CASE Handle
    <3>1. PICK d \in Datagram : d = mem[current]
      BY <1>2, <2>3, Zenon DEF Inv, SlotsFresh, Handle
    <3>2. got'[Len(got')] = d
      BY <1>2, <2>3, <3>1, Zenon DEF InHand, Handle
    <3>3. ASSUME pc' = "panic", Size[d] <= OuterMtu + 523, d \in Long => Size[d] <= 148
          PROVE  FALSE
      <4>1. PICK m \in Modes : \E p \in pad_len(m, MsgLen(d)) :
              pc' = IF quic_hdr_len(m, d) + MsgLen(d) + p > pkt_buf(OuterMtu)
                      THEN "panic" ELSE "recv"
        BY <2>3, <3>1, <3>3, Zenon DEF Handle
      <4>2. PICK p \in pad_len(m, MsgLen(d)) :
              pc' = IF quic_hdr_len(m, d) + MsgLen(d) + p > pkt_buf(OuterMtu)
                      THEN "panic" ELSE "recv"
        BY <4>1, Zenon
      <4>3. ~(quic_hdr_len(m, d) + MsgLen(d) + p > pkt_buf(OuterMtu))
        BY <3>3, FitsInSlot, Zenon
      <4> QED
        BY <3>3, <4>2, <4>3
    <3>4. Size[d] \in Nat /\ OuterMtu \in Nat
      BY Assumptions, Zenon DEF Datagram
    <3>5. pc' = "panic" => Size[d] > OuterMtu + 523 \/ (d \in Long /\ Size[d] > 148)
      BY <3>3, <3>4
    <3> QED
      BY <3>2, <3>5, Zenon DEF PanicsOnOversizeOnly
  <2> QED
    BY <1>2, <2>1, <2>2, <2>3, Zenon DEF Next
<1> QED
  BY <1>1, <1>2, InHandStep, SlotsStayFresh, PTL DEF Spec
=============================================================================

---------------------------- MODULE NextHopProofs ----------------------------
(***************************************************************************)
(* The safety properties of NextHop for any interfaces, addresses, routes, *)
(* peers and retry limits.                                                 *)
(***************************************************************************)
EXTENDS NextHop, WellFoundedInduction, TLAPS

\* In the rounds of resolve_peer_mac.
AskingHop == pc = "lookup" \/ (pc \in {"request", "listen"} /\ gw = None)

\* Where the thread is determines what it knows: the NIC is found, the next hop
\* is being asked for while there is no gateway, the loops are within limits.
ControlInv ==
  /\ pc \notin {"ping", "nic", "failed"} => nic \in Nic
  /\ pc # "ping" /\ pass # "start" => \A i \in 1..NPeers : nicOf[i] \in Nic
  /\ pc \in {"nic", "bind", "iface", "l2", "lookup", "gateway"} => gw = None
  /\ pc \in {"nic", "bind", "iface", "l2"} => l2 = None
  /\ pc = "l2" => ~dynamic
  /\ AskingHop =>
       /\ ~dynamic /\ l2 \in Ip /\ round < Attempts
       /\ method = IF l2 \in V4 THEN "arp" ELSE "ndp"
  /\ pc \in {"request", "listen"} /\ gw # None => method \in {"gwarp", "ttl"}
  /\ pc = "request" => sent < Sends /\ (method = "ndp" => sent = 0)
  /\ pc = "listen" => sent \in 1..Sends /\ (method = "ndp" => sent = 1)
  /\ pc = "gwlookup" => gw # None /\ round <= GwRounds
  /\ pc \notin {"ping", "policy", "mtu", "built"} => mac = None

\* Exchanges of a round that must fail before the cache is looked at.
PerRound == IF l2 \in V4 THEN Sends ELSE 1

\* Every request counted so far in the rounds for l2 went unanswered.
MissedInv ==
  "raw" \in caps =>
    /\ pc = "request" /\ gw = None => missed >= round * PerRound + sent
    /\ pc = "listen" /\ gw = None => missed + 1 >= round * PerRound + sent
    /\ pc = "lookup" => missed >= round * PerRound + PerRound
    /\ pc # "ping" /\ ~dynamic /\ (pc = "gateway" \/ gw # None) =>
         missed >= Attempts * PerRound

\* Time one peer can take on a silent link: the rounds for the next hop, then
\* ARP, TTL probe and the rounds for the gateway; 16.6 s with the code's numbers.
BuildCost == Attempts * (Sends * RecvWait + Pause) + 2 * Sends * RecvWait + GwRounds * GwPause

\* The time since the last WATCHDOG=1: that of a silent link for each peer built
\* since then, and a receive timeout for each unrelated frame.
TimeBound == clock <= BuildCost * builds + RecvWait * chatter

\* Time of one silent round of resolve_peer_mac, of all of them, and what the
\* peers built before this one and the unrelated frames may have taken.
RoundCost == Sends * RecvWait + Pause
HopCost == Attempts * RoundCost
Before == BuildCost * (builds - 1) + RecvWait * chatter

\* Where the thread is bounds the time it has spent on this peer.
TimeInv ==
  /\ pc \in {"nic", "bind", "iface", "l2"} => clock <= Before
  /\ pc = "request" /\ gw = None => clock <= Before + round * RoundCost + sent * RecvWait
  /\ pc = "listen" /\ gw = None =>
       clock + RecvWait <= Before + round * RoundCost + sent * RecvWait
  /\ pc = "lookup" => clock <= Before + round * RoundCost + Sends * RecvWait
  /\ pc = "gateway" => clock <= Before + HopCost
  /\ pc = "request" /\ method = "gwarp" => clock <= Before + HopCost + sent * RecvWait
  /\ pc = "listen" /\ method = "gwarp" => clock + RecvWait <= Before + HopCost + sent * RecvWait
  /\ pc = "request" /\ method = "ttl" =>
       clock <= Before + HopCost + (Sends + sent) * RecvWait
  /\ pc = "listen" /\ method = "ttl" =>
       clock + RecvWait <= Before + HopCost + (Sends + sent) * RecvWait
  /\ pc = "gwlookup" =>
       clock <= Before + HopCost + 2 * Sends * RecvWait + round * GwPause
  /\ pc \in {"policy", "mtu", "built", "failed"} => clock <= Before + BuildCost
  /\ pc = "ping" => TimeBound

\* Only stations become neighbours.
NeighInv == \A n \in Nic, ip \in Ip : neigh[n][ip] # "none" => Station[n][ip] # None

\* On a network as NextHopOnNic wants it, the addresses asked for are stations
\* on no link but the NIC's.
LinkInv ==
  pc \notin {"ping", "nic", "failed"} =>
    \A ip \in {l2, gw} \intersect V4, n \in Nic \ {nic} : Station[n][ip] = None

(***************************************************************************)
(* Induction on the lines of a file.                                       *)
(***************************************************************************)
\* A non-empty set of naturals has a least element.
LEMMA Least ==
  ASSUME NEW T, T \subseteq Nat, T # {}
  PROVE  \E x \in T : \A y \in T : x <= y
<1> DEFINE R == {ss \in Nat \X Nat : ss[1] < ss[2]}
<1>1. IsWellFoundedOn(R, Nat)  BY NatLessThanWellFounded, Zenon DEF OpToRel
<1>2. \E x \in T : \A y \in T : ~ (<<y, x>> \in R)  BY <1>1, WFMin, Zenon
<1>3. \A x, y \in Nat : y < x => <<y, x>> \in R
  BY Zenon
<1> HIDE DEF R
<1>4. PICK x \in T : \A y \in T : ~ (<<y, x>> \in R)  BY <1>2, Zenon
<1>5. \A y \in T : x \in Nat /\ y \in Nat /\ ~ (y < x)  BY <1>3, <1>4, Zenon
<1>6. \A y \in T : x <= y  BY <1>5
<1>7. QED  BY <1>6, Zenon

\* Induction: a set that holds 0 and the successors of its elements up to n is
\* all of 0..n.
LEMMA UpTo ==
  ASSUME NEW n \in Nat, NEW S, 0 \in S, \A k \in 0..n : k \in S /\ k < n => k + 1 \in S
  PROVE  \A k \in 0..n : k \in S
<1> DEFINE T == {k \in 0..n : k \notin S}
<1>1. SUFFICES ASSUME T # {} PROVE FALSE
  BY Zenon
<1>2. T \subseteq Nat
  OBVIOUS
<1>3. PICK x \in T : \A y \in T : x <= y
  BY <1>1, <1>2, Least, Zenon
<1>4. x \in 1..n /\ x - 1 \in 0..n /\ x - 1 \notin T  BY <1>3
<1>5. QED  BY <1>4

\* A loop over 1..n that carries a value of V: F[k] is what iteration k makes of
\* the value.
LoopHasRun(n, V, v0, F) ==
  \E b \in [0..n -> V] : b[0] = v0 /\ \A k \in 1..n : b[k] = F[k][b[k - 1]]

\* Such a loop has a run.
LEMMA LoopRuns ==
  ASSUME NEW n \in Nat, NEW V, NEW v0 \in V, NEW F \in [1..n -> [V -> V]]
  PROVE  LoopHasRun(n, V, v0, F)
<1> DEFINE Run(b, m) == /\ b \in [0..m -> V]
                        /\ b[0] = v0
                        /\ \A k \in 1..m : b[k] = F[k][b[k - 1]]
           S == {m \in 0..n : \E b \in [0..m -> V] : Run(b, m)}
<1>1. 0 \in S
  <2> DEFINE z == [k \in 0..0 |-> v0]
  <2>1. z \in [0..0 -> V] /\ Run(z, 0)
    OBVIOUS
  <2> HIDE DEF z, Run
  <2>2. QED  BY <2>1
<1>2. ASSUME NEW m \in 0..n, m \in S, m < n PROVE m + 1 \in S
  <2>1. PICK b \in [0..m -> V] : Run(b, m)  BY <1>2, Zenon
  <2> DEFINE c == [k \in 0..(m + 1) |-> IF k <= m THEN b[k] ELSE F[m + 1][b[m]]]
  <2>2. F[m + 1] \in [V -> V] /\ b[m] \in V  BY <1>2, <2>1
  <2>3. c \in [0..(m + 1) -> V]  BY <2>1, <2>2
  <2>4. c[0] = v0  BY <2>1
  <2>5. ASSUME NEW k \in 1..(m + 1) PROVE c[k] = F[k][c[k - 1]]
    <3>1. CASE k <= m  BY <2>1, <3>1
    <3>2. CASE k = m + 1  BY <2>1, <3>2
    <3>3. QED  BY <3>1, <3>2
  <2>6. Run(c, m + 1)  BY <2>3, <2>4, <2>5, Zenon
  <2> HIDE DEF c, Run
  <2>7. QED  BY <1>2, <2>3, <2>6
<1> HIDE DEF S
<1>3. \A m \in 0..n : m \in S /\ m < n => m + 1 \in S  BY <1>2, Zenon
<1>4. \A m \in 0..n : m \in S  BY <1>1, <1>3, UpTo, Zenon
<1>5. QED  BY <1>4 DEF S, LoopHasRun

(***************************************************************************)
(* The scans of the route files.                                           *)
(***************************************************************************)
Lines(A) == Route(A) \union {NoRoute}

\* The loop of proc_route_lookup_v4 and _v6: b[k] is the best of the first k lines.
LongestRun(r, ip, b) ==
  /\ b[0] = NoRoute
  /\ \A k \in 1..Len(r) :
       b[k] = IF r[k].up /\ ip \in r[k].dst /\ r[k].plen > b[k - 1].plen
                THEN r[k] ELSE b[k - 1]
  /\ LongestPrefix(r, ip) = b[Len(r)]

\* LongestPrefix is the last value of that loop.
LEMMA LongestLoop ==
  ASSUME NEW A, NEW r \in Seq(Route(A)), NEW ip
  PROVE  \E b \in [0..Len(r) -> Lines(A)] : LongestRun(r, ip, b)
<1> DEFINE n == Len(r)
           V == Lines(A)
           F == [k \in 1..n |-> [v \in V |->
                   IF r[k].up /\ ip \in r[k].dst /\ r[k].plen > v.plen THEN r[k] ELSE v]]
           Body(g) == [k \in 0..n |-> IF k = 0 THEN NoRoute
                         ELSE IF r[k].up /\ ip \in r[k].dst /\ r[k].plen > g[k - 1].plen
                           THEN r[k] ELSE g[k - 1]]
           best == CHOOSE g : g = Body(g)
<1>1. n \in Nat /\ \A k \in 1..n : r[k] \in V  BY DEF Lines
<1>2. NoRoute \in V  BY Zenon DEF Lines
<1>3. F \in [1..n -> [V -> V]]  BY <1>1, Zenon
<1>4. PICK b \in [0..n -> V] : b[0] = NoRoute /\ \A k \in 1..n : b[k] = F[k][b[k - 1]]
  <2> HIDE DEF F, V, n, best, Body
  <2>1. LoopHasRun(n, V, NoRoute, F)  BY <1>1, <1>2, <1>3, LoopRuns, Zenon
  <2>2. QED  BY <2>1, Zenon DEF LoopHasRun
<1>5. ASSUME NEW k \in 1..n
      PROVE  F[k][b[k - 1]] = IF r[k].up /\ ip \in r[k].dst /\ r[k].plen > b[k - 1].plen
                                THEN r[k] ELSE b[k - 1]
  <2> HIDE DEF V, F
  <2>1. k - 1 \in 0..n  BY <1>1
  <2>2. b[k - 1] \in V  BY <2>1, Zenon
  <2> USE DEF F
  <2>3. QED  BY <2>2, Zenon
<1>6. b = Body(b)
  <2> HIDE DEF F, V
  <2>1. QED  BY <1>4, <1>5
<1>7. best = Body(best)
  <2> HIDE DEF Body
  <2>1. QED  BY <1>6, Zenon
<1>8. LongestPrefix(r, ip) = best[n]
  BY Zenon DEF LongestPrefix, Scan
<1>9. /\ DOMAIN best = 0..n /\ best = [k \in 0..n |-> best[k]] /\ best[0] = NoRoute
      /\ \A k \in 1..n : best[k] = IF r[k].up /\ ip \in r[k].dst /\ r[k].plen > best[k - 1].plen
                                     THEN r[k] ELSE best[k - 1]
  <2> HIDE DEF best
  <2>1. QED  BY <1>1, <1>7
<1>10. \A k \in 0..n : best[k] \in V
  <2> DEFINE S == {k \in 0..n : best[k] \in V}
  <2> HIDE DEF best, V
  <2>1. 0 \in S  BY <1>1, <1>2, <1>9
  <2>2. \A k \in 0..n : k \in S /\ k < n => k + 1 \in S
    <3> SUFFICES ASSUME NEW k \in 0..n, best[k] \in V, k < n PROVE best[k + 1] \in V
      BY <1>1
    <3>1. k + 1 \in 1..n /\ (k + 1) - 1 = k  BY <1>1
    <3>2. best[k + 1] \in {r[k + 1], best[k]}  BY <1>9, <3>1, Zenon
    <3>3. QED  BY <1>1, <3>1, <3>2, Zenon
  <2> HIDE DEF S, n
  <2>3. \A k \in 0..n : k \in S  BY <1>1, <2>1, <2>2, UpTo, Zenon
  <2>4. QED  BY <2>3, Zenon DEF S
<1>11. best \in [0..n -> V]
  <2> HIDE DEF best, V
  <2>1. QED  BY <1>9, <1>10, Zenon
<1>12. QED
  <2> HIDE DEF best
  <2>1. best \in [0..Len(r) -> Lines(A)]  BY <1>11, Zenon
  <2>2. QED  BY <1>8, <1>9, <2>1, Zenon DEF LongestRun

\* Line k of a route file is a live route to ip.
Matches(r, ip, k) == r[k].up /\ ip \in r[k].dst

\* v is the first of the longest routes to ip among the first n lines.
IsLongest(r, ip, n, v) ==
  \/ v = NoRoute /\ \A j \in 1..n : ~ Matches(r, ip, j)
  \/ \E k \in 1..n :
       /\ v = r[k] /\ Matches(r, ip, k)
       /\ \A j \in 1..n : Matches(r, ip, j) =>
            r[j].plen < r[k].plen \/ (r[j].plen = r[k].plen /\ k <= j)

\* What the single pass over a route file computes.
THEOREM ScanFindsLongest ==
  ASSUME NEW A, NEW r \in Seq(Route(A)), NEW ip
  PROVE  IsLongest(r, ip, Len(r), LongestPrefix(r, ip))
<1>1. PICK b \in [0..Len(r) -> Lines(A)] : LongestRun(r, ip, b)
  BY LongestLoop, Zenon
<1> DEFINE S == {n \in 0..Len(r) : IsLongest(r, ip, n, b[n])}
<1>2. Len(r) \in Nat /\ \A k \in 1..Len(r) : r[k].plen \in Nat
  <2>1. Len(r) \in Nat /\ \A k \in 1..Len(r) : r[k] \in Route(A)
    OBVIOUS
  <2>2. \A x \in Route(A) : x.plen \in 0..128  BY Zenon DEF Route
  <2>3. 0..128 \subseteq Nat
    OBVIOUS
  <2>4. QED  BY <2>1, <2>2, <2>3, Zenon
<1>3. 0 \in S  BY <1>1, <1>2 DEF IsLongest, LongestRun
<1>4. \A n \in 0..Len(r) : n \in S /\ n < Len(r) => n + 1 \in S
  <2> SUFFICES ASSUME NEW n \in 0..Len(r), IsLongest(r, ip, n, b[n]), n < Len(r)
               PROVE  IsLongest(r, ip, n + 1, b[n + 1])
    BY <1>2
  <2>1. n + 1 \in 1..Len(r) /\ (n + 1) - 1 = n /\ 1..(n + 1) = 1..n \union {n + 1}
    BY <1>2
  <2>2. b[n + 1] = IF Matches(r, ip, n + 1) /\ r[n + 1].plen > b[n].plen
                     THEN r[n + 1] ELSE b[n]
    BY <1>1, <2>1, Zenon DEF Matches, LongestRun
  <2>6. r[n + 1].plen \in Nat /\ \A j \in 1..n : r[j].plen \in Nat
    BY <1>2, <2>1
  <2>3. CASE b[n] = NoRoute /\ \A j \in 1..n : ~ Matches(r, ip, j)
    <3>1. b[n].plen = -1  BY <2>3 DEF NoRoute
    <3>2. CASE Matches(r, ip, n + 1)
      <4>1. b[n + 1] = r[n + 1]  BY <2>2, <2>6, <3>1, <3>2
      <4>2. \A j \in 1..(n + 1) : Matches(r, ip, j) =>
              r[j].plen < r[n + 1].plen \/ (r[j].plen = r[n + 1].plen /\ n + 1 <= j)
        BY <2>1, <2>3
      <4>3. QED  BY <2>1, <3>2, <4>1, <4>2, Zenon DEF IsLongest
    <3>3. CASE ~ Matches(r, ip, n + 1)
      BY <2>1, <2>2, <2>3, <3>3, Zenon DEF IsLongest
    <3>4. QED  BY <3>2, <3>3, Zenon
  <2>4. ASSUME NEW k \in 1..n, b[n] = r[k], Matches(r, ip, k),
               \A j \in 1..n : Matches(r, ip, j) =>
                 r[j].plen < r[k].plen \/ (r[j].plen = r[k].plen /\ k <= j)
        PROVE  IsLongest(r, ip, n + 1, b[n + 1])
    <3>1. CASE Matches(r, ip, n + 1) /\ r[n + 1].plen > r[k].plen
      <4>1. b[n + 1] = r[n + 1]  BY <2>2, <2>4, <3>1, Zenon
      <4>2. \A j \in 1..(n + 1) : Matches(r, ip, j) =>
              r[j].plen < r[n + 1].plen \/ (r[j].plen = r[n + 1].plen /\ n + 1 <= j)
        <5> SUFFICES ASSUME NEW j \in 1..(n + 1), Matches(r, ip, j)
                     PROVE  r[j].plen < r[n + 1].plen \/ j = n + 1
          BY <2>1
        <5>1. CASE j \in 1..n
          <6>1. r[j].plen <= r[k].plen  BY <2>4, <2>6, <5>1
          <6>2. QED  BY <2>6, <3>1, <5>1, <6>1
        <5>2. QED  BY <2>1, <5>1, Zenon
      <4>3. QED  BY <2>1, <3>1, <4>1, <4>2, Zenon DEF IsLongest
    <3>2. CASE ~ (Matches(r, ip, n + 1) /\ r[n + 1].plen > r[k].plen)
      <4>1. b[n + 1] = r[k]  BY <2>2, <2>4, <3>2, Zenon
      <4>2. \A j \in 1..(n + 1) : Matches(r, ip, j) =>
              r[j].plen < r[k].plen \/ (r[j].plen = r[k].plen /\ k <= j)
        <5> SUFFICES ASSUME NEW j \in 1..(n + 1), Matches(r, ip, j)
                     PROVE  r[j].plen < r[k].plen \/ (r[j].plen = r[k].plen /\ k <= j)
          BY Zenon
        <5>1. CASE j \in 1..n  BY <2>4, <5>1, Zenon
        <5>2. CASE j = n + 1  BY <2>6, <3>2, <5>2
        <5>3. QED  BY <2>1, <5>1, <5>2, Zenon
      <4>3. QED  BY <2>1, <2>4, <4>1, <4>2, Zenon DEF IsLongest
    <3>3. QED  BY <3>1, <3>2, Zenon
  <2>5. QED  BY <2>3, <2>4, Zenon DEF IsLongest
<1> HIDE DEF S
<1>5. \A n \in 0..Len(r) : n \in S  BY <1>2, <1>3, <1>4, UpTo, Zenon
<1>6. Len(r) \in S  BY <1>2, <1>5
<1>7. QED  BY <1>1, <1>6 DEF S

\* The table read for ip.
TableOf(ip) == IF ip \in V4 THEN table.v4 ELSE table.v6

\* The kernel's choice of a route is the first of the longest ones, because it
\* lists the routes to one prefix by their metric.
LEMMA KernelTakesFirstLongest ==
  ASSUME TypeOK, NEW ip \in Ip
  PROVE  LET l == LongestPrefix(TableOf(ip), ip)
         IN  KernelRoute(ip) = l /\ l \in Lines(V4) \union Lines(V6)
<1> DEFINE t == TableOf(ip)
           m == {k \in DOMAIN t : t[k].up /\ ip \in t[k].dst}
           better(j, k) == \/ t[j].plen > t[k].plen
                           \/ t[j].plen = t[k].plen /\ t[j].metric < t[k].metric
                           \/ t[j].plen = t[k].plen /\ t[j].metric = t[k].metric /\ j <= k
           l == LongestPrefix(t, ip)
<1>1. PICK A \in {V4, V6} : t \in Seq(Route(A))
  BY TablesAssumption, Zenon DEF TypeOK, TableOf
<1>2. \A j, k \in DOMAIN t :
        j <= k /\ t[j].plen = t[k].plen /\ t[j].dst \intersect t[k].dst # {}
          => t[j].metric <= t[k].metric
  BY TablesAssumption, Zenon DEF TypeOK, TableOf
<1>3. DOMAIN t = 1..Len(t) /\ Len(t) \in Nat /\ \A k \in DOMAIN t : t[k] \in Route(A)
  BY <1>1
<1>4. \A k \in DOMAIN t : t[k].plen \in Int /\ t[k].metric \in Int /\ k \in Int
  <2>1. \A x \in Route(A) : x.plen \in 0..128 /\ x.metric \in Nat  BY Zenon DEF Route
  <2>2. 0..128 \subseteq Int /\ Nat \subseteq Int
    OBVIOUS
  <2> HIDE DEF t
  <2>3. \A k \in DOMAIN t : k \in Int  BY <1>3
  <2>4. QED  BY <1>3, <2>1, <2>2, <2>3, Zenon
<1>5. KernelRoute(ip) = IF m = {} THEN NoRoute ELSE t[CHOOSE k \in m : \A j \in m : better(k, j)]
  BY Zenon DEF KernelRoute, TableOf
<1>6. IsLongest(t, ip, Len(t), l)
  <2> HIDE DEF t
  <2>1. QED  BY <1>1, ScanFindsLongest, Zenon
<1> HIDE DEF t, l
<1>7. CASE m = {}
  <2>1. l = NoRoute  BY <1>3, <1>6, <1>7, Zenon DEF IsLongest, Matches
  <2>2. QED  BY <1>5, <1>7, <2>1, Zenon DEF l, t, Lines
<1>8. CASE m # {}
  <2>1. PICK k \in m : /\ l = t[k]
                       /\ \A j \in m : t[j].plen < t[k].plen
                                       \/ (t[j].plen = t[k].plen /\ k <= j)
    BY <1>3, <1>6, <1>8, Zenon DEF IsLongest, Matches
  <2>2. ASSUME NEW j \in m PROVE better(k, j)
    <3>1. t[j].dst \intersect t[k].dst # {}
      BY Zenon
    <3>2. k \in DOMAIN t /\ j \in DOMAIN t
      BY Zenon
    <3>3. CASE t[j].plen < t[k].plen  BY <1>4, <3>2, <3>3
    <3>4. CASE t[j].plen = t[k].plen /\ k <= j
      <4>1. t[k].metric <= t[j].metric  BY <1>2, <3>1, <3>2, <3>4, Zenon
      <4>2. QED  BY <1>4, <3>2, <3>4, <4>1
    <3>5. QED  BY <2>1, <3>3, <3>4, Zenon
  <2>3. ASSUME NEW x \in m, \A j \in m : better(x, j) PROVE x = k
    <3>1. better(x, k) /\ better(k, x)  BY <2>2, <2>3, Zenon
    <3>2. k \in DOMAIN t /\ x \in DOMAIN t
      OBVIOUS
    <3>3. QED  BY <1>4, <3>1, <3>2
  <2> HIDE DEF better, m
  <2>4. (CHOOSE x \in m : \A j \in m : better(x, j)) = k  BY <2>2, <2>3, Zenon
  <2>5. KernelRoute(ip) = l  BY <1>5, <1>8, <2>1, <2>4, Zenon
  <2>6. l \in Route(A)  BY <1>3, <2>1, Zenon DEF m
  <2>7. QED  BY <2>5, <2>6, Zenon DEF l, t, Lines
<1>9. QED  BY <1>7, <1>8, Zenon

\* Without netlink, the scan of /proc/net/route and /proc/net/ipv6_route gives
\* every address the device and the gateway the kernel uses, for tables of any
\* length (route_get_info's fallback).
THEOREM FallbackIsKernel ==
  ASSUME TypeOK
  PROVE  FallbackAgrees
<1> SUFFICES ASSUME "proc" \in caps, NEW ip \in Ip
             PROVE  LET k == KernelRoute(ip)
                        p == IF ip \in V4 THEN proc_route_lookup_v4(ip)
                             ELSE proc_route_lookup_v6(ip)
                    IN  p.dev = k.dev /\ p.via = k.gw
  BY Zenon DEF FallbackAgrees
<1>1. KernelRoute(ip) = LongestPrefix(TableOf(ip), ip)
  BY KernelTakesFirstLongest, Zenon
<1>2. QED  BY <1>1, Zenon DEF TableOf, proc_route_lookup_v4, proc_route_lookup_v6, Info

\* The entry a route lookup finds names an interface, or nothing.
LEMMA RouteTypes ==
  ASSUME TypeOK, NEW ip \in Ip
  PROVE  /\ route_get_info(ip).dev \in Nic \union {None}
         /\ route_get_info(ip).via \in Ip \union {None}
         /\ route_get_info(ip).via # None => route_get_info(ip).dev # None
<1> DEFINE l == LongestPrefix(TableOf(ip), ip)
<1>1. KernelRoute(ip) = l /\ l \in Lines(V4) \union Lines(V6)  BY KernelTakesFirstLongest, Zenon
<1> HIDE DEF l
<1>2. l.dev \in Nic \union {None} /\ l.gw \in Ip \union {None} /\ (l.gw # None => l.dev # None)
  BY <1>1, AddressAssumption DEF Lines, Route, NoRoute, Ip
<1>3. NoRoute.dev = None /\ NoRoute.gw = None  BY Zenon DEF NoRoute
<1>4. route_get_info(ip) \in {Info(l, None), Info(l, LinkMtu(l.dev)), Info(NoRoute, LinkMtu(NoRoute.dev))}
  BY <1>1, Zenon DEF l, TableOf, route_get_info, nl_get_route, proc_route_lookup_v4, proc_route_lookup_v6
<1>5. QED  BY <1>2, <1>3, <1>4 DEF Info

\* Line r replaces best in default_route_ifname.
TakesDefault(r, best) == Gatewayed(r) /\ (best = NoRoute \/ r.metric < best.metric)

\* default_route_ifname names an interface of the table, or none.
LEMMA DefaultRouteType ==
  ASSUME TypeOK
  PROVE  default_route_ifname \in Nic \union {None}
<1> DEFINE r == table.v4
           n == Len(r)
           V == Lines(V4)
           F == [k \in 1..n |-> [v \in V |-> IF TakesDefault(r[k], v) THEN r[k] ELSE v]]
           Body(g) == [k \in 0..n |-> IF k = 0 THEN NoRoute
                         ELSE IF TakesDefault(r[k], g[k - 1]) THEN r[k] ELSE g[k - 1]]
           best == CHOOSE g : g = Body(g)
<1>1. n \in Nat /\ \A k \in 1..n : r[k] \in V
  <2>1. r \in Seq(Route(V4))  BY TablesAssumption, Zenon DEF TypeOK
  <2> HIDE DEF r
  <2>2. QED  BY <2>1 DEF Lines
<1>2. NoRoute \in V  BY Zenon DEF Lines
<1> HIDE DEF r
<1>3. F \in [1..n -> [V -> V]]
  <2> HIDE DEF V, n
  <2>1. QED  BY <1>1, Zenon
<1>4. PICK b \in [0..n -> V] : b[0] = NoRoute /\ \A k \in 1..n : b[k] = F[k][b[k - 1]]
  <2> HIDE DEF F, V, n, best, Body
  <2>1. LoopHasRun(n, V, NoRoute, F)  BY <1>1, <1>2, <1>3, LoopRuns, Zenon
  <2>2. QED  BY <2>1, Zenon DEF LoopHasRun
<1>5. ASSUME NEW k \in 1..n
      PROVE  F[k][b[k - 1]] = IF TakesDefault(r[k], b[k - 1]) THEN r[k] ELSE b[k - 1]
  <2> HIDE DEF V, F
  <2>1. k - 1 \in 0..n  BY <1>1
  <2>2. b[k - 1] \in V  BY <2>1, Zenon
  <2> USE DEF F
  <2>3. QED  BY <2>2, Zenon
<1>6. b = Body(b)
  <2> HIDE DEF F, V
  <2>1. QED  BY <1>4, <1>5
<1>7. best = Body(best)
  <2> HIDE DEF Body
  <2>1. QED  BY <1>6, Zenon
<1>8. "proc" \in caps => default_route_ifname = best[n].dev
  BY Zenon DEF default_route_ifname, Scan, TakesDefault, r
<1>9. /\ best[0] = NoRoute
      /\ \A k \in 1..n : best[k] = IF TakesDefault(r[k], best[k - 1]) THEN r[k] ELSE best[k - 1]
  <2> HIDE DEF best
  <2>1. QED  BY <1>1, <1>7
<1>10. \A k \in 0..n : best[k] \in V
  <2> DEFINE S == {k \in 0..n : best[k] \in V}
  <2> HIDE DEF best, V
  <2>1. 0 \in S  BY <1>1, <1>2, <1>9
  <2>2. \A k \in 0..n : k \in S /\ k < n => k + 1 \in S
    <3> SUFFICES ASSUME NEW k \in 0..n, best[k] \in V, k < n PROVE best[k + 1] \in V
      BY <1>1
    <3>1. k + 1 \in 1..n /\ (k + 1) - 1 = k  BY <1>1
    <3>2. best[k + 1] \in {r[k + 1], best[k]}  BY <1>9, <3>1, Zenon
    <3>3. QED  BY <1>1, <3>1, <3>2, Zenon
  <2> HIDE DEF S, n
  <2>3. \A k \in 0..n : k \in S  BY <1>1, <2>1, <2>2, UpTo, Zenon
  <2>4. QED  BY <2>3, Zenon DEF S
<1>11. \A v \in V : v.dev \in Nic \union {None}  BY DEF Lines, Route, NoRoute
<1>12. best[n].dev \in Nic \union {None}
  <2> HIDE DEF best, V
  <2>1. n \in 0..n  BY <1>1
  <2>2. QED  BY <1>10, <1>11, <2>1, Zenon
<1>13. QED
  <2> HIDE DEF best, n
  <2>1. QED  BY <1>8, <1>12, Zenon DEF default_route_ifname

\* The default routes in the order of the file.
Defaults == {k \in DOMAIN table.v4 : Gatewayed(table.v4[k])}

\* The gateway taken is one of a default route, of the NIC's own if it has one.
LEMMA GatewayOfDefault ==
  ASSUME TypeOK, NEW n \in Nic, DefaultGateway(n) # None
  PROVE  \E k \in Defaults :
           /\ DefaultGateway(n) = table.v4[k].gw /\ DefaultGateway(n) \in V4
           /\ (\E j \in Defaults : table.v4[j].dev = n) => table.v4[k].dev = n
<1> DEFINE own == {k \in Defaults : table.v4[k].dev = n}
<1>1. table.v4 \in Seq(Route(V4))  BY TablesAssumption, Zenon DEF TypeOK
<1>2. /\ Defaults \subseteq Nat /\ own \subseteq Nat
      /\ \A k \in Defaults : table.v4[k].gw \in V4
  <2>1. \A k \in DOMAIN table.v4 : k \in Nat /\ table.v4[k] \in Route(V4)  BY <1>1
  <2>2. QED  BY <2>1, Zenon DEF Defaults, Route, Gatewayed
<1>3. Defaults # {} /\ DefaultGateway(n) = IF own # {} THEN table.v4[First(own)].gw
                                           ELSE table.v4[First(Defaults)].gw
  BY Zenon DEF DefaultGateway, Defaults
<1> HIDE DEF own
<1>4. own # {} => First(own) \in own
  <2>1. own # {} => \E x \in own : \A y \in own : x <= y  BY <1>2, Least, Zenon
  <2>2. QED  BY <2>1, Zenon DEF First
<1>5. First(Defaults) \in Defaults
  <2>1. \E x \in Defaults : \A y \in Defaults : x <= y  BY <1>2, <1>3, Least, Zenon
  <2>2. QED  BY <2>1, Zenon DEF First
<1>6. CASE own # {}
  <2>1. First(own) \in Defaults /\ table.v4[First(own)].dev = n  BY <1>4, <1>6, Zenon DEF own
  <2>2. QED  BY <1>2, <1>3, <1>6, <2>1, Zenon
<1>7. CASE own = {}
  <2>1. ~ \E j \in Defaults : table.v4[j].dev = n  BY <1>7, Zenon DEF own
  <2>2. QED  BY <1>2, <1>3, <1>5, <1>7, <2>1, Zenon
<1>8. QED  BY <1>6, <1>7, Zenon

\* The route's MTU, where it has one, is the NIC's: only routes through the NIC
\* count (ensure_route_dev).  What is left is the NIC's or the configured one.
LEMMA PmtuOfNic ==
  ASSUME TypeOK, nic \in Nic, NEW m \in {Mtu[nic], None}
  PROVE  pmtu_base(m) \in {Mtu[nic], OuterMtu}
<1>1. ASSUME NEW ip, ensure_route_dev(route_get_info(ip), nic)
      PROVE  route_get_info(ip).mtu \in {None, Mtu[nic]}
  <2>1. CASE nl_get_route(ip) # None
    BY <2>1, Zenon DEF route_get_info, nl_get_route, Info
  <2>2. CASE nl_get_route(ip) = None
    <3>1. PICK r : route_get_info(ip) = Info(r, LinkMtu(r.dev))
      BY <2>2, Zenon DEF route_get_info, proc_route_lookup_v4, proc_route_lookup_v6
    <3>2. r.dev \in {None, nic}  BY <1>1, <3>1 DEF ensure_route_dev, Info
    <3>3. QED  BY <3>1, <3>2 DEF Info, LinkMtu
  <2>3. QED  BY <2>1, <2>2, Zenon
<1>2. QED  BY <1>1, Zenon DEF pmtu_base, resolve_route_pmtu

(***************************************************************************)
(* Types and control.                                                      *)
(***************************************************************************)
ThreadInv == TypeOK /\ ControlInv

\* The peer being built is a configured one.
LEMMA PeerType ==
  ASSUME TypeOK
  PROVE  me.ip \in Ip \union {None} /\ me.nic \in Nic \union {None}
BY PeersAssumption DEF TypeOK, me

\* The next hop is an address, as the peer's is.
LEMMA HopType ==
  ASSUME TypeOK, ~dynamic
  PROVE  me.ip \in Ip /\ resolve_l2_peer_ip(me.ip, nic) \in Ip
<1>1. me.ip \in Ip  BY PeerType, Zenon DEF dynamic
<1>2. route_get_info(me.ip).via \in Ip \union {None}  BY <1>1, RouteTypes, Zenon
<1>3. QED  BY <1>1, <1>2, Zenon DEF resolve_l2_peer_ip

\* A neighbour lookup returns stations.
LEMMA LookupType ==
  ASSUME TypeOK, NEW ip \in Ip, NEW n \in Nic
  PROVE  lookup_cache(ip, n) \subseteq Mac \union {None}
         /\ lookup_arp_cache(ip, n) \subseteq Mac \union {None}
<1>1. \A k \in Nic : Station[k][ip] \in Mac \union {None}  BY StationAssumption, Zenon
<1>2. /\ \A i \in {n, None} : nl_get_neigh_v4(ip, i) \subseteq Mac \union {None}
      /\ nl_get_neigh_v6(ip, n) \subseteq Mac \union {None}
      /\ ProcArp(ip, n) \subseteq Mac \union {None}
  BY <1>1, Zenon DEF nl_get_neigh_v4, nl_get_neigh_v6, ProcArp
<1>3. QED  BY <1>2, Zenon DEF lookup_cache, lookup_arp_cache, lookup_ndp_cache

\* A probe keeps the neighbour table well-typed.
LEMMA ProbeType ==
  ASSUME TypeOK, NEW ip \in Ip, nic \in Nic, Probe(ip)
  PROVE  neigh' \in [Nic -> [Ip -> {"none", "asked", "known"}]]
BY Zenon DEF TypeOK, Probe

\* A new build starts from the state of ControlInv.
LEMMA BuildStarts ==
  ASSUME ThreadInv, NEW i \in 1..NPeers, NEW p \in {"start", "refresh", "reload"},
         BuildFrom(i, p), nicOf' \in [1..NPeers -> Nic \union {None}],
         p # "start" => \A j \in 1..NPeers : nicOf'[j] \in Nic,
         UNCHANGED <<conf, host>>, clock' \in Nat, chatter' \in 0..MaxChatter
  PROVE  ThreadInv'
<1>1. pc' = (IF p = "start" THEN "nic" ELSE "bind") /\ gw' = None /\ mac' = None /\ pass' = p
      /\ peer' = i /\ l2' = None
  BY Zenon DEF BuildFrom
<1>2. TypeOK'
  <2>1. mtu' \in [outer : Nat, inner4 : Nat, inner6 : Nat]  BY Zenon DEF BuildFrom, NoMtu
  <2>2. QED  BY <1>1, <2>1, Zenon DEF ThreadInv, TypeOK, BuildFrom, host
<1>3. ControlInv'
  BY <1>1, Zenon DEF ControlInv, AskingHop, nic
<1>4. QED  BY <1>2, <1>3, Zenon DEF ThreadInv

\* Every step keeps types and control.
LEMMA ThreadStep ==
  ASSUME ThreadInv, [Next]_vars
  PROVE  ThreadInv'
<1> USE DEF ThreadInv
<1>1. CASE Ping
  <2>1. UNCHANGED <<conf, host>> /\ clock' \in Nat /\ chatter' \in 0..MaxChatter
    BY <1>1, ChatterAssumption DEF Ping
  <2>2. CASE BuildFrom(1, "start") /\ nicOf' = NoManagers
    BY <2>1, <2>2, BuildStarts, NPeersAssumption DEF NoManagers
  <2>3. ASSUME NEW p \in {"refresh", "reload"}, BuildFrom(1, p), UNCHANGED nicOf,
               \A i \in 1..NPeers : nicOf[i] # None
        PROVE  ThreadInv'
    <3>1. nicOf' \in [1..NPeers -> Nic \union {None}]  BY <2>3, Zenon DEF TypeOK
    <3>2. \A j \in 1..NPeers : nicOf'[j] \in Nic  BY <2>3, <3>1, Zenon
    <3>3. 1 \in 1..NPeers  BY NPeersAssumption
    <3>4. QED  BY <2>1, <2>3, <3>1, <3>2, <3>3, BuildStarts
  <2>4. QED  BY <1>1, <2>2, <2>3, Zenon DEF Ping
<1>2. CASE NextPeer
  <2>1. UNCHANGED <<conf, host, clock, chatter>>  BY <1>2, Zenon DEF NextPeer
  <2>2. CASE pc' = "ping" /\ UNCHANGED <<work, missed>> /\ nicOf' \in {nicOf, NoManagers}
    <3>1. TypeOK'  BY <2>1, <2>2 DEF TypeOK, work, host, NoManagers
    <3>2. ControlInv'  BY <2>2, Zenon DEF ControlInv, AskingHop
    <3>3. QED  BY <3>1, <3>2, Zenon
  <2>3. CASE UNCHANGED nicOf /\ peer < NPeers /\ BuildFrom(peer + 1, pass) /\ pc \in {"built", "failed"}
    <3>1. peer + 1 \in 1..NPeers  BY <2>3, NPeersAssumption DEF TypeOK
    <3>2. pass # "start" => \A j \in 1..NPeers : nicOf'[j] \in Nic  BY <2>3, Zenon DEF ControlInv
    <3>3. QED  BY <2>1, <2>3, <3>1, <3>2, BuildStarts DEF TypeOK
  <2>4. CASE UNCHANGED nicOf /\ pass = "refresh" /\ BuildFrom(1, "reload") /\ pc \in {"built", "failed"}
    <3>1. \A j \in 1..NPeers : nicOf'[j] \in Nic  BY <2>4, Zenon DEF ControlInv
    <3>2. nicOf' \in [1..NPeers -> Nic \union {None}] /\ 1 \in 1..NPeers
      BY <2>4, NPeersAssumption DEF TypeOK
    <3>3. clock' \in Nat /\ chatter' \in 0..MaxChatter  BY <2>1, Zenon DEF TypeOK
    <3>4. QED  BY <2>1, <2>4, <3>1, <3>2, <3>3, BuildStarts, Zenon
  <2>5. QED  BY <1>2, <2>2, <2>3, <2>4, Zenon DEF NextPeer
<1>3. CASE DetectNic
  <2>1. PICK found \in Nic \union {None} :
          /\ nicOf' = IF found = None THEN nicOf ELSE [nicOf EXCEPT ![peer] = found]
          /\ pc' = IF found = None THEN "failed" ELSE "bind"
    <3>1. ~dynamic => route_get_info(me.ip).dev \in Nic \union {None}
      BY PeerType, RouteTypes, Zenon DEF dynamic
    <3>2. QED  BY <1>3, <3>1, PeerType, DefaultRouteType, LinkAssumption, Zenon DEF DetectNic
  <2>2. UNCHANGED <<conf, work, host, time>> /\ pc = "nic"  BY <1>3, Zenon DEF DetectNic
  <2>3. TypeOK'  BY <2>1, <2>2 DEF TypeOK, work, host, time
  <2>4. ControlInv'
    BY <2>1, <2>2, AddressAssumption DEF TypeOK, ControlInv, AskingHop, nic, work, me, dynamic
  <2>5. QED  BY <2>3, <2>4, Zenon
<1>4. CASE Bind
  <2>1. UNCHANGED <<conf, nicOf, work, host, time>> /\ pc = "bind" /\ pc' \in {"iface", "failed"}
    BY <1>4, Zenon DEF Bind
  <2>2. TypeOK'  BY <2>1 DEF TypeOK, work, host, time
  <2>3. ControlInv'  BY <2>1, Zenon DEF ControlInv, AskingHop, nic, work
  <2>4. QED  BY <2>2, <2>3
<1>5. CASE Iface
  <2>1. /\ UNCHANGED <<conf, nicOf, work, host, time>> /\ pc = "iface"
        /\ pc' \in {"failed", "gateway", "l2"} /\ (pc' = "l2" => ~dynamic)
    BY <1>5, Zenon DEF Iface
  <2>2. TypeOK'  BY <2>1 DEF TypeOK, work, host, time
  <2>3. ControlInv'  BY <2>1, Zenon DEF ControlInv, AskingHop, nic, work, me, dynamic
  <2>4. QED  BY <2>2, <2>3
<1>6. CASE ResolveL2
  <2>1. ~dynamic /\ nic \in Nic /\ gw = None  BY <1>6, Zenon DEF ResolveL2, ControlInv
  <2>2. l2' \in Ip  BY <1>6, <2>1, HopType, Zenon DEF ResolveL2
  <2>3. TypeOK'  BY <1>6, <2>2 DEF TypeOK, ResolveL2, host, time
  <2>4. ControlInv'
    BY <1>6, <2>1, <2>2, RetryAssumption DEF ControlInv, ResolveL2, AskingHop, nic, me, dynamic
  <2>5. QED  BY <2>3, <2>4
<1>7. CASE Request
  <2>1. TypeOK'
    BY <1>7 DEF TypeOK, Request, arp_request_reply, resolve_mac_via_ttl_probe, ndp_request_reply,
       SendFrame, GiveUp, host, time
  <2>2. ControlInv'
    BY <1>7, RetryAssumption
    DEF TypeOK, ControlInv, Request, arp_request_reply, resolve_mac_via_ttl_probe,
       ndp_request_reply, SendFrame, GiveUp, AskingHop, nic, me, dynamic
  <2>3. QED  BY <2>1, <2>2
<1>8. CASE Receive
  <2>1. nic \in Nic /\ Asked \in Ip
    BY <1>8, Zenon DEF TypeOK, ControlInv, Receive, AskingHop, Asked, Ip
  <2>2. Station[nic][Asked] \in Mac \union {None}  BY <2>1, StationAssumption, Zenon
  <2>3. TypeOK'  BY <1>8, <2>2 DEF TypeOK, Receive, host, time
  <2>4. ControlInv'
    BY <1>8, Zenon DEF ControlInv, Receive, AskingHop, nic, me, dynamic
  <2>5. QED  BY <2>3, <2>4
<1>9. CASE Lookup
  <2>1. l2 \in Ip /\ nic \in Nic /\ round < Attempts  BY <1>9 DEF ControlInv, Lookup, AskingHop
  <2>2. CASE lookup_cache(l2, nic) # {}
    <3>1. mac' \in Mac \union {None} /\ UNCHANGED <<round, sent, neigh, clock>> /\ pc' = "policy"
      BY <1>9, <2>1, <2>2, LookupType, Zenon DEF Lookup
    <3>2. TypeOK'  BY <1>9, <3>1 DEF TypeOK, Lookup
    <3>3. ControlInv'  BY <1>9, <3>1, Zenon DEF ControlInv, Lookup, AskingHop, nic
    <3>4. QED  BY <3>2, <3>3
  <2>3. CASE lookup_cache(l2, nic) = {}
    <3>1. neigh' \in [Nic -> [Ip -> {"none", "asked", "known"}]]
      BY <1>9, <2>1, <2>3, ProbeType DEF Lookup, TypeOK
    <3>2. clock' \in Nat /\ round' = round + 1 /\ sent' = 0 /\ mac' = mac
          /\ pc' = IF round + 1 < Attempts THEN "request" ELSE "gateway"
      BY <1>9, <2>3 DEF Lookup, TypeOK, Pause
    <3>3. TypeOK'  BY <1>9, <3>1, <3>2 DEF TypeOK, Lookup
    <3>4. ControlInv'
      BY <1>9, <3>2, RetryAssumption DEF TypeOK, ControlInv, Lookup, AskingHop, nic, me, dynamic
    <3>5. QED  BY <3>3, <3>4
  <2>4. QED  BY <2>2, <2>3, Zenon
<1>10. CASE Gateway
  <2>1. nic \in Nic  BY <1>10, Zenon DEF ControlInv, Gateway
  <2>2. DefaultGateway(nic) \in V4 \union {None}  BY <2>1, GatewayOfDefault, Zenon
  <2>3. TypeOK'  BY <1>10, <2>2 DEF TypeOK, Gateway, host, time
  <2>4. ControlInv'
    BY <1>10, <2>2, RetryAssumption DEF ControlInv, Gateway, AskingHop, nic, me, dynamic
  <2>5. QED  BY <2>3, <2>4
<1>11. CASE GwLookup
  <2>1. gw \in Ip /\ nic \in Nic /\ round <= GwRounds
    BY <1>11, Zenon DEF TypeOK, ControlInv, GwLookup, Ip
  <2>2. mac' \in Mac \union {None} /\ neigh' \in [Nic -> [Ip -> {"none", "asked", "known"}]]
    BY <1>11, <2>1, LookupType, ProbeType DEF GwLookup, TypeOK
  <2>3. clock' \in Nat /\ round' \in Nat  BY <1>11 DEF TypeOK, GwLookup, GwPause
  <2>4. TypeOK'  BY <1>11, <2>2, <2>3 DEF TypeOK, GwLookup
  <2>5. ControlInv'
    BY <1>11, <2>1, RetryAssumption DEF TypeOK, ControlInv, GwLookup, AskingHop, nic, me, dynamic
  <2>6. QED  BY <2>4, <2>5
<1>12. CASE Policy
  <2>1. TypeOK'  BY <1>12 DEF TypeOK, Policy, host, time
  <2>2. ControlInv'  BY <1>12, Zenon DEF ControlInv, Policy, AskingHop, nic
  <2>3. QED  BY <2>1, <2>2
<1>13. CASE Mtus
  <2>1. nic \in Nic /\ Mtu[nic] \in Nat /\ OuterMtu \in Nat
    BY <1>13, LinkAssumption, Zenon DEF ControlInv, Mtus
  <2>2. PICK base \in {Mtu[nic], OuterMtu} :
          mtu' = [outer |-> base, inner4 |-> Inner(base, OuterOverheadV4),
                  inner6 |-> Inner(base, OuterOverheadV6)]
    BY <1>13, <2>1, PmtuOfNic, Zenon DEF Mtus
  <2>3. mtu' \in [outer : Nat, inner4 : Nat, inner6 : Nat]
    BY <2>1, <2>2 DEF Inner, DefaultInnerMtu, OuterOverheadV4, OuterOverheadV6
  <2>4. TypeOK'  BY <1>13, <2>3 DEF TypeOK, Mtus, host, time
  <2>5. ControlInv'  BY <1>13, Zenon DEF ControlInv, Mtus, AskingHop, nic
  <2>6. QED  BY <2>4, <2>5
<1>14. CASE Timeout
  <2>1. clock' \in Nat /\ missed' \in Nat  BY <1>14 DEF TypeOK, Timeout, NdpWait, RecvWait
  <2>2. TypeOK'  BY <1>14, <2>1 DEF TypeOK, Timeout, GiveUp, host
  <2>3. ControlInv'
    BY <1>14, RetryAssumption
    DEF TypeOK, ControlInv, Timeout, GiveUp, AskingHop, nic, me, dynamic
  <2>4. QED  BY <2>2, <2>3
<1>15. CASE Answer
  <2>1. TypeOK'  BY <1>15 DEF TypeOK, Answer, host, time
  <2>2. ControlInv'  BY <1>15, Zenon DEF ControlInv, Answer, AskingHop, nic, me, dynamic
  <2>3. QED  BY <2>1, <2>2
<1>16. CASE Traffic
  <2>1. clock' \in Nat /\ chatter' \in 0..MaxChatter
    BY <1>16, ChatterAssumption DEF TypeOK, Traffic, RecvWait
  <2>2. TypeOK'  BY <1>16, <2>1 DEF TypeOK, Traffic, host
  <2>3. ControlInv'  BY <1>16, Zenon DEF ControlInv, Traffic, AskingHop, nic, me, dynamic
  <2>4. QED  BY <2>2, <2>3
<1>17. CASE RouteChange
  <2>1. TypeOK'  BY <1>17 DEF TypeOK, RouteChange, work, time
  <2>2. ControlInv'  BY <1>17 DEF ControlInv, RouteChange, AskingHop, nic, me, dynamic, work
  <2>3. QED  BY <2>1, <2>2
<1>18. ASSUME NEW n \in Nic, NEW ip \in Ip, KernelLearns(n, ip)
      PROVE  ThreadInv'
  <2>1. neigh' \in [Nic -> [Ip -> {"none", "asked", "known"}]]
    BY <1>18, Zenon DEF TypeOK, KernelLearns
  <2>2. TypeOK'  BY <1>18, <2>1 DEF TypeOK, KernelLearns, work, time
  <2>3. ControlInv'  BY <1>18 DEF ControlInv, KernelLearns, AskingHop, nic, me, dynamic, work
  <2>4. QED  BY <2>2, <2>3, Zenon
<1>19. CASE UNCHANGED vars
  <2>1. TypeOK'  BY <1>19 DEF TypeOK, vars, work, host, time
  <2>2. ControlInv'  BY <1>19 DEF ControlInv, AskingHop, nic, me, dynamic, vars, work
  <2>3. QED  BY <2>1, <2>2
<1>20. QED
  BY <1>1, <1>2, <1>3, <1>4, <1>5, <1>6, <1>7, <1>8, <1>9, <1>10, <1>11, <1>12, <1>13, <1>14,
     <1>15, <1>16, <1>17, <1>18, <1>19 DEF Next, Thread

\* Types and control in every reachable state.
THEOREM Controlled == Spec => []ThreadInv
<1>1. Init => ThreadInv
  <2> SUFFICES ASSUME Init PROVE ThreadInv
    BY Zenon
  <2>1. neigh \in [Nic -> [Ip -> {"none", "asked", "known"}]]  BY DEF Init
  <2>2. TypeOK
    BY <2>1, NPeersAssumption, ChatterAssumption DEF Init, TypeOK, NoMtu
  <2>3. ControlInv  BY Zenon DEF Init, ControlInv, AskingHop
  <2>4. QED  BY <2>2, <2>3, Zenon DEF ThreadInv
<1>2. ThreadInv /\ [Next]_vars => ThreadInv'
  BY ThreadStep, Zenon
<1>3. QED  BY <1>1, <1>2, PTL DEF Spec

\* Type correctness.
THEOREM TypeCorrect == Spec => []TypeOK
<1>1. ThreadInv => TypeOK  BY Zenon DEF ThreadInv
<1>2. QED  BY <1>1, Controlled, PTL

\* The /proc fallback of route_get_info agrees with the kernel in every state,
\* whatever the routes change to.
THEOREM FallbackAlwaysAgrees == Spec => []FallbackAgrees
<1>1. TypeOK => FallbackAgrees  BY FallbackIsKernel
<1>2. QED  BY <1>1, TypeCorrect, PTL

(***************************************************************************)
(* MTUs.                                                                   *)
(***************************************************************************)
\* Only Mtus finishes a build, and what it leaves alone stays.
LEMMA MtuStep ==
  ASSUME ThreadInv, OuterMtuOfNic, [Next]_vars
  PROVE  OuterMtuOfNic'
<1>1. CASE Mtus
  <2>1. TypeOK /\ nic \in Nic  BY <1>1, Zenon DEF ThreadInv, ControlInv, Mtus
  <2>2. PICK base \in {Mtu[nic], OuterMtu} :
          mtu' = [outer |-> base, inner4 |-> Inner(base, OuterOverheadV4),
                  inner6 |-> Inner(base, OuterOverheadV6)]
    BY <1>1, <2>1, PmtuOfNic, Zenon DEF Mtus
  <2>3. nic' = nic  BY <1>1, Zenon DEF Mtus, nic
  <2>4. mtu'.outer = base  BY <2>2, Zenon
  <2>5. QED  BY <2>3, <2>4, Zenon DEF OuterMtuOfNic
<1>2. CASE pc' # "built"  BY <1>2, Zenon DEF OuterMtuOfNic
<1>3. CASE UNCHANGED <<pc, nicOf, peer, mtu>>  BY <1>3, Zenon DEF OuterMtuOfNic, nic
<1>4. CASE Thread
  BY <1>1, <1>2, <1>4, Zenon
  DEF Thread, Ping, NextPeer, BuildFrom, DetectNic, Bind, Iface, ResolveL2, Request,
      arp_request_reply, resolve_mac_via_ttl_probe, ndp_request_reply, SendFrame, GiveUp,
      Receive, Lookup, Gateway, GwLookup, Policy
<1>5. CASE Timeout  BY <1>2, <1>5, Zenon DEF Timeout, GiveUp
<1>6. QED
  BY <1>3, <1>4, <1>5, Zenon DEF Next, Answer, Traffic, RouteChange, KernelLearns, vars, work

\* Every built configuration has the MTU of the NIC the packets leave by or the
\* configured one, whatever the routes are and become.
THEOREM OuterMtuIsOfNic == Spec => []OuterMtuOfNic
<1>1. Init => OuterMtuOfNic  BY Zenon DEF Init, OuterMtuOfNic
<1>2. ThreadInv /\ OuterMtuOfNic /\ [Next]_vars => OuterMtuOfNic'
  BY MtuStep, Zenon
<1>3. QED  BY <1>1, <1>2, Controlled, PTL DEF Spec

(***************************************************************************)
(* The next hop is on the NIC's link.                                      *)
(***************************************************************************)
\* The gateway a route lookup finds is that of a line of the table read for ip.
LEMMA ViaIsRoute ==
  ASSUME TypeOK, NEW ip \in Ip, route_get_info(ip).via # None
  PROVE  \E k \in DOMAIN TableOf(ip) : /\ TableOf(ip)[k].gw = route_get_info(ip).via
                                       /\ TableOf(ip)[k].dev = route_get_info(ip).dev
<1> DEFINE t == TableOf(ip)
           l == LongestPrefix(t, ip)
<1>1. KernelRoute(ip) = l  BY KernelTakesFirstLongest, Zenon
<1>2. PICK A : t \in Seq(Route(A))  BY TablesAssumption, Zenon DEF TypeOK, TableOf
<1>3. IsLongest(t, ip, Len(t), l)
  <2> HIDE DEF t
  <2>1. QED  BY <1>2, ScanFindsLongest, Zenon
<1>4. DOMAIN t = 1..Len(t)  BY <1>2
<1>5. route_get_info(ip) \in {Info(l, None), Info(l, LinkMtu(l.dev)), Info(NoRoute, LinkMtu(NoRoute.dev))}
  BY <1>1, Zenon DEF TableOf, route_get_info, nl_get_route, proc_route_lookup_v4, proc_route_lookup_v6
<1> HIDE DEF t, l
<1>6. /\ l # NoRoute
      /\ route_get_info(ip).via = l.gw /\ route_get_info(ip).dev = l.dev
  BY <1>5 DEF Info, NoRoute
<1>7. \E k \in 1..Len(t) : l = t[k]  BY <1>3, <1>6, Zenon DEF IsLongest
<1>8. QED  BY <1>4, <1>6, <1>7, Zenon DEF t

\* Every step keeps the neighbour table one of stations.
LEMMA NeighStep ==
  ASSUME ThreadInv, NeighInv, [Next]_vars
  PROVE  NeighInv'
<1>1. ASSUME NEW ip \in Ip, nic \in Nic, Probe(ip) PROVE NeighInv'
  BY <1>1 DEF NeighInv, Probe, Responds, ThreadInv, TypeOK
<1>2. CASE UNCHANGED neigh  BY <1>2, Zenon DEF NeighInv
<1>3. CASE Lookup
  BY <1>1, <1>2, <1>3, Zenon DEF Lookup, ThreadInv, ControlInv, AskingHop
<1>4. CASE GwLookup
  BY <1>1, <1>2, <1>4 DEF GwLookup, ThreadInv, TypeOK, ControlInv, Ip
<1>5. ASSUME NEW n \in Nic, NEW ip \in Ip, KernelLearns(n, ip) PROVE NeighInv'
  BY <1>5, Zenon DEF NeighInv, KernelLearns, ThreadInv, TypeOK
<1>6. QED
  BY <1>2, <1>3, <1>4, <1>5, Zenon
  DEF Next, Thread, Ping, NextPeer, DetectNic, Bind, Iface, ResolveL2, Request, Receive, Gateway,
      Policy, Mtus, Timeout, Answer, Traffic, RouteChange, host, vars

\* Where an address is a station on no other link, a lookup returns its MAC on
\* the NIC's link or nothing.
LEMMA LookupOnNic ==
  ASSUME ThreadInv, NeighInv, NEW ip \in Ip, nic \in Nic,
         ip \in V4 => \A n \in Nic \ {nic} : Station[n][ip] = None
  PROVE  /\ lookup_cache(ip, nic) \subseteq {Station[nic][ip]}
         /\ ip \in V4 => lookup_arp_cache(ip, nic) \subseteq {Station[nic][ip]}
<1>1. nl_get_neigh_v6(ip, nic) \subseteq {Station[nic][ip]}
  BY Zenon DEF nl_get_neigh_v6, parse_neigh_nlmsg
<1>2. ip \in V4 => \A i \in {nic, None} : nl_get_neigh_v4(ip, i) \subseteq {Station[nic][ip]}
  <2>1. ASSUME ip \in V4, NEW i, NEW n \in Nic, parse_neigh_nlmsg_v4(n, ip, i) PROVE n = nic
    BY <2>1, Zenon DEF parse_neigh_nlmsg_v4, NeighInv
  <2>2. QED  BY <2>1, Zenon DEF nl_get_neigh_v4
<1>3. ProcArp(ip, nic) \subseteq {Station[nic][ip]}  BY Zenon DEF ProcArp
<1>4. QED  BY <1>1, <1>2, <1>3, Zenon DEF lookup_cache, lookup_arp_cache, lookup_ndp_cache

\* resolve_l2_peer_ip takes a gateway only from a route through the NIC, and
\* resolve_default_gateway_mac the NIC's own default gateway.
LEMMA LinkStep ==
  ASSUME ThreadInv, LinkInv, UplinkKept, GatewaysOnOneLink, [Next]_vars
  PROVE  LinkInv'
<1>1. CASE ResolveL2
  <2>1. ~dynamic /\ nic \in Nic /\ gw = None /\ me.ip \in Ip
    BY <1>1, HopType, Zenon DEF ResolveL2, ThreadInv, ControlInv
  <2>2. UNCHANGED <<nicOf, peer, gw>> /\ nic' = nic /\ l2' = resolve_l2_peer_ip(me.ip, nic)
    BY <1>1, Zenon DEF ResolveL2, nic
  <2>3. CASE l2' = me.ip
    <3>1. me.ip \in V4 => \A n \in Nic \ {nic} : Station[n][me.ip] = None
      BY <1>1, Zenon DEF UplinkKept, ResolveL2
    <3>2. QED  BY <2>1, <2>2, <2>3, <3>1, AddressAssumption DEF LinkInv, Ip
  <2>4. CASE l2' # me.ip
    <3>1. /\ route_get_info(me.ip).via # None /\ l2' = route_get_info(me.ip).via
          /\ route_get_info(me.ip).dev \in {None, nic}
      BY <2>2, <2>4, Zenon DEF resolve_l2_peer_ip, ensure_route_dev
    <3>2. route_get_info(me.ip).dev = nic
      BY <2>1, <3>1, RouteTypes DEF ThreadInv
    <3>3. PICK k \in DOMAIN TableOf(me.ip) : /\ TableOf(me.ip)[k].gw = l2'
                                             /\ TableOf(me.ip)[k].dev = nic
      BY <2>1, <3>1, <3>2, ViaIsRoute, Zenon DEF ThreadInv
    <3>4. CASE me.ip \in V4
      <4>1. table \in Tables /\ TableOf(me.ip) = table.v4
        BY <3>4, Zenon DEF ThreadInv, TypeOK, TableOf
      <4>2. l2' # None  BY <3>1, Zenon
      <4>3. \A n \in Nic \ {nic} : Station[n][l2'] = None
        BY <3>3, <4>1, <4>2, Zenon DEF GatewaysOnOneLink
      <4>4. QED  BY <2>1, <2>2, <4>3, AddressAssumption DEF LinkInv, Ip
    <3>5. CASE me.ip \notin V4
      <4>1. TableOf(me.ip) \in Seq(Route(V6))
        BY <3>5, TablesAssumption, Zenon DEF ThreadInv, TypeOK, TableOf
      <4>2. TableOf(me.ip)[k] \in Route(V6)  BY <4>1
      <4>3. l2' \notin V4  BY <3>3, <4>2, AddressAssumption DEF Route, Ip
      <4>4. QED  BY <2>1, <2>2, <4>3, AddressAssumption DEF LinkInv, Ip
    <3>6. QED  BY <3>4, <3>5, Zenon
  <2>5. QED  BY <2>3, <2>4, Zenon
<1>2. CASE Gateway
  <2>1. nic \in Nic /\ nic' = nic /\ l2' = l2 /\ pc = "gateway"
    BY <1>2, Zenon DEF Gateway, ThreadInv, ControlInv, nic
  <2>2. CASE DefaultGateway(nic) = None
    BY <1>2, <2>2, Zenon DEF Gateway, LinkInv
  <2>3. CASE DefaultGateway(nic) # None
    <3>1. PICK k \in Defaults :
            /\ DefaultGateway(nic) = table.v4[k].gw
            /\ (\E j \in Defaults : table.v4[j].dev = nic) => table.v4[k].dev = nic
      BY <2>1, <2>3, GatewayOfDefault DEF ThreadInv
    <3>2. table.v4[k].dev = nic  BY <2>1, <3>1, Zenon DEF UplinkKept, Defaults
    <3>3. table \in Tables /\ k \in DOMAIN table.v4 /\ gw' = table.v4[k].gw /\ gw' # None
      BY <1>2, <2>3, <3>1 DEF Defaults, ThreadInv, TypeOK, Gateway
    <3>4. \A n \in Nic \ {nic} : Station[n][gw'] = None
      BY <3>2, <3>3, Zenon DEF GatewaysOnOneLink
    <3>5. QED  BY <2>1, <3>4, Zenon DEF LinkInv
  <2>4. QED  BY <2>2, <2>3, Zenon
<1>3. CASE l2' = None /\ gw' = None  BY <1>3, AddressAssumption, Zenon DEF LinkInv, Ip
<1>4. CASE pc' = "ping" \/ pc' = "failed"  BY <1>4, Zenon DEF LinkInv
<1>5. CASE UNCHANGED <<nicOf, peer, l2, gw>> /\ pc \notin {"ping", "nic", "failed"}
  BY <1>5, Zenon DEF LinkInv, nic
<1>6. CASE DetectNic
  BY <1>3, <1>6, Zenon DEF DetectNic, ThreadInv, ControlInv, work
<1>7. CASE Ping \/ NextPeer
  BY <1>3, <1>4, <1>7 DEF Ping, NextPeer, BuildFrom
<1>8. CASE Bind \/ Iface \/ Request \/ Receive \/ Lookup \/ GwLookup \/ Policy \/ Mtus \/ Timeout
  BY <1>5, <1>8, Zenon DEF Bind, Iface, Request, Receive, Lookup, GwLookup, Policy, Mtus, Timeout, work
<1>9. CASE UNCHANGED <<pc, nicOf, peer, l2, gw>>  BY <1>9 DEF LinkInv, nic
<1>10. QED
  BY <1>1, <1>2, <1>6, <1>7, <1>8, <1>9
  DEF Next, Thread, Answer, Traffic, RouteChange, KernelLearns, vars, work

\* Every step that finds dst_mac finds it on the NIC's link.
LEMMA MacStep ==
  ASSUME ThreadInv, NeighInv, LinkInv, NextHopOnNic, [Next]_vars
  PROVE  NextHopOnNic'
<1>1. CASE Receive
  <2>1. nic' = nic /\ l2' = l2 /\ gw' = gw  BY <1>1, Zenon DEF Receive, nic
  <2>2. Asked \in {l2, gw} \ {None}
    BY <1>1, AddressAssumption
    DEF Asked, Receive, ThreadInv, TypeOK, ControlInv, AskingHop, Ip
  <2>3. CASE rx = "reply"
    <3>1. mac' = Station[nic][Asked]  BY <1>1, <2>3, Zenon DEF Receive
    <3>2. QED  BY <2>1, <2>2, <3>1, Zenon DEF NextHopOnNic
  <2>4. CASE rx # "reply"  BY <1>1, <2>1, <2>4, Zenon DEF Receive, NextHopOnNic
  <2>5. QED  BY <2>3, <2>4, Zenon
<1>2. CASE Lookup
  <2>1. /\ nic' = nic /\ l2' = l2 /\ gw' = gw /\ nic \in Nic /\ l2 \in Ip
        /\ pc \notin {"ping", "nic", "failed"}
    BY <1>2, Zenon DEF Lookup, nic, ThreadInv, ControlInv, AskingHop
  <2>2. lookup_cache(l2, nic) \subseteq {Station[nic][l2]}
    <3>1. l2 \in V4 => \A n \in Nic \ {nic} : Station[n][l2] = None  BY <2>1, Zenon DEF LinkInv
    <3>2. QED  BY <2>1, <3>1, LookupOnNic, Zenon
  <2>3. mac' = mac \/ mac' = Station[nic][l2]  BY <1>2, <2>2, Zenon DEF Lookup
  <2>4. l2 # None  BY <2>1, AddressAssumption, Zenon
  <2>5. QED  BY <2>1, <2>3, <2>4, Zenon DEF NextHopOnNic
<1>3. CASE GwLookup
  <2>1. /\ nic' = nic /\ l2' = l2 /\ gw' = gw /\ nic \in Nic /\ gw \in V4 /\ gw \in Ip /\ gw # None
        /\ pc \notin {"ping", "nic", "failed"}
    BY <1>3, Zenon DEF GwLookup, nic, ThreadInv, TypeOK, ControlInv, Ip
  <2>2. lookup_arp_cache(gw, nic) \subseteq {Station[nic][gw]}
    <3>1. \A n \in Nic \ {nic} : Station[n][gw] = None  BY <2>1, Zenon DEF LinkInv
    <3>2. QED  BY <2>1, <3>1, LookupOnNic, Zenon
  <2>3. mac' = mac \/ mac' = Station[nic][gw]  BY <1>3, <2>2, Zenon DEF GwLookup
  <2>4. QED  BY <2>1, <2>3, Zenon DEF NextHopOnNic
<1>4. CASE mac' = None \/ pc' = "ping"  BY <1>4, Zenon DEF NextHopOnNic
<1>5. CASE UNCHANGED <<nicOf, peer, l2, gw, mac>> /\ pc # "ping"
  BY <1>5, Zenon DEF NextHopOnNic, nic
<1>6. CASE DetectNic \/ ResolveL2 \/ Gateway
  BY <1>4, <1>6, Zenon DEF DetectNic, ResolveL2, Gateway, ThreadInv, ControlInv, work
<1>7. CASE Ping \/ NextPeer
  BY <1>4, <1>7, Zenon DEF Ping, NextPeer, BuildFrom
<1>8. CASE Bind \/ Iface \/ Request \/ Policy \/ Mtus \/ Timeout
  BY <1>5, <1>8, Zenon DEF Bind, Iface, Request, Policy, Mtus, Timeout, work
<1>9. CASE UNCHANGED <<pc, nicOf, peer, l2, gw, mac>>  BY <1>9, Zenon DEF NextHopOnNic, nic
<1>10. QED
  BY <1>1, <1>2, <1>3, <1>6, <1>7, <1>8, <1>9
  DEF Next, Thread, Answer, Traffic, RouteChange, KernelLearns, vars, work

\* dst_mac is the next hop's or the gateway's address on the ingress NIC's link,
\* on a network where gateways are neighbours on one link and as long as the
\* uplink is kept: whatever else the routes, the neighbour table, the replies and
\* their losses do.
THEOREM NextHopStaysOnNic ==
  ASSUME GatewaysOnOneLink
  PROVE  Spec /\ []UplinkKept => []NextHopOnNic
<1> DEFINE Inv == NeighInv /\ LinkInv /\ NextHopOnNic
<1>1. Init => Inv
  BY DEF Init, NeighInv, LinkInv, NextHopOnNic
<1>2. ThreadInv /\ UplinkKept /\ Inv /\ [Next]_vars => Inv'
  BY NeighStep, LinkStep, MacStep, Zenon
<1>3. Inv => NextHopOnNic
  BY Zenon
<1> HIDE DEF Inv
<1>4. QED  BY <1>1, <1>2, <1>3, Controlled, PTL DEF Spec

(***************************************************************************)
(* No early fallback.                                                      *)
(***************************************************************************)
\* A loop of r + 1 iterations costs one more than a loop of r.
LEMMA OneMore ==
  ASSUME NEW r \in Nat, NEW c \in Nat
  PROVE  r * c \in Nat /\ (r + 1) * c = r * c + c
OBVIOUS

\* Requests per round, and their number in the rounds done.
LEMMA RoundTypes ==
  ASSUME TypeOK
  PROVE  PerRound \in Nat /\ round * PerRound \in Nat /\ Sends \in Nat \ {0}
<1>1. PerRound \in Nat /\ Sends \in Nat \ {0}  BY RetryAssumption, Zenon DEF PerRound
<1>2. QED  BY <1>1, OneMore, Zenon DEF TypeOK

\* Every step keeps the count of unanswered exchanges.
LEMMA MissedStep ==
  ASSUME ThreadInv, MissedInv, [Next]_vars
  PROVE  MissedInv'
<1> DEFINE done == round * PerRound
           all == Attempts * PerRound
<1>1. PerRound \in Nat /\ done \in Nat /\ Sends \in Nat \ {0} /\ sent \in Nat /\ missed \in Nat
  BY RoundTypes, Zenon DEF ThreadInv, TypeOK
<1>2. CASE UNCHANGED <<pc, conf, peer, l2, gw, round, sent, caps, missed>>
  BY <1>2, Zenon DEF MissedInv, PerRound, me, dynamic
<1>3. CASE Ping \/ NextPeer
  BY <1>3, Zenon DEF Ping, NextPeer, BuildFrom, MissedInv
<1>4. CASE DetectNic \/ Bind \/ Iface
  BY <1>4, Zenon DEF DetectNic, Bind, Iface, MissedInv, ThreadInv, ControlInv, work, host, time, me, dynamic
<1>5. CASE ResolveL2
  <2>1. pc' = "request" /\ round' = 0 /\ sent' = 0 /\ gw' = None /\ missed' = missed
    BY <1>5, Zenon DEF ResolveL2, ThreadInv, ControlInv, time
  <2>2. PerRound' \in Nat  BY RetryAssumption, Zenon DEF PerRound
  <2>3. \A c \in Nat : 0 * c + 0 = 0
    OBVIOUS
  <2>4. round' * PerRound' + sent' = 0 * PerRound' + 0  BY <2>1, Zenon
  <2>5. round' * PerRound' + sent' = 0  BY <2>2, <2>3, <2>4, Zenon
  <2>6. QED  BY <1>1, <2>1, <2>5 DEF MissedInv
<1>6. CASE Request
  <2>1. /\ UNCHANGED <<conf, peer, l2, gw, caps, missed>> /\ pc = "request"
        /\ PerRound' = PerRound /\ dynamic' = dynamic
    BY <1>6 DEF Request, host, time, PerRound, me, dynamic
  <2>2. CASE "raw" \in caps
    <3>1. pc' = "listen" /\ sent' = sent + 1 /\ round' = round
      BY <1>6, <2>2, Zenon DEF Request, arp_request_reply, resolve_mac_via_ttl_probe,
         ndp_request_reply, SendFrame
    <3>2. round' * PerRound' = done  BY <2>1, <3>1, Zenon
    <3> HIDE DEF done
    <3>3. gw = None => missed >= done + sent  BY <2>1, <2>2 DEF MissedInv, done
    <3>4. gw' = None => missed' + 1 >= done + sent'  BY <1>1, <2>1, <3>1, <3>3
    <3>5. gw # None /\ ~dynamic => missed >= all  BY <2>1, <2>2, Zenon DEF MissedInv
    <3>6. QED  BY <2>1, <3>1, <3>2, <3>4, <3>5, Zenon DEF MissedInv
  <2>3. CASE "raw" \notin caps  BY <2>1, <2>3, Zenon DEF MissedInv
  <2>4. QED  BY <2>2, <2>3, Zenon
<1>7. CASE Timeout
  <2>1. /\ UNCHANGED <<conf, peer, l2, gw, caps>> /\ pc = "listen" /\ sent \in 1..Sends
        /\ PerRound' = PerRound /\ dynamic' = dynamic
    BY <1>7, Zenon DEF Timeout, host, PerRound, me, dynamic, ThreadInv, ControlInv
  <2>2. CASE "raw" \notin caps  BY <2>1, <2>2, Zenon DEF MissedInv
  <2>3. CASE "raw" \in caps /\ gw = None
    <3>1. method = (IF l2 \in V4 THEN "arp" ELSE "ndp") /\ (method = "ndp" => sent = 1)
      BY <2>1, <2>3, Zenon DEF ThreadInv, ControlInv, AskingHop
    <3>2. missed' = missed + 1 /\ round' = round /\ sent' = sent
          /\ pc' = IF sent < PerRound THEN "request" ELSE "lookup"
      BY <1>1, <1>7, <2>1, <3>1 DEF Timeout, GiveUp, PerRound
    <3>3. round' * PerRound' = done  BY <2>1, <3>2, Zenon
    <3> HIDE DEF done
    <3>4. missed + 1 >= done + sent  BY <2>1, <2>3, Zenon DEF MissedInv, done
    <3>5. CASE sent < PerRound
      <4>1. missed' >= done + sent'  BY <1>1, <3>2, <3>4, Zenon
      <4>2. QED  BY <2>1, <2>3, <3>2, <3>3, <3>5, <4>1 DEF MissedInv
    <3>6. CASE ~ (sent < PerRound)
      <4>1. missed' >= done + PerRound  BY <1>1, <3>2, <3>4, <3>6
      <4>2. QED  BY <2>1, <2>3, <3>2, <3>3, <3>6, <4>1 DEF MissedInv
    <3>7. QED  BY <3>5, <3>6, Zenon
  <2>4. CASE "raw" \in caps /\ gw # None
    <3>1. method \in {"gwarp", "ttl"}  BY <2>1, <2>4, Zenon DEF ThreadInv, ControlInv
    <3>2. missed' = missed /\ pc' \in {"request", "gwlookup"}
      BY <1>7, <3>1, Zenon DEF Timeout, GiveUp
    <3>3. ~dynamic => missed >= all  BY <2>1, <2>4 DEF MissedInv
    <3>4. QED  BY <2>1, <2>4, <3>2, <3>3, Zenon DEF MissedInv
  <2>5. QED  BY <2>2, <2>3, <2>4, Zenon
<1>8. CASE Lookup
  <2>1. /\ UNCHANGED <<conf, peer, l2, gw, caps, missed>> /\ pc = "lookup" /\ gw = None
        /\ PerRound' = PerRound /\ dynamic' = dynamic /\ round < Attempts /\ round \in Nat
    BY <1>8, Zenon DEF Lookup, PerRound, me, dynamic, ThreadInv, TypeOK, ControlInv, AskingHop
  <2>2. CASE "raw" \notin caps  BY <2>1, <2>2, Zenon DEF MissedInv
  <2>3. CASE "raw" \in caps /\ pc' = "policy"  BY <2>1, <2>3, Zenon DEF MissedInv
  <2>4. CASE "raw" \in caps /\ pc' # "policy"
    <3>1. round' = round + 1 /\ sent' = 0
          /\ pc' = IF round + 1 < Attempts THEN "request" ELSE "gateway"
      BY <1>8, <2>4, Zenon DEF Lookup
    <3>2. missed >= done + PerRound  BY <2>1, <2>4, Zenon DEF MissedInv
    <3>3. (round + 1) * PerRound = done + PerRound  BY <1>1, <2>1, OneMore, Zenon
    <3>4. round' * PerRound' = (round + 1) * PerRound  BY <2>1, <3>1, Zenon
    <3>5. CASE round + 1 < Attempts
      <4> HIDE DEF done
      <4>1. missed' >= round' * PerRound' + sent'  BY <1>1, <2>1, <3>1, <3>2, <3>3, <3>4
      <4>2. QED  BY <2>1, <3>1, <3>5, <4>1 DEF MissedInv
    <3>6. CASE ~ (round + 1 < Attempts)
      <4>1. Attempts = round + 1  BY <2>1, <3>6, RetryAssumption
      <4>2. all = (round + 1) * PerRound  BY <4>1, Zenon
      <4>3. missed >= all  BY <3>2, <3>3, <4>2, Zenon
      <4>4. QED  BY <2>1, <3>1, <3>6, <4>3, Zenon DEF MissedInv
    <3>7. QED  BY <3>5, <3>6, Zenon
  <2>5. QED  BY <2>2, <2>3, <2>4, Zenon
<1>9. CASE Gateway
  <2>1. /\ UNCHANGED <<conf, peer, l2, caps, missed>> /\ pc = "gateway" /\ gw = None
        /\ PerRound' = PerRound /\ dynamic' = dynamic
    BY <1>9, Zenon DEF Gateway, PerRound, me, dynamic, ThreadInv, ControlInv, host, time
  <2>2. (gw' = None /\ pc' = "failed") \/ (gw' # None /\ pc' = "request")
    BY <1>9, <2>1, Zenon DEF Gateway
  <2>3. QED  BY <2>1, <2>2, Zenon DEF MissedInv
<1>10. CASE Receive \/ GwLookup \/ Policy \/ Mtus
  <2>1. /\ UNCHANGED <<conf, peer, l2, gw, caps, missed>> /\ PerRound' = PerRound /\ dynamic' = dynamic
        /\ pc \notin {"ping", "request", "lookup", "gateway"}
    BY <1>10, Zenon DEF Receive, GwLookup, Policy, Mtus, PerRound, me, dynamic, host, time
  <2>2. pc' \notin {"ping", "request", "listen", "lookup", "gateway"} \/ UNCHANGED <<pc, round, sent>>
    BY <1>10, Zenon DEF Receive, GwLookup, Policy, Mtus
  <2>3. QED  BY <2>1, <2>2, Zenon DEF MissedInv
<1>11. QED
  BY <1>2, <1>3, <1>4, <1>5, <1>6, <1>7, <1>8, <1>9, <1>10
  DEF Next, Thread, Answer, Traffic, RouteChange, KernelLearns, vars, work, host, time

\* The default gateway replaces the next hop only after every request of every
\* round went unanswered, for any number of rounds and requests.
THEOREM FallbackIsLate == Spec => []NoEarlyFallback
<1>1. Init => MissedInv  BY Zenon DEF Init, MissedInv
<1>2. ThreadInv /\ MissedInv /\ [Next]_vars => MissedInv'
  BY MissedStep
<1>3. MissedInv => NoEarlyFallback  BY Zenon DEF MissedInv, NoEarlyFallback, PerRound
<1>4. QED  BY <1>1, <1>2, <1>3, Controlled, PTL DEF Spec

(***************************************************************************)
(* Time between two WATCHDOG=1.                                            *)
(***************************************************************************)
\* A loop with more iterations takes longer.
LEMMA MoreRounds ==
  ASSUME NEW a \in Nat, NEW b \in Nat, NEW c \in Nat, a <= b
  PROVE  a * c <= b * c /\ a * c \in Nat /\ b * c \in Nat
OBVIOUS

\* What a build costs, in parts.
LEMMA Costs ==
  /\ RoundCost \in Nat /\ HopCost \in Nat /\ BuildCost \in Nat /\ Sends \in Nat \ {0}
  /\ RoundCost = Sends * RecvWait + Pause
  /\ BuildCost = HopCost + 2 * Sends * RecvWait + GwRounds * GwPause
<1>1. Attempts \in Nat /\ Sends \in Nat \ {0} /\ GwRounds \in Nat  BY RetryAssumption, Zenon
<1>2. RoundCost \in Nat /\ RoundCost = Sends * RecvWait + Pause
  BY <1>1 DEF RoundCost, RecvWait, Pause
<1>3. HopCost \in Nat  BY <1>1, <1>2, OneMore, Zenon DEF HopCost
<1>4. BuildCost = HopCost + 2 * Sends * RecvWait + GwRounds * GwPause
  BY Zenon DEF BuildCost, HopCost, RoundCost
<1>5. 2 * Sends * RecvWait \in Nat /\ GwRounds * GwPause \in Nat
  BY <1>1 DEF RecvWait, GwPause
<1> HIDE DEF HopCost, RoundCost, BuildCost
<1>6. BuildCost \in Nat  BY <1>3, <1>4, <1>5
<1>7. QED  BY <1>1, <1>2, <1>3, <1>4, <1>6, Zenon

\* The rounds done before the last one fit in the time of all of them.
LEMMA RoundsFit ==
  ASSUME TypeOK, round < Attempts
  PROVE  /\ round * RoundCost \in Nat
         /\ (round + 1) * RoundCost = round * RoundCost + RoundCost
         /\ round * RoundCost + RoundCost <= HopCost
<1>1. round \in Nat /\ Attempts \in Nat /\ RoundCost \in Nat
  BY Costs, RetryAssumption DEF TypeOK
<1>2. round + 1 \in Nat /\ round + 1 <= Attempts  BY <1>1
<1>3. (round + 1) * RoundCost <= Attempts * RoundCost  BY <1>1, <1>2, MoreRounds, Zenon
<1>4. round * RoundCost \in Nat /\ (round + 1) * RoundCost = round * RoundCost + RoundCost
  BY <1>1, OneMore
<1>5. QED  BY <1>3, <1>4, Zenon DEF HopCost

\* What the earlier peers may have taken, and this one on top.
LEMMA BeforeFits ==
  ASSUME TypeOK
  PROVE  /\ Before \in Nat /\ builds \in Nat \ {0}
         /\ Before + BuildCost = BuildCost * builds + RecvWait * chatter
<1>1. builds \in Nat \ {0} /\ chatter \in Nat
  BY NPeersAssumption, ChatterAssumption DEF TypeOK, builds
<1>2. builds - 1 \in Nat /\ (builds - 1) + 1 = builds  BY <1>1
<1>3. BuildCost \in Nat  BY Costs, Zenon
<1>4. (builds - 1) * BuildCost \in Nat /\ builds * BuildCost = (builds - 1) * BuildCost + BuildCost
  BY <1>2, <1>3, OneMore, Zenon
<1>5. \A x, y \in Nat : x * y = y * x
  OBVIOUS
<1>6. /\ BuildCost * (builds - 1) = (builds - 1) * BuildCost
      /\ BuildCost * builds = builds * BuildCost
  BY <1>1, <1>2, <1>3, <1>5, Zenon
<1>7. BuildCost * (builds - 1) \in Nat
      /\ BuildCost * builds = BuildCost * (builds - 1) + BuildCost
  BY <1>4, <1>6, Zenon
<1> HIDE DEF builds, BuildCost
<1>8. RecvWait * chatter \in Nat  BY <1>1 DEF RecvWait
<1> DEFINE x == BuildCost * (builds - 1)
           y == BuildCost * builds
           z == RecvWait * chatter
<1>9. x \in Nat /\ y = x + BuildCost /\ z \in Nat /\ Before = x + z  BY <1>7, <1>8, Zenon DEF Before
<1> HIDE DEF x, y, z
<1>10. Before \in Nat /\ Before + BuildCost = y + z  BY <1>3, <1>9
<1>11. QED  BY <1>1, <1>10, Zenon DEF y, z

\* The same after a step.
LEMMA BeforeNext == TypeOK' => Before' \in Nat
<1> DEFINE IsNat == Before \in Nat
<1>1. TypeOK => IsNat  BY BeforeFits, Zenon
<1> HIDE DEF IsNat
<1>2. TypeOK' => IsNat'  BY <1>1, PTL
<1>3. QED  BY <1>2, Zenon DEF IsNat

\* Steps that leave the peer, the pass and the chatter alone.
LEMMA BeforeKept ==
  ASSUME UNCHANGED <<peer, pass, chatter>>
  PROVE  Before' = Before
BY DEF Before, builds

\* Every step keeps the bound on the time spent on this peer.
LEMMA TimeStep ==
  ASSUME ThreadInv, ThreadInv', TimeInv, [Next]_vars
  PROVE  TimeInv'
<1> DEFINE done == round * RoundCost
<1>1. /\ clock \in Nat /\ clock' \in Nat /\ sent \in Nat /\ round \in Nat
      /\ Before \in Nat /\ Before' \in Nat
      /\ GwRounds \in Nat
  <2>1. Before \in Nat /\ Before' \in Nat  BY BeforeFits, BeforeNext, Zenon DEF ThreadInv
  <2>2. QED  BY <2>1, RetryAssumption DEF ThreadInv, TypeOK
<1>2. /\ RoundCost \in Nat /\ HopCost \in Nat /\ BuildCost \in Nat /\ Sends \in Nat \ {0}
      /\ RoundCost = Sends * 8 + 6
      /\ BuildCost = HopCost + 2 * Sends * 8 + GwRounds * 5
  BY Costs, Zenon DEF RecvWait, Pause, GwPause
<1>3. AskingHop => /\ done \in Nat /\ (round + 1) * RoundCost = done + RoundCost
                   /\ done + RoundCost <= HopCost
  BY RoundsFit, Zenon DEF ThreadInv, ControlInv
<1>4. CASE UNCHANGED <<pc, pass, peer, gw, method, round, sent, clock, chatter>>
  BY <1>4, BeforeKept DEF TimeInv, TimeBound, builds
<1>5. CASE Ping
  <2>1. clock' = 0 /\ pc' \in {"nic", "bind"}  BY <1>5, Zenon DEF Ping, BuildFrom
  <2>2. QED  BY <1>1, <2>1 DEF TimeInv
<1>6. CASE NextPeer
  <2>1. /\ pc \in {"built", "failed"} /\ UNCHANGED <<clock, chatter>>
        /\ clock <= BuildCost * builds + RecvWait * chatter
    BY <1>6, BeforeFits, Zenon DEF NextPeer, TimeInv, ThreadInv
  <2>2. CASE pc' = "ping" /\ UNCHANGED work
    BY <2>1, <2>2, Zenon DEF TimeInv, TimeBound, work, builds
  <2>3. CASE /\ pc' \in {"nic", "bind"}
             /\ \/ peer' = peer + 1 /\ pass' = pass
                \/ peer' = 1 /\ pass' = "reload" /\ peer = NPeers /\ pass = "refresh"
    <3>1. builds' - 1 = builds
      <4>1. peer \in Nat /\ NPeers \in Nat  BY NPeersAssumption DEF ThreadInv, TypeOK
      <4>2. CASE peer' = peer + 1 /\ pass' = pass  BY <4>1, <4>2 DEF builds
      <4>3. CASE peer' = 1 /\ pass' = "reload" /\ peer = NPeers /\ pass = "refresh"
        <5>1. builds' = 1 + NPeers /\ builds = NPeers + 0  BY <4>3, Zenon DEF builds
        <5>2. QED  BY <4>1, <5>1
      <4>4. QED  BY <2>3, <4>2, <4>3, Zenon
    <3>2. Before' = BuildCost * builds + RecvWait * chatter  BY <2>1, <3>1, Zenon DEF Before
    <3>3. QED  BY <2>1, <2>3, <3>2, Zenon DEF TimeInv
  <2>4. QED  BY <1>6, <2>2, <2>3, Zenon DEF NextPeer, BuildFrom
<1>7. CASE DetectNic \/ Bind \/ Iface
  <2>1. /\ pc \in {"nic", "bind", "iface"} /\ pc' \in {"bind", "iface", "l2", "gateway", "failed"}
        /\ UNCHANGED <<work, time>>
    BY <1>7, Zenon DEF DetectNic, Bind, Iface
  <2>2. Before' = Before /\ clock' = clock  BY <2>1, BeforeKept, Zenon DEF work, time
  <2>3. clock <= Before  BY <2>1, Zenon DEF TimeInv
  <2>4. clock <= Before + HopCost /\ clock <= Before + BuildCost  BY <1>1, <1>2, <2>3
  <2>5. QED  BY <2>1, <2>2, <2>3, <2>4 DEF TimeInv
<1>8. CASE ResolveL2
  <2>1. /\ pc = "l2" /\ pc' = "request" /\ round' = 0 /\ sent' = 0
        /\ method' \in {"arp", "ndp"} /\ UNCHANGED <<pass, peer, time>>
    BY <1>8 DEF ResolveL2
  <2>2. Before' = Before /\ clock' = clock  BY <2>1, BeforeKept, Zenon DEF time
  <2>3. clock <= Before  BY <2>1, Zenon DEF TimeInv
  <2>4. \A c \in Nat : 0 * c = 0
    OBVIOUS
  <2>5. round' * RoundCost = 0  BY <1>2, <2>1, <2>4, Zenon
  <2>6. clock' <= Before' + round' * RoundCost + sent' * RecvWait
    BY <1>1, <2>1, <2>2, <2>3, <2>5 DEF RecvWait
  <2>7. QED  BY <2>1, <2>6, Zenon DEF TimeInv
<1>9. CASE Request
  <2>1. /\ pc = "request" /\ sent < Sends /\ Before' = Before
        /\ UNCHANGED <<pass, peer, gw, clock, chatter>>
    BY <1>9, BeforeKept, Zenon DEF Request, ThreadInv, ControlInv, time
  <2>2. CASE gw = None
    <3>1. AskingHop /\ method \in {"arp", "ndp"}
      BY <2>1, <2>2, Zenon DEF AskingHop, ThreadInv, ControlInv
    <3>2. clock <= Before + done + sent * 8  BY <2>1, <2>2 DEF TimeInv, RecvWait
    <3>3. /\ round' = round /\ method' = method
          /\ (pc' = "listen" /\ sent' = sent + 1) \/ pc' = "lookup"
      BY <1>9, <3>1, Zenon DEF Request, arp_request_reply, resolve_mac_via_ttl_probe, ndp_request_reply,
         SendFrame, GiveUp
    <3>4. round' * RoundCost = done  BY <3>3
    <3> HIDE DEF done
    <3>5. CASE pc' = "listen" /\ sent' = sent + 1
      <4>1. clock' + 8 <= Before' + done + sent' * 8  BY <1>1, <1>3, <2>1, <3>1, <3>2, <3>5
      <4>2. QED  BY <3>1, <3>3, <3>4, <3>5, <4>1 DEF TimeInv, RecvWait
    <3>6. CASE pc' = "lookup"
      <4>1. clock' <= Before' + done + Sends * 8  BY <1>1, <1>2, <1>3, <2>1, <3>1, <3>2
      <4>2. QED  BY <3>4, <3>6, <4>1, Zenon DEF TimeInv, RecvWait
    <3>7. QED  BY <3>3, <3>5, <3>6
  <2>3. CASE gw # None
    <3>1. method \in {"gwarp", "ttl"}  BY <2>1, <2>3 DEF ThreadInv, ControlInv
    <3>2. CASE pc' = "listen"
      <4>1. sent' = sent + 1 /\ method' = method
        BY <1>9, <3>2 DEF Request, arp_request_reply, resolve_mac_via_ttl_probe,
           ndp_request_reply, SendFrame, GiveUp
      <4>2. CASE method = "gwarp"
        <5>1. clock <= Before + HopCost + sent * 8  BY <2>1, <4>2 DEF TimeInv, RecvWait
        <5>2. clock' + 8 <= Before' + HopCost + sent' * 8  BY <1>1, <1>2, <2>1, <4>1, <5>1
        <5>3. QED  BY <2>1, <2>3, <3>2, <4>1, <4>2, <5>2 DEF TimeInv, RecvWait
      <4>3. CASE method = "ttl"
        <5>1. clock <= Before + HopCost + (Sends + sent) * 8  BY <2>1, <4>3 DEF TimeInv, RecvWait
        <5>2. clock' + 8 <= Before' + HopCost + (Sends + sent') * 8
          BY <1>1, <1>2, <2>1, <4>1, <5>1
        <5>3. QED  BY <2>1, <2>3, <3>2, <4>1, <4>3, <5>2 DEF TimeInv, RecvWait
      <4>4. QED  BY <3>1, <4>2, <4>3, Zenon
    <3>3. CASE pc' = "request"
      <4>1. method = "gwarp" /\ method' = "ttl" /\ sent' = 0
        BY <1>9, <2>1, <3>1, <3>3 DEF Request, arp_request_reply, resolve_mac_via_ttl_probe,
           ndp_request_reply, SendFrame, GiveUp
      <4>2. clock <= Before + HopCost + sent * 8  BY <2>1, <4>1, Zenon DEF TimeInv, RecvWait
      <4>3. clock' <= Before' + HopCost + (Sends + sent') * 8
        BY <1>1, <1>2, <2>1, <4>1, <4>2
      <4>4. QED  BY <2>1, <2>3, <3>3, <4>1, <4>3 DEF TimeInv, RecvWait
    <3>4. CASE pc' = "gwlookup"
      <4>1. method = "ttl" /\ round' = 0
        BY <1>9, <2>1, <3>1, <3>4, Zenon DEF Request, arp_request_reply, resolve_mac_via_ttl_probe,
           ndp_request_reply, SendFrame, GiveUp
      <4>2. clock <= Before + HopCost + (Sends + sent) * 8  BY <2>1, <4>1 DEF TimeInv, RecvWait
      <4>3. clock' <= Before' + HopCost + 2 * Sends * 8 + round' * 5
        BY <1>1, <1>2, <2>1, <4>1, <4>2
      <4>4. QED  BY <3>4, <4>3, Zenon DEF TimeInv, RecvWait, GwPause
    <3>5. pc' \in {"listen", "request", "gwlookup"}
      BY <1>9, <3>1, Zenon DEF Request, arp_request_reply, resolve_mac_via_ttl_probe,
         ndp_request_reply, SendFrame, GiveUp
    <3>6. QED  BY <3>2, <3>3, <3>4, <3>5, Zenon
  <2>4. QED  BY <2>2, <2>3, Zenon
<1>10. CASE Timeout
  <2>1. /\ pc = "listen" /\ sent \in 1..Sends /\ Before' = Before
        /\ UNCHANGED <<pass, peer, gw, chatter>> /\ clock' <= clock + 8
    BY <1>1, <1>10, BeforeKept DEF Timeout, ThreadInv, ControlInv, NdpWait, RecvWait
  <2>2. CASE gw = None
    <3>1. AskingHop /\ method \in {"arp", "ndp"}
      BY <2>1, <2>2, Zenon DEF AskingHop, ThreadInv, ControlInv
    <3>2. clock + 8 <= Before + done + sent * 8  BY <2>1, <2>2, Zenon DEF TimeInv, RecvWait
    <3>3. /\ round' = round /\ method' = method /\ sent' = sent /\ pc' \in {"request", "lookup"}
      BY <1>10, <3>1, Zenon DEF Timeout, GiveUp
    <3>4. round' * RoundCost = done  BY <3>3
    <3> HIDE DEF done
    <3>5. clock' <= Before' + done + sent' * 8 /\ clock' <= Before' + done + Sends * 8
      BY <1>1, <1>2, <1>3, <2>1, <3>1, <3>2, <3>3
    <3>6. QED  BY <3>1, <3>3, <3>4, <3>5, Zenon DEF TimeInv, RecvWait
  <2>3. CASE gw # None
    <3>1. method \in {"gwarp", "ttl"}  BY <2>1, <2>3, Zenon DEF ThreadInv, ControlInv
    <3>2. CASE method = "gwarp"
      <4>1. clock + 8 <= Before + HopCost + sent * 8  BY <2>1, <3>2, Zenon DEF TimeInv, RecvWait
      <4>2. /\ clock' <= Before' + HopCost + sent * 8
            /\ clock' <= Before' + HopCost + (Sends + 0) * 8
        BY <1>1, <1>2, <2>1, <4>1
      <4>3. pc' = "request" /\ \/ method' = "gwarp" /\ sent' = sent
                               \/ method' = "ttl" /\ sent' = 0
        BY <1>10, <3>2, Zenon DEF Timeout, GiveUp
      <4>4. QED  BY <2>1, <2>3, <4>2, <4>3 DEF TimeInv, RecvWait
    <3>3. CASE method = "ttl"
      <4>1. clock + 8 <= Before + HopCost + (Sends + sent) * 8  BY <2>1, <3>3 DEF TimeInv, RecvWait
      <4>2. /\ clock' <= Before' + HopCost + (Sends + sent) * 8
            /\ clock' <= Before' + HopCost + 2 * Sends * 8 + 0 * 5
        BY <1>1, <1>2, <2>1, <4>1
      <4>3. \/ pc' = "request" /\ method' = "ttl" /\ sent' = sent
            \/ pc' = "gwlookup" /\ round' = 0
        BY <1>10, <3>3, Zenon DEF Timeout, GiveUp
      <4>4. QED  BY <2>1, <2>3, <4>2, <4>3, Zenon DEF TimeInv, RecvWait, GwPause
    <3>4. QED  BY <3>1, <3>2, <3>3
  <2>4. QED  BY <2>2, <2>3
<1>11. CASE Receive
  <2>1. /\ pc = "listen" /\ sent \in 1..Sends /\ Before' = Before
        /\ UNCHANGED <<pass, peer, gw, method, round, sent, clock, chatter>>
    BY <1>11, BeforeKept, Zenon DEF Receive, ThreadInv, ControlInv, time
  <2>2. CASE rx # "reply"  BY <1>4, <1>11, <2>1, <2>2 DEF Receive
  <2>3. CASE rx = "reply"
    <3>1. pc' = "policy"  BY <1>11, <2>3, Zenon DEF Receive
    <3>2. clock <= Before + BuildCost
      <4>1. CASE gw = None
        <5>1. AskingHop  BY <2>1, <4>1, Zenon DEF AskingHop
        <5>2. clock + 8 <= Before + done + sent * 8  BY <2>1, <4>1, Zenon DEF TimeInv, RecvWait
        <5> HIDE DEF done
        <5>3. QED  BY <1>1, <1>2, <1>3, <2>1, <5>1, <5>2
      <4>2. CASE gw # None
        <5>1. method \in {"gwarp", "ttl"}  BY <2>1, <4>2, Zenon DEF ThreadInv, ControlInv
        <5>2. \/ clock + 8 <= Before + HopCost + sent * 8
              \/ clock + 8 <= Before + HopCost + (Sends + sent) * 8
          BY <2>1, <5>1, Zenon DEF TimeInv, RecvWait
        <5>3. QED  BY <1>1, <1>2, <2>1, <5>2
      <4>3. QED  BY <4>1, <4>2, Zenon
    <3>3. QED  BY <2>1, <3>1, <3>2, Zenon DEF TimeInv
  <2>4. QED  BY <2>2, <2>3
<1>12. CASE Lookup
  <2>1. /\ pc = "lookup" /\ AskingHop /\ gw = None /\ round < Attempts /\ Before' = Before
        /\ UNCHANGED <<pass, peer, gw, method, chatter>> /\ method \in {"arp", "ndp"}
    BY <1>12, BeforeKept, Zenon DEF Lookup, AskingHop, ThreadInv, ControlInv
  <2>2. clock <= Before + done + Sends * 8  BY <2>1 DEF TimeInv, RecvWait
  <2>3. CASE lookup_cache(l2, nic) # {}
    <3>1. pc' = "policy" /\ clock' = clock  BY <1>12, <2>3 DEF Lookup
    <3> HIDE DEF done
    <3>2. clock <= Before + BuildCost  BY <1>1, <1>2, <1>3, <2>1, <2>2
    <3>3. QED  BY <2>1, <3>1, <3>2, Zenon DEF TimeInv
  <2>4. CASE lookup_cache(l2, nic) = {}
    <3>1. clock' = clock + 6 /\ round' = round + 1 /\ sent' = 0
          /\ pc' = IF round + 1 < Attempts THEN "request" ELSE "gateway"
      BY <1>12, <2>4 DEF Lookup, Pause
    <3>2. round' * RoundCost = done + RoundCost  BY <1>3, <2>1, <3>1, Zenon
    <3> HIDE DEF done
    <3>3. clock' <= Before' + (done + RoundCost) + sent' * 8 /\ clock' <= Before' + HopCost
      BY <1>1, <1>2, <1>3, <2>1, <2>2, <3>1
    <3>4. clock' <= Before' + round' * RoundCost + sent' * 8  BY <3>2, <3>3, Zenon
    <3>5. QED  BY <2>1, <3>1, <3>3, <3>4 DEF TimeInv, RecvWait
  <2>5. QED  BY <2>3, <2>4
<1>13. CASE Gateway
  <2>1. /\ pc = "gateway" /\ Before' = Before /\ UNCHANGED <<pass, peer, clock, chatter>>
    BY <1>13, BeforeKept DEF Gateway, time
  <2>2. clock <= Before + HopCost  BY <2>1, Zenon DEF TimeInv
  <2>3. clock <= Before + BuildCost /\ clock <= Before + HopCost + 0 * 8  BY <1>1, <1>2, <2>2
  <2>4. pc' = "failed" \/ (pc' = "request" /\ method' = "gwarp" /\ sent' = 0 /\ gw' # None)
    BY <1>13, Zenon DEF Gateway
  <2>5. QED  BY <2>1, <2>3, <2>4, Zenon DEF TimeInv, RecvWait
<1>14. CASE GwLookup
  <2>1. /\ pc = "gwlookup" /\ round <= GwRounds /\ Before' = Before
        /\ UNCHANGED <<pass, peer, chatter>>
    BY <1>14, BeforeKept, Zenon DEF GwLookup, ThreadInv, ControlInv
  <2>2. clock <= Before + HopCost + 2 * Sends * 8 + round * 5
    BY <2>1, Zenon DEF TimeInv, RecvWait, GwPause
  <2>3. CASE pc' # "gwlookup"
    <3>1. pc' \in {"failed", "policy"} /\ clock' = clock  BY <1>14, <2>1, <2>3, Zenon DEF GwLookup
    <3>2. clock <= Before + BuildCost  BY <1>1, <1>2, <2>1, <2>2
    <3>3. QED  BY <2>1, <3>1, <3>2 DEF TimeInv
  <2>4. CASE pc' = "gwlookup"
    <3>1. clock' = clock + 5 /\ round' = round + 1
      BY <1>14, <2>1, <2>4, Zenon DEF GwLookup, GwPause
    <3>2. clock' <= Before' + HopCost + 2 * Sends * 8 + round' * 5
      BY <1>1, <1>2, <2>1, <2>2, <3>1
    <3>3. QED  BY <2>4, <3>2 DEF TimeInv, RecvWait, GwPause
  <2>5. QED  BY <2>3, <2>4, Zenon
<1>15. CASE Policy \/ Mtus
  <2>1. pc \in {"policy", "mtu"} /\ pc' \in {"mtu", "built"} /\ UNCHANGED <<pass, peer, clock, chatter>>
    BY <1>15 DEF Policy, Mtus, time
  <2>2. QED  BY <2>1, BeforeKept, Zenon DEF TimeInv
<1>16. CASE Traffic
  <2>1. pc = "listen" /\ UNCHANGED <<pc, pass, peer, gw, method, round, sent>>
    BY <1>16 DEF Traffic
  <2>2. CASE UNCHANGED <<clock, chatter>>  BY <1>4, <2>1, <2>2, Zenon
  <2>3. CASE clock' = clock + 8 /\ chatter' = chatter + 1
    <3>1. Before' = Before + 8
      <4>1. builds' = builds /\ chatter \in Nat /\ builds \in Nat \ {0}
        <5>1. builds' = builds  BY <2>1, Zenon DEF builds
        <5>2. builds \in Nat \ {0}  BY BeforeFits, Zenon DEF ThreadInv
        <5>3. chatter \in 0..MaxChatter  BY Zenon DEF ThreadInv, TypeOK
        <5>4. chatter \in Nat  BY <5>3, ChatterAssumption
        <5>5. QED  BY <5>1, <5>2, <5>4, Zenon
      <4> DEFINE x == BuildCost * (builds - 1)
      <4>2. x \in Nat
        <5>1. builds - 1 \in Nat  BY <4>1
        <5>2. QED  BY <1>2, <5>1, OneMore, Zenon
      <4>3. Before = x + 8 * chatter /\ Before' = x + 8 * chatter'
        BY <4>1, Zenon DEF Before, RecvWait, BuildCost, Pause, GwPause
      <4> HIDE DEF x
      <4>4. QED  BY <2>3, <4>1, <4>2, <4>3
    <3>2. round' * RoundCost = done  BY <2>1, Zenon
    <3>3. /\ gw = None => clock + 8 <= Before + done + sent * 8
          /\ method = "gwarp" => clock + 8 <= Before + HopCost + sent * 8
          /\ method = "ttl" => clock + 8 <= Before + HopCost + (Sends + sent) * 8
      BY <2>1, Zenon DEF TimeInv, RecvWait
    <3>4. gw = None => AskingHop  BY <2>1, Zenon DEF AskingHop
    <3> HIDE DEF done
    <3>5. /\ gw = None => clock' + 8 <= Before' + done + sent * 8
          /\ method = "gwarp" => clock' + 8 <= Before' + HopCost + sent * 8
          /\ method = "ttl" => clock' + 8 <= Before' + HopCost + (Sends + sent) * 8
      BY <1>1, <1>2, <1>3, <2>3, <3>1, <3>3, <3>4
    <3>6. QED  BY <2>1, <3>2, <3>5 DEF TimeInv, RecvWait
  <2>4. QED  BY <1>16, <2>2, <2>3, Zenon DEF Traffic, RecvWait
<1>17. QED
  BY <1>4, <1>5, <1>6, <1>7, <1>8, <1>9, <1>10, <1>11, <1>12, <1>13, <1>14, <1>15, <1>16
  DEF Next, Thread, Answer, RouteChange, KernelLearns, vars, work, time

\* Wherever the thread is, this peer's share is not used up.
LEMMA LateEnough ==
  ASSUME ThreadInv, TimeInv, pc # "ping"
  PROVE  clock <= Before + BuildCost
<1> DEFINE done == round * RoundCost
<1>1. /\ clock \in Nat /\ sent \in Nat /\ round \in Nat /\ Before \in Nat /\ GwRounds \in Nat
  BY BeforeFits, RetryAssumption DEF ThreadInv, TypeOK
<1>2. /\ RoundCost \in Nat /\ HopCost \in Nat /\ BuildCost \in Nat /\ Sends \in Nat \ {0}
      /\ RoundCost = Sends * 8 + 6
      /\ BuildCost = HopCost + 2 * Sends * 8 + GwRounds * 5
  BY Costs, Zenon DEF RecvWait, Pause, GwPause
<1>3. CASE AskingHop
  <2>1. done \in Nat /\ done + RoundCost <= HopCost
    BY <1>3, RoundsFit, Zenon DEF ThreadInv, ControlInv
  <2>2. \/ clock <= Before + done + Sends * 8
        \/ sent <= Sends /\ (\/ clock <= Before + done + sent * 8
                             \/ clock + 8 <= Before + done + sent * 8)
    <3>1. pc = "lookup" => clock <= Before + done + Sends * 8  BY Zenon DEF TimeInv, RecvWait
    <3>2. pc \in {"request", "listen"} /\ gw = None =>
            clock <= Before + done + sent * 8 \/ clock + 8 <= Before + done + sent * 8
      BY Zenon DEF TimeInv, RecvWait
    <3> HIDE DEF done
    <3>3. pc \in {"request", "listen"} => sent < Sends \/ sent \in 1..Sends
      BY Zenon DEF ThreadInv, ControlInv
    <3>4. pc \in {"request", "listen"} => sent <= Sends  BY <1>1, <1>2, <3>3
    <3>5. QED  BY <1>3, <3>1, <3>2, <3>4, Zenon DEF AskingHop
  <2> HIDE DEF done
  <2>3. QED  BY <1>1, <1>2, <2>1, <2>2
<1>4. CASE pc \in {"request", "listen"} /\ gw # None
  <2>1. sent <= Sends /\ method \in {"gwarp", "ttl"}
    BY <1>1, <1>2, <1>4 DEF ThreadInv, ControlInv
  <2>2. \/ clock <= Before + HopCost + sent * 8 \/ clock + 8 <= Before + HopCost + sent * 8
        \/ clock <= Before + HopCost + (Sends + sent) * 8
        \/ clock + 8 <= Before + HopCost + (Sends + sent) * 8
    BY <1>4, <2>1, Zenon DEF TimeInv, RecvWait
  <2>3. QED  BY <1>1, <1>2, <2>1, <2>2
<1>5. CASE pc = "gwlookup"
  <2>1. round <= GwRounds /\ clock <= Before + HopCost + 2 * Sends * 8 + round * 5
    BY <1>5, Zenon DEF ThreadInv, ControlInv, TimeInv, RecvWait, GwPause
  <2>2. QED  BY <1>1, <1>2, <2>1
<1>6. CASE pc \in {"nic", "bind", "iface", "l2", "gateway", "policy", "mtu", "built", "failed"}
  <2>1. clock <= Before \/ clock <= Before + HopCost \/ clock <= Before + BuildCost
    BY <1>6, Zenon DEF TimeInv
  <2>2. QED  BY <1>1, <1>2, <2>1
<1>7. QED  BY <1>3, <1>4, <1>5, <1>6 DEF AskingHop, ThreadInv, TypeOK

\* Between two WATCHDOG=1 the loop spends at most the time of a silent link per
\* peer it builds, and one receive timeout per unrelated frame, for any number
\* of peers, rounds and requests.
THEOREM WatchdogTimeBound == Spec => []TimeBound
<1>1. Init => TimeInv
  <2> SUFFICES ASSUME Init PROVE TimeInv
    OBVIOUS
  <2>1. builds = 1 + 0 /\ chatter = 0 /\ clock = 0 /\ pc = "ping"  BY Zenon DEF Init, builds
  <2>2. BuildCost * 1 \in Nat /\ RecvWait * 0 = 0  BY Costs DEF RecvWait
  <2>3. TimeBound  BY <2>1, <2>2 DEF TimeBound
  <2>4. QED  BY <2>1, <2>3, Zenon DEF TimeInv
<1>2. ThreadInv /\ ThreadInv' /\ TimeInv /\ [Next]_vars => TimeInv'
  BY TimeStep, Zenon
<1>3. ThreadInv /\ TimeInv => TimeBound
  <2> SUFFICES ASSUME ThreadInv, TimeInv, pc # "ping" PROVE TimeBound
    BY Zenon DEF TimeInv
  <2>1. clock <= Before + BuildCost
    BY LateEnough, Zenon
  <2>2. QED  BY <2>1, BeforeFits, Zenon DEF TimeBound, ThreadInv
<1>4. QED  BY <1>1, <1>2, <1>3, Controlled, PTL DEF Spec

\* The numbers of the code: six rounds of four requests, eight rounds for the
\* gateway, WatchdogSec=30.
CodeNumbers == Attempts = 6 /\ Sends = 4 /\ GwRounds = 8 /\ WatchdogSec = 600

\* With the numbers of the code one build on a silent link takes 17.1 s at most
\* with the loop's sleep, so that the 30 s watchdog is missed only by two builds
\* in a pass or by unrelated frames.
THEOREM OneBuildMeetsWatchdog == ASSUME CodeNumbers PROVE Spec => []MeetsWatchdog
<1>1. ThreadInv /\ TimeBound => MeetsWatchdog
  <2> SUFFICES ASSUME ThreadInv, TimeBound, ~(builds >= 2), ~(chatter > 0)
               PROVE  ~(clock + LoopPause >= WatchdogSec)
    BY Zenon DEF MeetsWatchdog
  <2>1. clock \in Nat /\ chatter \in Nat /\ builds \in Nat
    BY NPeersAssumption, ChatterAssumption DEF ThreadInv, TypeOK, builds
  <2>2. chatter = 0 /\ builds \in {0, 1}  BY <2>1
  <2>3. BuildCost = 332
    BY CodeNumbers DEF CodeNumbers, BuildCost, RecvWait, Pause, GwPause
  <2>4. clock <= 332  BY <2>1, <2>2, <2>3 DEF TimeBound, RecvWait
  <2>5. QED  BY <2>1, <2>4, CodeNumbers DEF CodeNumbers, LoopPause
<1>2. QED  BY <1>1, WatchdogTimeBound, Controlled, PTL
==============================================================================

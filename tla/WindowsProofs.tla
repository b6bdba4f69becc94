--------------------------- MODULE WindowsProofs ----------------------------
(***************************************************************************)
(* The safety properties of WindowsClient for any interfaces, sublayers,   *)
(* number of starts and limit on failures.                                 *)
(***************************************************************************)
EXTENDS WindowsClient, TLAPS

\* Which thread runs where: the worker exists between the first install and the
\* join, and stop is set only once serving is over.
ThreadInv ==
  /\ worker # "off" => run # 0 /\ main \in {"install", "serve", "join"}
  /\ main \in {"pin", "create", "verify"} => run # 0
  /\ main \in {"install", "serve"} => worker # "off"
  /\ stop => main \notin {"pin", "create", "verify", "install", "serve"}
  /\ worker \in Installing \union {"sleep", "check"} => failures < MaxFailures
  /\ main \in {"pin", "create", "verify", "install"} => failures = 0
  /\ main \in {"down", "returned", "pin", "create", "verify", "unpin"} => engine = "none"
  /\ worker \in {"sublayer", "appid", "own", "enum", "plant"} => engine # "none"
  /\ main = "join" /\ worker = "off" => engine = "none"

\* What the engine holds: nothing when it is stopped; filters of this and of
\* earlier processes; those of this process on record, and none without a handle.
EngineInv ==
  /\ engine = "live" => bfe
  /\ ~bfe => filters = {} /\ ~ownSub
  /\ \A f \in filters : f.run <= run
  /\ main \notin {"abort", "down"} => Mines \subseteq ids
  /\ main \notin {"abort", "down"} /\ engine # "live" => Mines = {}
  /\ engine = "dead" => ~ownSub
  /\ main \in {"serve", "join", "unpin"} /\ engine # "live" => ~ownSub
  /\ worker \in {"appid", "own", "enum", "plant", "sleep", "check"} /\ engine = "live" =>
       \A f \in filters : f.sub = Own => f.run = run


\* The route being checked is there, and no other is held meanwhile.
PinInv ==
  /\ main \in {"pin", "create", "verify"} => pinned = None
  /\ main \in {"create", "verify"} => cand \in Nic
  /\ main = "verify" => cand \in routes

HoldInv == TypeOK /\ ThreadInv /\ EngineInv

\* The fields of a filter in the engine.
LEMMA FilterRuns ==
  ASSUME TypeOK, NEW f \in filters
  PROVE  f \in Filter /\ f.run \in Nat /\ f.sub \in Sub \union {Own}
BY DEF TypeOK, Filter

\* The filters of this process are filters.
LEMMA MineIsFilter ==
  ASSUME TypeOK, run # 0, NEW s \in Sub \union {Own}
  PROVE  Mine(s, layer) \in Filter /\ Mine(s, layer).run = run /\ Mine(s, layer).sub = s
BY RunsAssumption DEF TypeOK, Filter, Mine

\* Teardown leaves no filter of this process and no sublayer of a live engine.
LEMMA TeardownClears ==
  ASSUME HoldInv, Teardown, run' = run, worker # "off"
  PROVE  /\ engine' = "none" /\ ids' = {} /\ bfe' = bfe /\ subs' = subs
         /\ filters' \subseteq filters
         /\ Mines' = {}
         /\ engine = "live" => ~ownSub'
         /\ ownSub' \in BOOLEAN
         /\ ~ownSub => ~ownSub'
BY Zenon DEF HoldInv, TypeOK, ThreadInv, EngineInv, Teardown, Mines

\* What FwpmFilterAdd0 adds are filters.
LEMMA AddedIsFilter ==
  ASSUME TypeOK, run # 0, NEW s \in Sub \union {Own}, FilterAdd(s)
  PROVE  filters' \in SUBSET Filter /\ ids' \in SUBSET Filter
<1>1. Mine(s, layer) \in Filter  BY MineIsFilter, Zenon
<1>2. QED  BY <1>1, Zenon DEF FilterAdd, TypeOK

\* Adding a filter of this process, on record, to a live engine disturbs nothing.
LEMMA AddKeepsEngine ==
  ASSUME HoldInv, NEW s \in Sub \union {Own}, FilterAdd(s),
         worker \in {"own", "plant"}, worker' \in {"own", "enum", "plant"}, run' = run,
         UNCHANGED <<main, engine, bfe, ownSub>>
  PROVE  EngineInv'
<1>0. run # 0 /\ run \in Nat /\ main \notin {"abort", "down"}
  BY DEF HoldInv, TypeOK, ThreadInv
<1>1. CASE UNCHANGED <<filters, ids>>
  BY <1>1, Zenon DEF HoldInv, EngineInv, Mines
<1>2. CASE /\ filters' = filters \union {Mine(s, layer)} /\ ids' = ids \union {Mine(s, layer)}
           /\ engine = "live"
  <2>1. Mine(s, layer).run = run  BY <1>0, MineIsFilter, Zenon DEF HoldInv
  <2>2. \A f \in filters' : f.run <= run'
    BY <1>0, <1>2, <2>1 DEF HoldInv, EngineInv
  <2>3. Mines' \subseteq ids'
    BY <1>0, <1>2, <2>1, Zenon DEF HoldInv, EngineInv, Mines
  <2>4. engine' = "live" => \A f \in filters' : f.sub = Own => f.run = run'
    BY <1>2, <2>1, Zenon DEF HoldInv, EngineInv
  <2>5. QED  BY <1>0, <1>2, <2>2, <2>3, <2>4, Zenon DEF HoldInv, EngineInv
<1>3. QED  BY <1>1, <1>2, Zenon DEF FilterAdd

\* Every step keeps the invariant.
LEMMA HoldStep ==
  ASSUME HoldInv, [Next]_vars
  PROVE  HoldInv'
<1>1. CASE Start
  <2>1. TypeOK'
    <3>1. run' \in 0..MaxRuns  BY <1>1, RunsAssumption DEF HoldInv, TypeOK, Start
    <3>2. failures' \in 0..MaxFailures  BY <1>1, FailuresAssumption DEF Start
    <3>3. layer' \in 1..NumLayers  BY <1>1, LayersAssumption DEF Start
    <3>4. QED
      BY <1>1, <3>1, <3>2, <3>3, Zenon DEF HoldInv, TypeOK, Start, net, wfp
  <2>2. ThreadInv'
    BY <1>1 DEF HoldInv, TypeOK, ThreadInv, Installing, Start
  <2>3. EngineInv'
    BY <1>1, FilterRuns DEF TypeOK, ThreadInv, EngineInv, Mines, HoldInv, net, wfp, loop, Start
  <2>4. QED  BY <2>1, <2>2, <2>3, Zenon DEF HoldInv
<1>2. CASE Pin
  <2>1. TypeOK'
    BY <1>2 DEF TypeOK, Installing, HoldInv, net, wfp, loop, Pin, enumerate_viable_uplinks
  <2>2. ThreadInv'
    BY <1>2, FailuresAssumption DEF ThreadInv, Installing, HoldInv, net, wfp, loop, Pin
  <2>3. EngineInv'
    BY <1>2, Zenon DEF TypeOK, ThreadInv, EngineInv, Mines, HoldInv, net, wfp, loop, Pin
  <2>4. QED  BY <2>1, <2>2, <2>3 DEF HoldInv
<1>3. CASE CreateRoute
  <2>1. TypeOK'
    BY <1>3 DEF TypeOK, Installing, HoldInv, wfp, loop, Delete, CreateRoute
  <2>2. ThreadInv'
    BY <1>3, FailuresAssumption DEF ThreadInv, Installing, HoldInv, wfp, loop, Delete, CreateRoute
  <2>3. EngineInv'
    BY <1>3, Zenon DEF TypeOK, ThreadInv, EngineInv, Mines, HoldInv, wfp, loop, Delete, CreateRoute
  <2>4. QED  BY <2>1, <2>2, <2>3 DEF HoldInv
<1>4. CASE VerifyRoute
  <2>1. TypeOK'
    BY <1>4, Zenon DEF TypeOK, Installing, HoldInv, wfp, loop, Delete, VerifyRoute
  <2>2. ThreadInv'
    BY <1>4, FailuresAssumption DEF ThreadInv, Installing, HoldInv, wfp, loop, Delete, VerifyRoute
  <2>3. EngineInv'
    BY <1>4, Zenon DEF TypeOK, ThreadInv, EngineInv, Mines, HoldInv, wfp, loop, Delete, VerifyRoute
  <2>4. QED  BY <2>1, <2>2, <2>3 DEF HoldInv
<1>5. CASE Join
  <2>1. TypeOK'
    BY <1>5, Zenon DEF TypeOK, Installing, HoldInv, net, wfp, loop, Join
  <2>2. ThreadInv'
    BY <1>5, Zenon DEF ThreadInv, Installing, HoldInv, net, wfp, loop, Join
  <2>3. EngineInv'
    BY <1>5, Zenon DEF TypeOK, ThreadInv, EngineInv, Mines, HoldInv, net, wfp, loop, Join
  <2>4. QED  BY <2>1, <2>2, <2>3 DEF HoldInv
<1>6. CASE DropRoute
  <2>1. TypeOK'
    <3>1. routes' \in SUBSET Nic /\ lingering' \in SUBSET Nic
      BY <1>6, Zenon DEF HoldInv, TypeOK, DropRoute, Delete
    <3>2. /\ main' \in {"returned", "down"} /\ engine' = "none" /\ ids' = {} /\ pinned' = None
          /\ UNCHANGED <<worker, run, cand, stop, seen, sub, layer, failures, up, taken, bfe, subs,
                         ownSub, filters>>
      BY <1>6, Zenon DEF DropRoute, loop, wfp
    <3>3. QED  BY <3>1, <3>2 DEF TypeOK, HoldInv
  <2>2. ThreadInv'
    BY <1>6, Zenon DEF ThreadInv, Installing, HoldInv, wfp, loop, Delete, DropRoute
  <2>3. EngineInv'
    BY <1>6, Zenon DEF TypeOK, ThreadInv, EngineInv, Mines, HoldInv, wfp, loop, Delete, DropRoute
  <2>4. QED  BY <2>1, <2>2, <2>3 DEF HoldInv
<1>7. CASE open_engine
  <2>1. TypeOK'
    BY <1>7, FailuresAssumption, RunsAssumption DEF TypeOK, Filter, Installing, ThreadInv,
       HoldInv, net, wfp, loop, open_engine, InstallFailed, Spawn
  <2>2. ThreadInv'
    BY <1>7, FailuresAssumption DEF TypeOK, ThreadInv, Installing, HoldInv, net, wfp, loop,
       open_engine, InstallFailed, Spawn
  <2>3. EngineInv'
    BY <1>7, Zenon DEF TypeOK, ThreadInv, EngineInv, Mines, HoldInv, net, wfp, loop, open_engine,
       InstallFailed, Spawn
  <2>4. QED  BY <2>1, <2>2, <2>3 DEF HoldInv
<1>8. CASE add_sublayer
  <2>1. TypeOK'
    <3>1. engine' \in {"none", "live", "dead"} /\ ids' \in SUBSET Filter
            /\ bfe' = bfe /\ subs' = subs /\ ownSub' \in BOOLEAN /\ filters' \in SUBSET Filter
      BY <1>8, TeardownClears, Zenon DEF HoldInv, TypeOK, add_sublayer
    <3>2. failures' \in 0..MaxFailures
      BY <1>8, FailuresAssumption DEF HoldInv, TypeOK, ThreadInv, Installing, add_sublayer,
         InstallFailed, Spawn
    <3>3. QED
      BY <1>8, <3>1, <3>2 DEF HoldInv, TypeOK, Installing, add_sublayer, InstallFailed, Spawn, net,
         loop
  <2>2. ThreadInv'
    BY <1>8, FailuresAssumption DEF TypeOK, ThreadInv, Installing, HoldInv, net, loop, add_sublayer,
       InstallFailed, Spawn, Teardown
  <2>3. EngineInv'
    <3>1. CASE engine = "live"
      BY <1>8, <3>1, Zenon DEF HoldInv, TypeOK, ThreadInv, EngineInv, Mines, add_sublayer
    <3>2. CASE engine = "dead"
      BY <1>8, <3>2, TeardownClears, Zenon
      DEF HoldInv, TypeOK, ThreadInv, EngineInv, Mines, add_sublayer, InstallFailed, Spawn
    <3>3. QED  BY <1>8, <3>1, <3>2, Zenon DEF HoldInv, TypeOK, ThreadInv, add_sublayer
  <2>4. QED  BY <2>1, <2>2, <2>3 DEF HoldInv
<1>9. CASE GetAppId
  <2>a. \/ worker' = "own" /\ UNCHANGED <<main, failures, engine, ids, bfe, subs, ownSub, filters>>
        \/ Teardown /\ InstallFailed
    BY <1>9, Zenon DEF GetAppId, wfp
  <2>1. TypeOK'
    <3>1. engine' \in {"none", "live", "dead"} /\ ids' \in SUBSET Filter
            /\ bfe' = bfe /\ subs' = subs /\ ownSub' \in BOOLEAN /\ filters' \in SUBSET Filter
      BY <1>9, <2>a, TeardownClears, Zenon DEF HoldInv, TypeOK, GetAppId
    <3>2. failures' \in 0..MaxFailures
      BY <1>9, <2>a, FailuresAssumption DEF HoldInv, TypeOK, ThreadInv, Installing, GetAppId,
         InstallFailed, Spawn
    <3>3. main' \in {main, "serve", "abort"} /\ worker' \in {"own", "off", "sleep", "exit"}
      BY <2>a, Zenon DEF InstallFailed, Spawn
    <3>4. QED
      BY <1>9, <3>1, <3>2, <3>3 DEF HoldInv, TypeOK, Installing, GetAppId, net, loop
  <2>2. ThreadInv'
    BY <1>9, <2>a, FailuresAssumption DEF TypeOK, ThreadInv, Installing, HoldInv, net, loop, GetAppId,
       InstallFailed, Spawn, Teardown
  <2>3. EngineInv'
    <3>0. worker = "appid" /\ run' = run /\ main \notin {"abort", "down"}
      BY <1>9, Zenon DEF HoldInv, ThreadInv, GetAppId
    <3>1. CASE Teardown /\ InstallFailed
      BY <3>0, <3>1, TeardownClears, Zenon
      DEF HoldInv, TypeOK, ThreadInv, EngineInv, Mines, InstallFailed, Spawn
    <3>2. CASE worker' = "own" /\ UNCHANGED <<main, failures, engine, ids, bfe, subs, ownSub, filters>>
      BY <3>0, <3>2, Zenon DEF HoldInv, EngineInv, Mines
    <3>3. QED  BY <2>a, <3>1, <3>2, Zenon
  <2>4. QED  BY <2>1, <2>2, <2>3 DEF HoldInv
<1>10. CASE add_permit_filter
  <2>1. TypeOK'
    <3>1. filters' \in SUBSET Filter /\ ids' \in SUBSET Filter
      BY <1>10, AddedIsFilter, Zenon DEF HoldInv, ThreadInv, add_permit_filter
    <3>2. layer' \in 1..NumLayers /\ worker' \in Installing
      BY <1>10, LayersAssumption DEF HoldInv, TypeOK, Installing, add_permit_filter
    <3>3. QED
      BY <1>10, <3>1, <3>2 DEF HoldInv, TypeOK, add_permit_filter, net
  <2>2. ThreadInv'
    BY <1>10, Zenon DEF ThreadInv, Installing, HoldInv, net, add_permit_filter
  <2>3. EngineInv'
    <3>1. worker' \in {"own", "enum"} /\ worker = "own" /\ run' = run /\ FilterAdd(Own)
            /\ UNCHANGED <<main, engine, bfe, ownSub>>
      BY <1>10, Zenon DEF add_permit_filter
    <3>2. QED  BY <3>1, AddKeepsEngine, Zenon
  <2>4. QED  BY <2>1, <2>2, <2>3 DEF HoldInv
<1>11. CASE EnumSublayers
  <2>1. TypeOK'
    BY <1>11 DEF TypeOK, Installing, HoldInv, net, wfp, EnumSublayers
  <2>2. ThreadInv'
    BY <1>11, Zenon DEF ThreadInv, Installing, HoldInv, net, wfp, EnumSublayers
  <2>3. EngineInv'
    BY <1>11, Zenon DEF TypeOK, ThreadInv, EngineInv, Mines, HoldInv, net, wfp, EnumSublayers
  <2>4. QED  BY <2>1, <2>2, <2>3 DEF HoldInv
<1>11a. CASE add_permit_to_all_sublayers
  <2>a. PICK s \in seen :
          /\ FilterAdd(s)
          /\ IF layer = NumLayers
               THEN layer' = 1 /\ sub' = None /\ seen' = seen \ {s}
               ELSE layer' = layer + 1 /\ sub' = s /\ UNCHANGED seen
    BY <1>11a, Zenon DEF add_permit_to_all_sublayers
  <2>b. s \in Sub  BY Zenon DEF HoldInv, TypeOK
  <2>1. TypeOK'
    <3>1. filters' \in SUBSET Filter /\ ids' \in SUBSET Filter
      BY <1>11a, <2>a, <2>b, AddedIsFilter, Zenon DEF HoldInv, ThreadInv, add_permit_to_all_sublayers
    <3>2. layer' \in 1..NumLayers
      BY <2>a, LayersAssumption DEF HoldInv, TypeOK
    <3>3. seen' \in SUBSET Sub /\ sub' \in Sub \union {None}
      BY <2>a, <2>b, Zenon DEF HoldInv, TypeOK
    <3>4. UNCHANGED <<main, worker, run, cand, pinned, stop, engine, failures, up, routes,
                      lingering, taken, bfe, subs, ownSub>>
      BY <1>11a, Zenon DEF add_permit_to_all_sublayers, net
    <3>5. QED  BY <3>1, <3>2, <3>3, <3>4 DEF HoldInv, TypeOK
  <2>2. ThreadInv'
    BY <1>11a, Zenon DEF ThreadInv, Installing, HoldInv, net, add_permit_to_all_sublayers
  <2>3. EngineInv'
    <3>1. worker' = "plant" /\ worker = "plant" /\ run' = run
            /\ UNCHANGED <<main, engine, bfe, ownSub>>
      BY <1>11a, Zenon DEF add_permit_to_all_sublayers
    <3>2. QED  BY <2>a, <2>b, <3>1, AddKeepsEngine, Zenon
  <2>4. QED  BY <2>1, <2>2, <2>3 DEF HoldInv
<1>11b. CASE FinishInstall
  <2>a. \/ Teardown /\ InstallFailed
        \/ Installed /\ UNCHANGED <<engine, ids, bfe, subs, ownSub, filters>>
    BY <1>11b, Zenon DEF FinishInstall, wfp
  <2>1. TypeOK'
    <3>1. engine' \in {"none", "live", "dead"} /\ ids' \in SUBSET Filter
            /\ bfe' = bfe /\ subs' = subs /\ ownSub' \in BOOLEAN /\ filters' \in SUBSET Filter
      BY <1>11b, <2>a, TeardownClears, Zenon DEF HoldInv, TypeOK, FinishInstall
    <3>2. failures' \in 0..MaxFailures
      BY <1>11b, <2>a, FailuresAssumption
      DEF HoldInv, TypeOK, ThreadInv, Installing, FinishInstall, Installed, InstallFailed, Spawn
    <3>3. main' \in {main, "serve", "abort"} /\ worker' \in {"off", "sleep", "exit"}
      BY <2>a, Zenon DEF Installed, InstallFailed, Spawn
    <3>4. QED
      BY <1>11b, <3>1, <3>2, <3>3 DEF HoldInv, TypeOK, Installing, FinishInstall, net, loop
  <2>2. ThreadInv'
    BY <1>11b, <2>a, FailuresAssumption DEF TypeOK, ThreadInv, Installing, HoldInv, net, loop,
       FinishInstall, Installed, InstallFailed, Spawn, Teardown
  <2>3. EngineInv'
    <3>0. worker = "plant" /\ run' = run /\ main \notin {"abort", "down"}
      BY <1>11b, Zenon DEF HoldInv, ThreadInv, FinishInstall
    <3>1. CASE Teardown /\ InstallFailed
      BY <3>0, <3>1, TeardownClears, Zenon
      DEF HoldInv, TypeOK, ThreadInv, EngineInv, Mines, InstallFailed, Spawn
    <3>2. CASE Installed /\ UNCHANGED <<engine, ids, bfe, subs, ownSub, filters>>
      <4>1. engine # "live" => ~ownSub
        BY <3>0, Zenon DEF HoldInv, TypeOK, ThreadInv, EngineInv
      <4>2. QED  BY <3>0, <3>2, <4>1, Zenon DEF HoldInv, EngineInv, Mines
    <3>3. QED  BY <2>a, <3>1, <3>2, Zenon
  <2>4. QED  BY <2>1, <2>2, <2>3 DEF HoldInv
<1>12. CASE Wake
  <2>1. TypeOK'
    <3>1. engine' \in {"none", "live", "dead"} /\ ids' \in SUBSET Filter
            /\ bfe' = bfe /\ subs' = subs /\ ownSub' \in BOOLEAN /\ filters' \in SUBSET Filter
      BY <1>12, TeardownClears, Zenon DEF HoldInv, TypeOK, Wake, wfp
    <3>2. QED  BY <1>12, <3>1, Zenon DEF HoldInv, TypeOK, Installing, Wake, net, loop
  <2>2. ThreadInv'
    BY <1>12, Zenon DEF ThreadInv, Installing, HoldInv, net, wfp, loop, Wake, Teardown
  <2>3. EngineInv'
    BY <1>12, Zenon DEF TypeOK, ThreadInv, EngineInv, Mines, HoldInv, net, wfp, loop, Wake, Teardown
  <2>4. QED  BY <2>1, <2>2, <2>3 DEF HoldInv
<1>13. CASE Check
  <2>1. TypeOK'
    <3>1. engine' \in {"none", "live", "dead"} /\ ids' \in SUBSET Filter
            /\ bfe' = bfe /\ subs' = subs /\ ownSub' \in BOOLEAN /\ filters' \in SUBSET Filter
      BY <1>13, TeardownClears, Zenon DEF HoldInv, TypeOK, Check, wfp
    <3>2. failures' \in 0..MaxFailures
      BY <1>13, FailuresAssumption DEF HoldInv, TypeOK, Check
    <3>3. QED  BY <1>13, <3>1, <3>2 DEF HoldInv, TypeOK, Installing, Check, net, loop
  <2>2. ThreadInv'
    BY <1>13, FailuresAssumption DEF ThreadInv, Installing, HoldInv, Check, Teardown
  <2>3. EngineInv'
    BY <1>13, Zenon DEF TypeOK, ThreadInv, EngineInv, Mines, HoldInv, net, wfp, loop, Check, verify, Teardown
  <2>4. QED  BY <2>1, <2>2, <2>3 DEF HoldInv
<1>14. CASE Exit
  <2>1. TypeOK'
    BY <1>14, Zenon DEF TypeOK, Installing, HoldInv, net, wfp, loop, Exit
  <2>2. ThreadInv'
    BY <1>14, Zenon DEF ThreadInv, Installing, HoldInv, net, wfp, loop, Exit
  <2>3. EngineInv'
    BY <1>14, Zenon DEF TypeOK, ThreadInv, EngineInv, Mines, HoldInv, net, wfp, loop, Exit
  <2>4. QED  BY <2>1, <2>2, <2>3 DEF HoldInv
<1>15. CASE DropBypass
  <2>1. TypeOK'
    BY <1>15 DEF TypeOK, Installing, HoldInv, net, wfp, loop, DropBypass
  <2>2. ThreadInv'
    BY <1>15, Zenon DEF ThreadInv, Installing, HoldInv, net, wfp, loop, DropBypass
  <2>3. EngineInv'
    BY <1>15, Zenon DEF TypeOK, ThreadInv, EngineInv, Mines, HoldInv, net, wfp, loop, DropBypass
  <2>4. QED  BY <2>1, <2>2, <2>3 DEF HoldInv
<1>16. CASE Crash
  <2>1. TypeOK'
    <3>1. layer' \in 1..NumLayers  BY <1>16, LayersAssumption DEF Crash
    <3>2. QED  BY <1>16, <3>1, Zenon DEF TypeOK, Installing, HoldInv, net, wfp, Crash
  <2>2. ThreadInv'
    BY <1>16, Zenon DEF ThreadInv, Installing, HoldInv, net, wfp, loop, Crash
  <2>3. EngineInv'
    BY <1>16, Zenon DEF TypeOK, ThreadInv, EngineInv, Mines, HoldInv, net, wfp, loop, Crash
  <2>4. QED  BY <2>1, <2>2, <2>3 DEF HoldInv
<1>17. CASE LinkChange
  <2>1. TypeOK'
    BY <1>17 DEF TypeOK, Installing, HoldInv, wfp, loop, Delete, proc, LinkChange
  <2>2. ThreadInv'
    BY <1>17, Zenon DEF ThreadInv, Installing, HoldInv, wfp, loop, Delete, proc, LinkChange
  <2>3. EngineInv'
    BY <1>17, Zenon DEF TypeOK, ThreadInv, EngineInv, Mines, HoldInv, wfp, loop, Delete, proc, LinkChange
  <2>4. QED  BY <2>1, <2>2, <2>3 DEF HoldInv
<1>18. CASE VpnChange
  <2>1. TypeOK'
    BY <1>18 DEF TypeOK, Installing, HoldInv, wfp, loop, Delete, proc, VpnChange
  <2>2. ThreadInv'
    BY <1>18, Zenon DEF ThreadInv, Installing, HoldInv, wfp, loop, Delete, proc, VpnChange
  <2>3. EngineInv'
    BY <1>18, Zenon DEF TypeOK, ThreadInv, EngineInv, Mines, HoldInv, wfp, loop, Delete, proc, VpnChange
  <2>4. QED  BY <2>1, <2>2, <2>3 DEF HoldInv
<1>19. CASE BfeStop
  <2>1. TypeOK'
    <3>1. engine' \in {"none", "live", "dead"}  BY <1>19, Zenon DEF HoldInv, TypeOK, BfeStop
    <3>2. bfe' \in BOOLEAN /\ ownSub' \in BOOLEAN /\ subs' \in SUBSET Sub /\ filters' \in SUBSET Filter
      BY <1>19, Zenon DEF BfeStop
    <3>3. UNCHANGED <<main, worker, run, cand, pinned, stop, ids, seen, sub, layer, failures, up,
                    routes, lingering, taken>>
      BY <1>19, Zenon DEF BfeStop, net, loop
    <3>4. QED  BY <3>1, <3>2, <3>3 DEF HoldInv, TypeOK
  <2>2. ThreadInv'
    BY <1>19, Zenon DEF ThreadInv, Installing, HoldInv, net, loop, BfeStop
  <2>3. EngineInv'
    BY <1>19, Zenon DEF TypeOK, ThreadInv, EngineInv, Mines, HoldInv, net, loop, BfeStop
  <2>4. QED  BY <2>1, <2>2, <2>3 DEF HoldInv
<1>20. CASE BfeStart
  <2>1. TypeOK'
    BY <1>20 DEF TypeOK, Installing, HoldInv, net, loop, proc, BfeStart
  <2>2. ThreadInv'
    BY <1>20, Zenon DEF ThreadInv, Installing, HoldInv, net, loop, proc, BfeStart
  <2>3. EngineInv'
    BY <1>20, Zenon DEF TypeOK, ThreadInv, EngineInv, Mines, HoldInv, net, loop, proc, BfeStart
  <2>4. QED  BY <2>1, <2>2, <2>3 DEF HoldInv
<1>21. ASSUME NEW s \in Sub, SubAdd(s)
     PROVE  HoldInv'
  <2>1. TypeOK'
    BY <1>21 DEF TypeOK, Installing, HoldInv, net, loop, proc, SubAdd
  <2>2. ThreadInv'
    BY <1>21, Zenon DEF ThreadInv, Installing, HoldInv, net, loop, proc, SubAdd
  <2>3. EngineInv'
    BY <1>21, Zenon DEF TypeOK, EngineInv, Mines, HoldInv, net, loop, proc, SubAdd
  <2>4. QED  BY <2>1, <2>2, <2>3, Zenon DEF HoldInv
<1>22. ASSUME NEW s \in Sub, SubDelete(s)
     PROVE  HoldInv'
  <2>1. TypeOK'
    BY <1>22 DEF TypeOK, Installing, HoldInv, net, loop, proc, SubDelete
  <2>2. ThreadInv'
    BY <1>22, Zenon DEF ThreadInv, Installing, HoldInv, net, loop, proc, SubDelete
  <2>3. EngineInv'
    BY <1>22, Zenon DEF TypeOK, EngineInv, Mines, HoldInv, net, loop, proc, SubDelete
  <2>4. QED  BY <2>1, <2>2, <2>3 DEF HoldInv
<1>23. CASE UNCHANGED vars
  BY <1>23 DEF vars, proc, net, wfp, HoldInv, TypeOK, ThreadInv, EngineInv, Mines
<1>24. QED  BY <1>1, <1>2, <1>3, <1>4, <1>5, <1>6, <1>7, <1>8, <1>9, <1>10, <1>11, <1>11a,
   <1>11b, <1>12, <1>13, <1>14, <1>15, <1>16, <1>17, <1>18, <1>19, <1>20, <1>21, <1>22, <1>23, Zenon DEF Next, MainThread,
   Install, Watchdog, Host

\* The inductive invariant holds in every reachable state.
THEOREM Holds == Spec => []HoldInv
<1>1. Init => HoldInv
  <2> SUFFICES ASSUME Init PROVE HoldInv
    BY Zenon
  <2>1. run \in 0..MaxRuns /\ failures \in 0..MaxFailures /\ layer \in 1..NumLayers
    BY FailuresAssumption, RunsAssumption, LayersAssumption DEF Init
  <2>2. TypeOK  BY <2>1, Zenon DEF Init, TypeOK
  <2>3. ThreadInv  BY Zenon DEF Init, ThreadInv, Installing
  <2>4. EngineInv  BY Zenon DEF Init, EngineInv, Mines
  <2>5. QED  BY <2>2, <2>3, <2>4, Zenon DEF HoldInv
<1>2. HoldInv /\ [Next]_vars => HoldInv'
  BY HoldStep, Zenon
<1>3. QED  BY <1>1, <1>2, PTL DEF Spec

\* Type correctness, the bound on the watchdog's failures included: it exits
\* when MAX_CONSECUTIVE_FAILURES is reached, never later.
THEOREM TypeCorrect == Spec => []TypeOK
<1>1. HoldInv => TypeOK  BY Zenon DEF HoldInv
<1>2. QED  BY <1>1, Holds, PTL

\* Every filter install_once adds is in filter_ids, whatever the engine, other
\* programs and earlier processes did, so that teardown removes it.
THEOREM AllRecorded == Spec => []Recorded
<1>1. HoldInv => Recorded  BY Zenon DEF HoldInv, EngineInv, Recorded
<1>2. QED  BY <1>1, Holds, PTL

\* add_sublayer leaves no filter of an earlier process in the own sublayer.
THEOREM OwnSublayerIsFresh == Spec => []OwnSublayerFresh
<1>1. HoldInv => OwnSublayerFresh  BY Zenon DEF HoldInv, EngineInv, OwnSublayerFresh
<1>2. QED  BY <1>1, Holds, PTL

\* What FailuresConsecutive rests on: nothing is on record without a handle, or
\* before the first filter is added.
CountInv ==
  /\ engine = "none" => ids = {}
  /\ worker = "open" => engine = "none"
  /\ worker \in {"sublayer", "appid"} => ids = {}
  /\ FailuresConsecutive

\* Every step keeps the facts about the count.
LEMMA CountStep ==
  ASSUME HoldInv, CountInv, [Next]_vars
  PROVE  CountInv'
<1> USE DEF CountInv, FailuresConsecutive
<1>1. CASE UNCHANGED <<worker, engine, ids, failures>>  BY <1>1, Zenon
<1>2. CASE Start  BY <1>2, Zenon DEF Start
<1>3. CASE Pin \/ CreateRoute \/ VerifyRoute
  BY <1>1, <1>3, Zenon DEF HoldInv, ThreadInv, Pin, CreateRoute, VerifyRoute
<1>4. CASE DropRoute
  BY <1>4, Zenon DEF HoldInv, ThreadInv, DropRoute
<1>5. CASE open_engine
  BY <1>5, Zenon DEF open_engine, InstallFailed, Spawn
<1>6. CASE add_sublayer
  BY <1>6, Zenon DEF add_sublayer, Teardown, InstallFailed, Spawn
<1>7. CASE GetAppId
  BY <1>7, Zenon DEF GetAppId, Teardown, InstallFailed, Spawn
<1>8. CASE add_permit_filter \/ EnumSublayers \/ add_permit_to_all_sublayers
  BY <1>8, Zenon DEF HoldInv, ThreadInv, add_permit_filter, EnumSublayers,
     add_permit_to_all_sublayers
<1>9. CASE FinishInstall
  BY <1>9, Zenon DEF HoldInv, ThreadInv, FinishInstall, Teardown, Installed, InstallFailed, Spawn
<1>10. CASE Wake
  BY <1>10, Zenon DEF Wake, Teardown
<1>11. CASE Check
  BY <1>11, Zenon DEF Check, Teardown
<1>12. CASE Exit \/ Crash  BY <1>12, Zenon DEF Exit, Crash
<1>13. CASE BfeStop  BY <1>13, Zenon DEF BfeStop
<1>14. QED
  BY <1>1, <1>2, <1>3, <1>4, <1>5, <1>6, <1>7, <1>8, <1>9, <1>10, <1>11, <1>12, <1>13, Zenon
  DEF Next, MainThread, Install, Watchdog, Host, Join, DropBypass, LinkChange, VpnChange,
      BfeStart, SubAdd, SubDelete, vars, proc

\* The failures after which the watchdog ends the process are consecutive: a
\* process that holds an installation between two passes has none on its count.
THEOREM FailuresAreConsecutive == Spec => []FailuresConsecutive
<1>1. Init => CountInv  BY Zenon DEF Init, CountInv, FailuresConsecutive
<1>2. HoldInv /\ CountInv /\ [Next]_vars => CountInv'
  BY CountStep, Zenon
<1>3. CountInv => FailuresConsecutive  BY Zenon DEF CountInv
<1>4. QED  BY <1>1, <1>2, <1>3, Holds, PTL DEF Spec

\* userspace::run returns from serving with no filter, no sublayer and no
\* pinned route of its own left on the host, a failed route deletion excepted.
THEOREM StopIsClean == Spec => CleanStop
<1>1. HoldInv /\ [Next]_vars =>
        (main = "unpin" /\ main' = "returned" =>
           Mines' = {} /\ ~ownSub' /\ pinned \notin routes' \ lingering')
  <2> SUFFICES ASSUME HoldInv, [Next]_vars, main = "unpin", main' = "returned"
               PROVE  Mines' = {} /\ ~ownSub' /\ pinned \notin routes' \ lingering'
    BY Zenon
  <2>1. worker = "off" /\ engine = "none" /\ ~ownSub /\ Mines = {}
    BY Zenon DEF HoldInv, ThreadInv, EngineInv
  <2>2. DropRoute
    BY <2>1, Zenon DEF Next, Start, MainThread, Pin, CreateRoute, VerifyRoute, Join, Install,
       open_engine, add_sublayer, GetAppId, add_permit_filter, EnumSublayers,
       add_permit_to_all_sublayers, FinishInstall, Watchdog, Wake, Check, Exit, DropBypass, Crash, Host,
       LinkChange, VpnChange, BfeStop, BfeStart, SubAdd, SubDelete, vars, proc
  <2>3. QED  BY <2>1, <2>2, OwnAssumption, Zenon DEF HoldInv, TypeOK, DropRoute, Delete, Mines, wfp
<1>2. QED  BY <1>1, Holds, PTL DEF Spec, CleanStop

\* Every step keeps the facts about the route.
LEMMA PinStep ==
  ASSUME HoldInv, PinInv, [Next]_vars
  PROVE  PinInv'
<1>1. CASE Start  BY <1>1, Zenon DEF Start, PinInv
<1>2. CASE Pin
  BY <1>2, Zenon DEF PinInv, Pin, enumerate_viable_uplinks
<1>3. CASE CreateRoute  BY <1>3, Zenon DEF PinInv, CreateRoute
<1>4. CASE main' \notin {"pin", "create", "verify"}  BY <1>4, Zenon DEF PinInv
<1>5. CASE UNCHANGED <<main, cand, pinned, routes>>  BY <1>5, Zenon DEF PinInv
<1>6. CASE Install \/ Watchdog
  BY <1>6, Zenon DEF HoldInv, ThreadInv, PinInv, Install, Watchdog, open_engine, add_sublayer,
     GetAppId, add_permit_filter, EnumSublayers, add_permit_to_all_sublayers, FinishInstall, Wake, Check, Exit,
     Installed, InstallFailed, Spawn, net
<1>7. CASE Host
  BY <1>5, <1>7, Zenon DEF Host, LinkChange, VpnChange, BfeStop, BfeStart, SubAdd, SubDelete, proc, net
<1>8. QED
  BY <1>1, <1>2, <1>3, <1>4, <1>5, <1>6, <1>7, Zenon
  DEF Next, MainThread, VerifyRoute, Join, DropRoute, DropBypass, Crash, vars, proc, net

\* pin_route_to_peer holds a route only if it won, and takes back one that lost.
THEOREM RouteWinsOrIsRolledBack == Spec => PinWinsOrRollsBack
<1>1. Init => PinInv  BY Zenon DEF Init, PinInv
<1>2. HoldInv /\ PinInv /\ [Next]_vars => PinInv'
  BY PinStep, Zenon
<1>3. HoldInv /\ PinInv /\ [Next]_vars =>
        (main = "verify" /\ main' = "install" =>
           IF pinned' = None THEN cand \notin routes' \ lingering'
             ELSE pinned' \in routes' /\ pinned' = BestInterface)
  <2> SUFFICES ASSUME HoldInv, PinInv, [Next]_vars, main = "verify", main' = "install"
               PROVE  IF pinned' = None THEN cand \notin routes' \ lingering'
                        ELSE pinned' \in routes' /\ pinned' = BestInterface
    BY Zenon
  <2>1. worker = "off"
    BY Zenon DEF HoldInv, ThreadInv
  <2>2. VerifyRoute
    BY <2>1, Zenon DEF Next, Start, MainThread, Pin, CreateRoute, Join, DropRoute, Install,
       open_engine, add_sublayer, GetAppId, add_permit_filter, EnumSublayers,
       add_permit_to_all_sublayers, FinishInstall, Watchdog, Wake, Check, Exit, DropBypass, Crash, Host,
       LinkChange, VpnChange, BfeStop, BfeStart, SubAdd, SubDelete, vars, proc
  <2>3. QED  BY <2>2, OwnAssumption, Zenon DEF PinInv, VerifyRoute, Delete
<1>4. QED  BY <1>1, <1>2, <1>3, Holds, PTL DEF Spec, PinWinsOrRollsBack
=============================================================================

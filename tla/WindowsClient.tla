--------------------------- MODULE WindowsClient ---------------------------
(***************************************************************************)
(* The Windows client's hold on the host: the /32 route it pins to the     *)
(* peer (windows_route.rs), the WFP PERMIT filters that let its packets    *)
(* past another VPN's block rules and the watchdog thread that repairs     *)
(* them (windows_wfp.rs), in the order in which userspace::run acquires    *)
(* and releases them.                                                      *)
(*                                                                         *)
(* Around the code: uplinks that come and go, a VPN that takes the route,  *)
(* the Base Filtering Engine stopping and starting, other programs'        *)
(* sublayers appearing and disappearing, crashes of the process.           *)
(***************************************************************************)
EXTENDS Integers, FiniteSets

CONSTANTS
  Nic,         \* network interfaces
  Row,         \* Row[n] = [type, hardware, dedicated, vpnName, metric]
  Vpn,         \* the adapter of another VPN, always up, not a viable uplink
  Sub,         \* sublayers of other programs
  Refusing,    \* sublayers that take no filters without their providerKey
  Own,         \* the daemon's sublayer, GUTD_SUBLAYER_KEY
  None,
  NumLayers,   \* number of ALE layers, 6 in the code
  MaxFailures, \* MAX_CONSECUTIVE_FAILURES, 20 in the code
  MaxRuns      \* number of times the process is started

ASSUME FailuresAssumption == MaxFailures \in Nat \ {0}
ASSUME RunsAssumption == MaxRuns \in Nat \ {0}
ASSUME LayersAssumption == NumLayers \in Nat \ {0}
ASSUME OwnAssumption == Own \notin Sub /\ None \notin Nic /\ Refusing \subseteq Sub

VARIABLES
  main,      \* the thread of userspace::run
  worker,    \* install_once and watchdog_loop: at most one thread runs them
  run,       \* number of this process
  cand,      \* uplink being pinned
  pinned,    \* interface of the PinnedRoute held, or None
  stop,      \* WfpBypass.stop
  engine,    \* InstallState.engine: "none", "live", "dead"
  ids,       \* InstallState.filter_ids
  seen,      \* sublayers FwpmSubLayerEnum0 returned, without those done
  sub,       \* sublayer of seen that has filters on some of the layers
  layer,     \* number of the next layer of `layers`
  failures,  \* consecutive failed installs of the watchdog
  up,        \* interfaces that are operational
  routes,    \* interfaces with a host route to the peer at metric 1
  lingering, \* routes the system refused to delete
  taken,     \* another VPN has a host route with a better metric
  bfe,       \* the Base Filtering Engine runs
  subs,      \* sublayers of other programs that exist
  ownSub,    \* the daemon's sublayer exists
  filters    \* the daemon's filters in the engine: [sub, run]

proc == <<main, worker, run, cand, pinned, stop, engine, ids, seen, sub, layer, failures>>
loop == <<seen, sub, layer>>
net == <<up, routes, lingering, taken>>
wfp == <<bfe, subs, ownSub, filters>>
vars == <<proc, net, wfp>>

Filter == [sub : Sub \union {Own}, layer : 1..NumLayers, run : 1..MaxRuns]

Installing == {"open", "sublayer", "appid", "own", "enum", "plant"}

TypeOK ==
  /\ main \in {"down", "pin", "create", "verify", "install", "serve", "join", "unpin", "abort",
            "returned"}
  /\ worker \in Installing \union {"off", "sleep", "check", "exit"}
  /\ run \in 0..MaxRuns
  /\ cand \in Nic \union {None}
  /\ pinned \in Nic \union {None}
  /\ stop \in BOOLEAN
  /\ engine \in {"none", "live", "dead"}
  /\ ids \in SUBSET Filter
  /\ seen \in SUBSET Sub
  /\ sub \in Sub \union {None}
  /\ layer \in 1..NumLayers
  /\ failures \in 0..MaxFailures
  /\ up \in SUBSET Nic
  /\ routes \in SUBSET Nic
  /\ lingering \in SUBSET Nic
  /\ taken \in BOOLEAN
  /\ bfe \in BOOLEAN
  /\ subs \in SUBSET Sub
  /\ ownSub \in BOOLEAN
  /\ filters \in SUBSET Filter

Init ==
  /\ main = "down" /\ worker = "off" /\ run = 0 /\ cand = None /\ pinned = None
  /\ stop = FALSE /\ engine = "none" /\ ids = {} /\ failures = 0
  /\ seen = {} /\ sub = None /\ layer = 1
  /\ up \in {u \in SUBSET Nic : Vpn \in u} /\ routes = {} /\ lingering = {} /\ taken \in BOOLEAN
  /\ bfe \in BOOLEAN /\ subs = {} /\ ownSub = FALSE /\ filters = {}

(***************************************************************************)
(* pin_route_to_peer.                                                      *)
(***************************************************************************)
is_viable_uplink(n) ==
  /\ n \in up
  /\ Row[n].type \in {"ethernet", "wifi", "ppp"}
  /\ Row[n].hardware /\ Row[n].dedicated /\ ~Row[n].vpnName

enumerate_viable_uplinks == {n \in Nic : is_viable_uplink(n)}

\* The interface the system sends to the peer by: another VPN's better route, a
\* pinned route, the default route; None if nothing is up.
BestInterface ==
  LET pins == routes \intersect up
      all == IF taken THEN {Vpn} ELSE IF pins # {} THEN pins ELSE up
  IN  IF all = {} THEN None
      ELSE CHOOSE n \in all : \A k \in all : Row[n].metric <= Row[k].metric

\* DeleteIpForwardEntry2, whose failure is at most logged.
Delete(n) ==
  \/ routes' = routes \ {n} /\ lingering' = lingering \ {n}
  \/ lingering' = lingering \union ({n} \intersect routes) /\ UNCHANGED routes

\* A client with a static peer starts as administrator.
Start ==
  /\ main \in {"down", "returned"} /\ run < MaxRuns
  /\ main' = "pin" /\ run' = run + 1
  /\ worker' = "off" /\ cand' = None /\ pinned' = None /\ stop' = FALSE
  /\ engine' = "none" /\ ids' = {} /\ failures' = 0
  /\ seen' = {} /\ sub' = None /\ layer' = 1
  /\ UNCHANGED <<net, wfp>>

\* The viable uplink with the lowest route metric; none is no error for run().
Pin ==
  /\ main = "pin"
  /\ IF enumerate_viable_uplinks = {}
       THEN main' = "install" /\ worker' = "open" /\ UNCHANGED cand
       ELSE /\ \E n \in enumerate_viable_uplinks :
                 /\ \A k \in enumerate_viable_uplinks : Row[n].metric <= Row[k].metric
                 /\ cand' = n
            /\ main' = "create" /\ UNCHANGED worker
  /\ UNCHANGED <<run, pinned, stop, engine, ids, loop, failures, net, wfp>>

\* CreateIpForwardEntry2. A route that exists, left by a crash, is deleted and
\* created again; each of the calls may fail.
CreateRoute ==
  /\ main = "create"
  /\ \/ /\ cand \in up
        /\ routes' = routes \union {cand} /\ lingering' = lingering \ {cand}
        /\ main' = "verify" /\ UNCHANGED worker
     \/ /\ \/ UNCHANGED <<routes, lingering>>
           \/ cand \in routes /\ Delete(cand)
        /\ main' = "install" /\ worker' = "open"
  /\ UNCHANGED <<run, cand, pinned, stop, engine, ids, loop, failures, up, taken, wfp>>

\* Variant of VerifyRoute: an overridden route is kept.
VerifyRouteKeep ==
  /\ main = "verify"
  /\ pinned' = cand
  /\ main' = "install" /\ worker' = "open"
  /\ UNCHANGED <<run, cand, stop, engine, ids, loop, failures, net, wfp>>

\* The route is held if it won, else deleted.
VerifyRoute ==
  /\ main = "verify"
  /\ IF BestInterface = cand
       THEN pinned' = cand /\ UNCHANGED <<routes, lingering>>
       ELSE Delete(cand) /\ UNCHANGED pinned
  /\ main' = "install" /\ worker' = "open"
  /\ UNCHANGED <<run, cand, stop, engine, ids, loop, failures, up, taken, wfp>>

(***************************************************************************)
(* install_once, in the main thread first, later in the watchdog.          *)
(***************************************************************************)
Mine(s, l) == [sub |-> s, layer |-> l, run |-> run]

\* teardown: on a live engine the recorded filters and the own sublayer (with
\* every filter in it) are deleted; the handle is closed.
Teardown ==
  /\ engine' = "none" /\ ids' = {}
  /\ IF engine = "live"
       THEN /\ filters' = {f \in filters \ ids : f.sub # Own}
            /\ ownSub' = FALSE
       ELSE UNCHANGED <<filters, ownSub>>
  /\ UNCHANGED <<bfe, subs>>

\* The main thread spawns the watchdog whether its install succeeded or not; if
\* that fails run() returns and nothing is torn down.
Spawn ==
  /\ \/ main' = "serve" /\ worker' = "sleep"
     \/ main' = "abort" /\ worker' = "off"
  /\ UNCHANGED failures

\* Variant of Installed: the count goes on after a success.
InstalledUncleared ==
  IF main = "install" THEN Spawn
    ELSE worker' = "sleep" /\ UNCHANGED <<main, failures>>

Installed ==
  IF main = "install" THEN Spawn
    ELSE worker' = "sleep" /\ failures' = 0 /\ UNCHANGED main

\* Variant of InstallFailed: failures are logged, not counted.
InstallFailedUncounted ==
  IF main = "install" THEN Spawn
    ELSE worker' = "sleep" /\ UNCHANGED <<failures, main>>

\* The watchdog sleeps again or, after too many failures in a row, exits.
InstallFailed ==
  IF main = "install" THEN Spawn
    ELSE /\ failures' = failures + 1
         /\ worker' = IF failures + 1 >= MaxFailures THEN "exit" ELSE "sleep"
         /\ UNCHANGED main

open_engine ==
  /\ worker = "open"
  /\ IF bfe
       THEN engine' = "live" /\ worker' = "sublayer" /\ UNCHANGED <<main, failures>>
       ELSE InstallFailed /\ UNCHANGED engine
  /\ UNCHANGED <<run, cand, pinned, stop, ids, loop, net, wfp>>

\* Variant of add_sublayer: a sublayer left by a crash is used as it is.
add_sublayer_reuse ==
  /\ worker = "sublayer"
  /\ IF engine = "live"
       THEN /\ ownSub' = TRUE /\ worker' = "appid"
            /\ UNCHANGED <<main, failures, engine, ids, bfe, subs, filters>>
       ELSE Teardown /\ InstallFailed
  /\ UNCHANGED <<run, cand, pinned, stop, loop, net>>

\* Delete a sublayer left by a crash, with its filters, and add a new one.
add_sublayer ==
  /\ worker = "sublayer"
  /\ IF engine = "live"
       THEN /\ ownSub' = TRUE
            /\ filters' = {f \in filters : f.sub # Own}
            /\ worker' = "appid"
            /\ UNCHANGED <<main, failures, engine, ids, bfe, subs>>
       ELSE Teardown /\ InstallFailed
  /\ UNCHANGED <<run, cand, pinned, stop, loop, net>>

\* FwpmGetAppIdFromFileName0 finds the executable, or the install is undone.
GetAppId ==
  /\ worker = "appid"
  /\ \/ worker' = "own" /\ UNCHANGED <<main, failures, engine, ids, wfp>>
     \/ Teardown /\ InstallFailed
  /\ UNCHANGED <<run, cand, pinned, stop, loop, net>>

\* A PERMIT filter in sublayer s on this layer, on record if the engine took it.
FilterAdd(s) ==
  IF engine = "live" /\ s \in (subs \ Refusing) \union (IF ownSub THEN {Own} ELSE {})
    THEN filters' = filters \union {Mine(s, layer)} /\ ids' = ids \union {Mine(s, layer)}
    ELSE UNCHANGED <<filters, ids>>

\* Step 1, layer by layer: the own sublayer. A failure is skipped.
add_permit_filter ==
  /\ worker = "own"
  /\ FilterAdd(Own)
  /\ IF layer = NumLayers
       THEN layer' = 1 /\ worker' = "enum"
       ELSE layer' = layer + 1 /\ UNCHANGED worker
  /\ UNCHANGED <<main, run, cand, pinned, stop, engine, seen, sub, failures, net, bfe, subs, ownSub>>

EnumSublayers ==
  /\ worker = "enum"
  /\ seen' = IF engine = "live" THEN subs ELSE {}
  /\ worker' = "plant"
  /\ UNCHANGED <<main, run, cand, pinned, stop, engine, ids, sub, layer, failures, net, wfp>>

\* Step 2, sublayer by sublayer and layer by layer: those enumerated.
add_permit_to_all_sublayers ==
  /\ worker = "plant"
  /\ \E s \in seen :
       /\ layer = 1 \/ s = sub
       /\ FilterAdd(s)
       /\ IF layer = NumLayers
            THEN layer' = 1 /\ sub' = None /\ seen' = seen \ {s}
            ELSE layer' = layer + 1 /\ sub' = s /\ UNCHANGED seen
  /\ UNCHANGED <<main, worker, run, cand, pinned, stop, engine, failures, net, bfe, subs, ownSub>>

\* The end of install_once: no filter at all is a failure.
FinishInstall ==
  /\ worker = "plant" /\ seen = {}
  /\ IF ids = {}
       THEN Teardown /\ InstallFailed
       ELSE Installed /\ UNCHANGED <<engine, ids, wfp>>
  /\ UNCHANGED <<run, cand, pinned, stop, loop, net>>

(***************************************************************************)
(* watchdog_loop.                                                          *)
(***************************************************************************)
\* Variant of Wake: the stop flag is read only before the sleep.
WakeUnchecked ==
  /\ worker = "sleep"
  /\ worker' = "check"
  /\ UNCHANGED <<main, run, cand, pinned, stop, engine, ids, loop, failures, net, wfp>>

\* Variant of Wake: the loop is left without a teardown.
WakeNoTeardown ==
  /\ worker = "sleep"
  /\ worker' = IF stop THEN "off" ELSE "check"
  /\ UNCHANGED <<main, run, cand, pinned, stop, engine, ids, loop, failures, net, wfp>>

\* The sleep is over: leave the loop when stop is set, with a teardown.
Wake ==
  /\ worker = "sleep"
  /\ IF stop
       THEN worker' = "off" /\ Teardown
       ELSE worker' = "check" /\ UNCHANGED <<engine, ids, wfp>>
  /\ UNCHANGED <<main, run, cand, pinned, stop, loop, failures, net>>

\* The handle works and every recorded filter is still found.
verify == engine = "live" /\ ids \subseteq filters

Check ==
  /\ worker = "check"
  /\ IF verify
       THEN worker' = "sleep" /\ failures' = 0 /\ UNCHANGED <<engine, ids, wfp>>
       ELSE Teardown /\ worker' = "open" /\ UNCHANGED failures
  /\ UNCHANGED <<main, run, cand, pinned, stop, loop, net>>

\* process::exit(2): no destructor runs.
Exit ==
  /\ worker = "exit"
  /\ main' = "down" /\ worker' = "off" /\ engine' = "none" /\ ids' = {} /\ pinned' = None
  /\ UNCHANGED <<run, cand, stop, loop, failures, net, wfp>>

(***************************************************************************)
(* The end of userspace::run: the bypass is dropped, then the route.       *)
(***************************************************************************)
DropBypass ==
  /\ main = "serve"
  /\ main' = "join" /\ stop' = TRUE
  /\ UNCHANGED <<worker, run, cand, pinned, engine, ids, loop, failures, net, wfp>>

Join ==
  /\ main = "join" /\ worker = "off"
  /\ main' = "unpin"
  /\ UNCHANGED <<worker, run, cand, pinned, stop, engine, ids, loop, failures, net, wfp>>

\* The PinnedRoute, if there is one, is dropped.
DropRoute ==
  /\ main \in {"unpin", "abort"}
  /\ IF pinned = None THEN UNCHANGED <<routes, lingering>> ELSE Delete(pinned)
  /\ pinned' = None
  /\ main' = (IF main = "unpin" THEN "returned" ELSE "down") /\ engine' = "none" /\ ids' = {}
  /\ UNCHANGED <<worker, run, cand, stop, loop, failures, up, taken, wfp>>

(***************************************************************************)
(* The host.                                                               *)
(***************************************************************************)
Crash ==
  /\ main \notin {"down", "returned"}
  /\ main' = "down" /\ worker' = "off" /\ engine' = "none" /\ ids' = {} /\ pinned' = None
  /\ seen' = {} /\ sub' = None /\ layer' = 1
  /\ UNCHANGED <<run, cand, stop, failures, net, wfp>>

\* Links and routes of others change at any time; only pin_route_to_peer looks.
LinkChange ==
  /\ main \in {"pin", "create", "verify"}
  /\ \E n \in Nic \ {Vpn} : up' = IF n \in up THEN up \ {n} ELSE up \union {n}
  /\ UNCHANGED <<proc, routes, lingering, taken, wfp>>

VpnChange ==
  /\ main \in {"pin", "create", "verify"}
  /\ taken' = ~taken
  /\ UNCHANGED <<proc, up, routes, lingering, wfp>>

\* The engine stops: its objects vanish and open handles die.
BfeStop ==
  /\ bfe
  /\ bfe' = FALSE /\ subs' = {} /\ ownSub' = FALSE /\ filters' = {}
  /\ engine' = IF engine = "live" THEN "dead" ELSE engine
  /\ UNCHANGED <<main, worker, run, cand, pinned, stop, ids, loop, failures, net>>

BfeStart ==
  /\ ~bfe /\ bfe' = TRUE
  /\ UNCHANGED <<proc, net, subs, ownSub, filters>>

\* Another program installs or removes its sublayer.
SubAdd(s) ==
  /\ bfe /\ s \notin subs /\ subs' = subs \union {s}
  /\ UNCHANGED <<proc, net, bfe, ownSub, filters>>

SubDelete(s) ==
  /\ s \in subs /\ subs' = subs \ {s}
  /\ filters' = {f \in filters : f.sub # s}
  /\ UNCHANGED <<proc, net, bfe, ownSub>>

Install ==
  \/ open_engine \/ add_sublayer \/ GetAppId \/ add_permit_filter \/ EnumSublayers
  \/ add_permit_to_all_sublayers \/ FinishInstall

Watchdog == Wake \/ Check \/ Exit

MainThread ==
  Pin \/ CreateRoute \/ VerifyRoute \/ Join \/ DropRoute

Host ==
  \/ LinkChange \/ VpnChange \/ BfeStop \/ BfeStart
  \/ \E s \in Sub : SubAdd(s) \/ SubDelete(s)

Next ==
  \/ Start \/ MainThread \/ Install \/ Watchdog \/ DropBypass \/ Crash \/ Host

Spec == Init /\ [][Next]_vars

\* Both threads are scheduled; nothing is assumed of the host.
FairSpec == Spec /\ WF_vars(MainThread) /\ WF_vars(Install) /\ WF_vars(Watchdog)

(***************************************************************************)
(* Properties.                                                             *)
(***************************************************************************)
Mines == {f \in filters : f.run = run}

\* When userspace::run returns after serving, the host is as the process found
\* it: no filter of this process, no sublayer, no pinned route (unless its
\* deletion failed), whatever the engine and the watchdog were doing when stop
\* was set.
CleanStop ==
  [][main = "unpin" /\ main' = "returned" =>
       Mines' = {} /\ ~ownSub' /\ pinned \notin routes' \ lingering']_vars

\* A pinned route is held only if it won when it was checked, and an attempt
\* that fails leaves no route of its own behind, unless the deletion in
\* pin_route_to_peer's roll-back failed.
PinWinsOrRollsBack ==
  [][main = "verify" /\ main' = "install" =>
       IF pinned' = None THEN cand \notin routes' \ lingering'
         ELSE pinned' \in routes' /\ pinned' = BestInterface]_vars

\* No filter of an earlier process survives in the daemon's own sublayer once a
\* new install has finished (add_sublayer deletes before it adds).
OwnSublayerFresh ==
  worker \in {"sleep", "check"} /\ engine = "live" =>
    \A f \in filters : f.sub = Own => f.run = run

\* Every filter of this process is on record, so that teardown can remove it.
Recorded == main # "abort" /\ main # "down" => Mines \subseteq ids

\* Between two passes of the watchdog a process that holds an installation has
\* no failure on its count: the failures that end the process are consecutive.
FailuresConsecutive == worker \in {"sleep", "check"} /\ ids # {} => failures = 0

\* A filter this process has had in another program's sublayer comes back after
\* the sublayer was removed and installed again: "if the filter goes missing (wg
\* re-install, BFE restart) it is re-added automatically".
ReAdded ==
  \A s \in Sub \ Refusing, l \in 1..NumLayers :
    <>(Mine(s, l) \in filters /\ [](main = "serve")) /\ <>[](bfe /\ s \in subs) =>
      []<>(Mine(s, l) \in filters)

\* A process does not serve for ever without the engine: the watchdog exits, so
\* that the service manager restarts it.
GivesUp == <>[](~bfe) => []<>(main # "serve")

\* Dropping WfpBypass ends: the watchdog sees stop and the join returns.
StopEnds == main = "join" ~> main \in {"returned", "down"}
=============================================================================

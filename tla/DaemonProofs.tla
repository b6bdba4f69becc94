---------------------------- MODULE DaemonProofs ----------------------------
(***************************************************************************)
(* Proofs about Daemon for any set of peers, ports, configuration files    *)
(* and addresses.                                                          *)
(***************************************************************************)
EXTENDS Daemon, TLAPS

Building == {"dispatch", "program", "register"}
Serving == Loop \cup {"leave"}

\* Where the peers of the start-up configuration are: waiting, being set up, or
\* served.
Progress ==
    /\ pc \in {"down", "start", "proxy"} => managers = {}
    /\ pc \in Setup \cup Serving => boot \in RawConfig /\ Valid(boot) /\ managers \subseteq DOMAIN boot
    /\ pc = "start" => boot \in RawConfig /\ Valid(boot)
    /\ pc = "veth" => todo \cup managers = DOMAIN boot
    /\ pc \in Building => /\ cur \in DOMAIN boot \cap veth
                          /\ todo \cup {cur} \cup managers = DOMAIN boot
    /\ pc \in Serving => managers = DOMAIN boot
    /\ pc \in {"refresh", "apply"} => todo \subseteq managers
    /\ pc = "apply" => loaded \in RawConfig

\* The parts a peer has when it is being set up.
Parts ==
    /\ pc \in {"program", "register"} => xdp
    /\ pc = "register" => cfgMap[cur] # None
    /\ pc \in {"down", "start", "proxy"} => portMap = NoPorts
    /\ ended = "clean" => boot \in RawConfig

\* The inductive invariant behind every safety property of Daemon.
DaemonInv ==
    /\ TypeOK /\ Progress /\ Parts
    /\ NoLostSighup /\ DispatchesToOwner /\ ManagersAreWhole /\ CleanShutdown

-----------------------------------------------------------------------------
\* A configuration names known peers and ports.
LEMMA ConfigTypes ==
    /\ \A c \in RawConfig : DOMAIN c \subseteq Peer /\ \A p \in DOMAIN c : c[p] \subseteq Port
    /\ None \notin Peer /\ None \notin Ip /\ None \notin RawConfig /\ None \notin Settings
    /\ RefreshTicks \in Nat /\ RefreshTicks > 0 /\ WatchdogTicks \in Nat /\ WatchdogTicks > 0
  BY ConfigAssumption, LimitAssumption DEF Settings

\* The initial state satisfies the invariant.
LEMMA DaemonInit == Init => DaemonInv
<1> SUFFICES ASSUME Init PROVE DaemonInv
  BY Zenon
<1>1. TypeOK
  <2>1. cfgMap \in [Peer -> Settings \cup {None}] /\ portMap \in [Port -> Peer \cup {None}]
    BY Zenon DEF Init, NoSettings, NoPorts
  <2>2. tick \in 0 .. RefreshTicks /\ quiet \in 0 .. WatchdogTicks /\ slots \in Nat
    BY ConfigTypes DEF Init
  <2>3. QED
    BY <2>1, <2>2, Zenon DEF Init, TypeOK
<1>2. Progress /\ Parts
  BY Zenon DEF Init, Progress, Parts, Setup, Serving, Loop, Building
<1>3. NoLostSighup /\ DispatchesToOwner /\ ManagersAreWhole /\ CleanShutdown
  BY Zenon DEF Init, NoLostSighup, DispatchesToOwner, ManagersAreWhole, CleanShutdown, NoPorts
<1>4. QED
  BY <1>1, <1>2, <1>3, Zenon DEF DaemonInv

\* However the process ends, the invariant holds again.
LEMMA GoneDaemon ==
    ASSUME DaemonInv, NEW how \in {"clean", "failed", "killed", "hup"}, Gone(how),
           veth' \subseteq veth, xdp' \in BOOLEAN,
           how = "clean" => boot \in RawConfig /\ veth' \cap DOMAIN boot = {} /\ ~xdp'
    PROVE  DaemonInv'
<1> USE DEF DaemonInv, Gone
<1>1. TypeOK'
  <2>1. /\ cfgMap' \in [Peer -> Settings \cup {None}]
        /\ portMap' \in [Port -> Peer \cup {None}]
    BY Zenon DEF NoSettings, NoPorts
  <2>2. tick' \in 0 .. RefreshTicks /\ quiet' \in 0 .. WatchdogTicks /\ slots' \in Nat
    BY ConfigTypes
  <2>3. QED
    BY <2>1, <2>2, Zenon DEF TypeOK
<1>2. Progress' /\ Parts'
  BY Zenon DEF Progress, Parts, Setup, Serving, Loop, Building
<1>3. NoLostSighup' /\ DispatchesToOwner' /\ ManagersAreWhole' /\ CleanShutdown'
  BY Zenon DEF NoLostSighup, DispatchesToOwner, ManagersAreWhole, CleanShutdown, NoPorts
<1>4. QED
  BY <1>1, <1>2, <1>3, Zenon

\* A failed start, a crash and an orderly end keep the invariant: at the end of the
\* loop every peer of the configuration has a manager that deletes its veth pair.
LEMMA EndDaemon ==
    ASSUME DaemonInv, SetupFail \/ Leave \/ Crash
    PROVE  DaemonInv'
<1> USE DEF DaemonInv
<1>1. CASE SetupFail
  BY <1>1, GoneDaemon, Zenon DEF SetupFail, Return, TypeOK
<1>2. CASE Crash
  BY <1>2, GoneDaemon, Zenon DEF Crash, Killed, TypeOK
<1>3. CASE Leave
  <2>1. managers = DOMAIN boot /\ boot \in RawConfig
    BY <1>3, Zenon DEF Leave, Progress, Serving
  <2>2. veth' \cap DOMAIN boot = {} /\ xdp' = FALSE /\ veth' \subseteq veth /\ Gone("clean")
    <3>1. HasDispatcher
      BY <1>3, Zenon DEF Leave, HasDispatcher
    <3>2. QED
      BY <1>3, <2>1, <3>1, Zenon DEF Leave, Return
  <2> HIDE DEF DaemonInv
  <2>3. QED
    BY <2>1, <2>2, GoneDaemon, Zenon
<1>4. QED
  BY <1>1, <1>2, <1>3, Zenon

\* Signals and changes of the file and the address keep the invariant.
LEMMA EnvironmentDaemon ==
    ASSUME DaemonInv,
           \/ \E c \in RawConfig : Edit(c)
           \/ \E a \in Ip : ChangeIp(a)
           \/ Hup \/ Term
           \/ UNCHANGED vars
    PROVE  DaemonInv'
<1> USE DEF DaemonInv
<1>1. CASE Killed("hup") \/ Killed("killed")
  BY <1>1, GoneDaemon, Zenon DEF Killed, TypeOK
<1>2. CASE ~(Killed("hup") \/ Killed("killed"))
  <2>1. /\ UNCHANGED <<pc, boot, loaded, todo, cur, managers, slots, kernel, tick, quiet, ended, handlers>>
        /\ file' \in RawConfig /\ ip' \in Ip
        /\ reloadFlag' \in BOOLEAN /\ exitFlag' \in BOOLEAN /\ owed' \in BOOLEAN
        /\ (owed' => reloadFlag') \/ (owed' = owed /\ reloadFlag' = reloadFlag)
    BY <1>2, Zenon DEF Edit, ChangeIp, Hup, Term, daemon, flags, vars, TypeOK
  <2>2. TypeOK'
    BY <2>1 DEF TypeOK, kernel
  <2>3. Progress' /\ Parts'
    BY <2>1, Zenon DEF Progress, Parts, kernel, Valid
  <2>4. NoLostSighup' /\ DispatchesToOwner' /\ ManagersAreWhole' /\ CleanShutdown'
    BY <2>1 DEF NoLostSighup, DispatchesToOwner, ManagersAreWhole, CleanShutdown, kernel
  <2>5. QED
    BY <2>2, <2>3, <2>4, Zenon
<1>3. QED
  BY <1>1, <1>2, Zenon

\* Reading the configuration and installing the handlers keep the invariant.
LEMMA StartDaemon ==
    ASSUME DaemonInv, Start \/ \E u \in UserspaceOnly : InstallHandlers(u)
    PROVE  DaemonInv'
<1> USE DEF DaemonInv, kernel, flags
<1>1. CASE Start
  <2>1. TypeOK'
    BY <1>1 DEF Start, TypeOK
  <2>2. Progress' /\ Parts'
    BY <1>1, Zenon DEF Start, Progress, Parts, Setup, Serving, Loop, Building, TypeOK
  <2>3. NoLostSighup' /\ DispatchesToOwner' /\ ManagersAreWhole' /\ CleanShutdown'
    BY <1>1, Zenon DEF Start, NoLostSighup, DispatchesToOwner, ManagersAreWhole, CleanShutdown,
       Progress, Parts, NoPorts
  <2>4. QED
    BY <2>1, <2>2, <2>3, Zenon
<1>2. ASSUME NEW u \in UserspaceOnly, InstallHandlers(u) PROVE DaemonInv'
  <2>1. /\ pc = "start" /\ pc' \in {"proxy", "veth"}
        /\ handlers' \in BOOLEAN
        /\ pc' = "veth" => todo' = DOMAIN boot
        /\ todo' = todo \/ todo' = DOMAIN boot
        /\ UNCHANGED <<file, ip, boot, loaded, cur, managers, slots, veth, xdp, cfgMap, portMap,
                       reloadFlag, exitFlag, tick, quiet, owed, ended>>
    BY <1>2, Zenon DEF InstallHandlers, TypeOK
  <2>2. TypeOK'
    BY <2>1, ConfigTypes DEF TypeOK, Progress, Setup
  <2>3. Progress' /\ Parts'
    BY <2>1, Zenon DEF Progress, Parts, Setup, Serving, Loop, Building, Valid
  <2>4. NoLostSighup' /\ DispatchesToOwner' /\ ManagersAreWhole' /\ CleanShutdown'
    BY <2>1, Zenon DEF NoLostSighup, DispatchesToOwner, ManagersAreWhole, CleanShutdown
  <2>5. QED
    BY <2>2, <2>3, <2>4, Zenon
<1>3. QED
  BY <1>1, <1>2, Zenon

\* Creating the veth pair and the dispatcher and loading the program keep the
\* invariant.
LEMMA SetupDaemon ==
    ASSUME DaemonInv, (\E p \in Peer : SetupVeth(p)) \/ SetupDispatcher \/ SetupProgram
    PROVE  DaemonInv'
<1> USE DEF DaemonInv, kernel, flags
<1>1. ASSUME NEW p \in Peer, SetupVeth(p) PROVE DaemonInv'
  <2>1. TypeOK'
    BY <1>1, Zenon DEF SetupVeth, TypeOK, Setup
  <2>2. Progress' /\ Parts'
    BY <1>1 DEF SetupVeth, Progress, Parts, Setup, Serving, Loop, Building, Valid
  <2>3. NoLostSighup' /\ DispatchesToOwner' /\ ManagersAreWhole' /\ CleanShutdown'
    BY <1>1, Zenon DEF SetupVeth, NoLostSighup, DispatchesToOwner, ManagersAreWhole, CleanShutdown
  <2>4. QED
    BY <2>1, <2>2, <2>3, Zenon
<1>2. CASE SetupDispatcher
  <2>1. TypeOK'
    BY <1>2 DEF SetupDispatcher, TypeOK, Setup
  <2>2. Progress' /\ Parts'
    BY <1>2, Zenon DEF SetupDispatcher, Progress, Parts, Setup, Serving, Loop, Building, Valid
  <2>3. NoLostSighup' /\ DispatchesToOwner' /\ ManagersAreWhole' /\ CleanShutdown'
    BY <1>2, Zenon DEF SetupDispatcher, NoLostSighup, DispatchesToOwner, ManagersAreWhole, CleanShutdown
  <2>4. QED
    BY <2>1, <2>2, <2>3, Zenon
<1>3. CASE SetupProgram
  <2>1. cur \in Peer /\ [ports |-> boot[cur], ip |-> ip] \in Settings
    BY <1>3, ConfigTypes, Zenon DEF SetupProgram, Progress, Setup, Building, Settings, TypeOK
  <2>2. cfgMap' \in [Peer -> Settings \cup {None}] /\ cfgMap'[cur] # None
    BY <1>3, <2>1, ConfigTypes, Zenon DEF SetupProgram, TypeOK
  <2>3. \A p \in Peer : cfgMap[p] # None => cfgMap'[p] # None
    BY <1>3, <2>1, ConfigTypes, Zenon DEF SetupProgram, TypeOK
  <2>4. TypeOK'
    BY <1>3, <2>2 DEF SetupProgram, TypeOK, Setup
  <2>5. Progress' /\ Parts'
    BY <1>3, <2>2, Zenon DEF SetupProgram, Progress, Parts, Setup, Serving, Loop, Building, Valid
  <2>6. NoLostSighup' /\ DispatchesToOwner' /\ CleanShutdown'
    BY <1>3, Zenon DEF SetupProgram, NoLostSighup, DispatchesToOwner, CleanShutdown
  <2>7. ManagersAreWhole'
    BY <1>3, <2>3, Zenon DEF SetupProgram, ManagersAreWhole, TypeOK
  <2>8. QED
    BY <2>4, <2>5, <2>6, <2>7, Zenon
<1>4. QED
  BY <1>1, <1>2, <1>3, Zenon

\* Registering a peer keeps the invariant: no port of the new peer belongs to a
\* peer that is already served, because parse_config() refused such a file.
LEMMA RegisterDaemon ==
    ASSUME DaemonInv, SetupRegister
    PROVE  DaemonInv'
<1> USE DEF DaemonInv, kernel, flags
<1>1. /\ boot \in RawConfig /\ Valid(boot) /\ managers \subseteq DOMAIN boot
      /\ cur \in DOMAIN boot /\ cur \in veth /\ xdp /\ cfgMap[cur] # None /\ cur \in Peer
      /\ todo \cup {cur} \cup managers = DOMAIN boot
  BY ConfigTypes, Zenon DEF SetupRegister, Progress, Parts, Setup, Building
<1>2. \A q \in Port : portMap'[q] = IF q \in boot[cur] THEN cur ELSE portMap[q]
  BY Zenon DEF SetupRegister
<1>3. TypeOK'
  <2>1. portMap' \in [Port -> Peer \cup {None}]
    BY <1>1, Zenon DEF SetupRegister, TypeOK
  <2>2. slots' \in Nat
    BY DEF SetupRegister, TypeOK
  <2>3. QED
    BY <1>1, <2>1, <2>2, Zenon DEF SetupRegister, TypeOK, Setup, Loop
<1>4. Progress' /\ Parts'
  BY <1>1, Zenon DEF SetupRegister, Progress, Parts, Setup, Serving, Loop, Building, Valid
<1>5. DispatchesToOwner'
  <2>1. ASSUME NEW p \in managers \cup {cur}, NEW q \in boot[p] PROVE portMap'[q] = p
    <3>1. q \in Port
      BY <1>1, <2>1, ConfigTypes, Zenon
    <3>2. CASE p = cur
      BY <1>2, <3>1, <3>2, Zenon
    <3>3. CASE p # cur
      BY <1>1, <1>2, <3>1, <3>3, Zenon DEF Valid, DispatchesToOwner
    <3>4. QED
      BY <3>2, <3>3, Zenon
  <2>2. ASSUME NEW q \in Port, portMap'[q] # None
        PROVE  portMap'[q] \in managers \cup {cur} /\ q \in boot[portMap'[q]]
    BY <1>2, <2>2, Zenon DEF DispatchesToOwner
  <2>3. managers' = managers \cup {cur} /\ boot' = boot
    BY Zenon DEF SetupRegister
  <2>4. QED
    BY <2>1, <2>2, <2>3, Zenon DEF DispatchesToOwner
<1>6. ManagersAreWhole'
  BY <1>1, Zenon DEF SetupRegister, ManagersAreWhole
<1>7. NoLostSighup' /\ CleanShutdown'
  BY Zenon DEF SetupRegister, NoLostSighup, CleanShutdown
<1>8. QED
  BY <1>3, <1>4, <1>5, <1>6, <1>7, Zenon

\* The steps of the loop that touch no map keep the invariant.
LEMMA LoopDaemon ==
    ASSUME DaemonInv, Sleep \/ CheckExit \/ Tick \/ CheckReload \/ ClearFlag \/ LoadConfig \/ Proxy
    PROVE  DaemonInv'
<1> USE DEF DaemonInv
<1>1. /\ UNCHANGED <<file, ip, boot, cur, managers, slots, veth, xdp, cfgMap, portMap, exitFlag,
                     handlers, ended>>
      /\ \/ pc = "proxy" /\ pc' = "proxy"
         \/ pc \in Loop /\ pc' \in Loop \cup {"leave"}
  BY Zenon DEF Sleep, CheckExit, Tick, CheckReload, ClearFlag, LoadConfig, Proxy, kernel, flags, Loop
<1>2. /\ loaded' \in RawConfig \cup {None} /\ todo' \subseteq Peer
      /\ pc' \in {"refresh", "apply"} => todo' \subseteq managers
      /\ pc' = "apply" => loaded' \in RawConfig
  BY Zenon DEF Sleep, CheckExit, Tick, CheckReload, ClearFlag, LoadConfig, Proxy, Progress, TypeOK
<1>3. tick' \in 0 .. RefreshTicks /\ quiet' \in 0 .. WatchdogTicks
  <2>1. tick' \in 0 .. RefreshTicks
    BY ConfigTypes DEF Sleep, CheckExit, Tick, CheckReload, ClearFlag, LoadConfig, Proxy, TypeOK
  <2>2. quiet' \in 0 .. WatchdogTicks
    BY ConfigTypes DEF Sleep, CheckExit, Tick, CheckReload, ClearFlag, LoadConfig, Proxy, TypeOK
  <2>3. QED
    BY <2>1, <2>2, Zenon
<1>4. reloadFlag' \in BOOLEAN /\ owed' \in BOOLEAN /\ NoLostSighup'
  <2>1. CASE ClearFlag
    BY <2>1, Zenon DEF ClearFlag, TypeOK, NoLostSighup
  <2>2. CASE LoadConfig
    BY <2>2, Zenon DEF LoadConfig, flags, TypeOK, NoLostSighup
  <2>3. CASE ~ClearFlag /\ ~LoadConfig
    <3>1. pc # "load" /\ reloadFlag' = reloadFlag /\ owed' = owed
      BY <2>3, Zenon DEF Sleep, CheckExit, Tick, CheckReload, Proxy, flags
    <3>2. QED
      BY <3>1, Zenon DEF TypeOK, NoLostSighup
  <2>4. QED
    BY <2>1, <2>2, <2>3, Zenon
<1>5. TypeOK'
  BY <1>1, <1>2, <1>3, <1>4 DEF TypeOK
<1>6. Progress' /\ Parts'
  BY <1>1, <1>2, Zenon DEF Progress, Parts, Setup, Serving, Loop, Building, Valid
<1>7. DispatchesToOwner' /\ ManagersAreWhole' /\ CleanShutdown'
  BY <1>1, Zenon DEF DispatchesToOwner, ManagersAreWhole, CleanShutdown, Loop
<1>8. QED
  BY <1>4, <1>5, <1>6, <1>7, Zenon

\* Refreshing or reloading one peer keeps the invariant: the config map keeps
\* settings for every peer, and the dispatcher's port map is not written.
LEMMA UpdateDaemon ==
    ASSUME DaemonInv, NEW p \in Peer, NEW ok \in BOOLEAN, Refresh(p, ok) \/ Apply(p, ok)
    PROVE  DaemonInv'
<1> USE DEF DaemonInv
<1>1. /\ UNCHANGED <<file, ip, boot, loaded, cur, managers, slots, veth, xdp, portMap, reloadFlag,
                     exitFlag, handlers, tick, quiet, owed, ended>>
      /\ pc \in {"refresh", "apply"} /\ pc' \in {pc, "check", "sleep"}
      /\ p \in todo /\ todo' = todo \ {p} /\ p \in managers
  BY Zenon DEF Refresh, Apply, ForEach, flags, Progress
<1>2. cfgMap' = cfgMap \/ \E s \in Settings : cfgMap' = [cfgMap EXCEPT ![p] = s]
  <2>1. CASE Refresh(p, ok)
    <3>1. [ports |-> boot[p], ip |-> ip] \in Settings
      BY <1>1, <2>1, ConfigTypes, Zenon DEF Refresh, Progress, Serving, Loop, Settings, TypeOK
    <3>2. QED
      BY <2>1, <3>1, Zenon DEF Refresh, UpdateConfig
  <2>2. CASE Apply(p, ok)
    <3>1. p \in DOMAIN loaded => [ports |-> loaded[p], ip |-> ip] \in Settings
      BY <1>1, <2>2, ConfigTypes, Zenon DEF Apply, Progress, Settings, TypeOK
    <3>2. QED
      BY <2>2, <3>1, Zenon DEF Apply, UpdateConfig
  <2>3. QED
    BY <2>1, <2>2, Zenon
<1>3. /\ cfgMap' \in [Peer -> Settings \cup {None}]
      /\ \A x \in Peer : cfgMap[x] # None => cfgMap'[x] # None
  BY <1>2, ConfigTypes DEF TypeOK
<1>4. TypeOK'
  BY <1>1, <1>3 DEF TypeOK, Loop
<1>5. Progress' /\ Parts'
  BY <1>1, Zenon DEF Progress, Parts, Setup, Serving, Loop, Building, Valid
<1>6. ManagersAreWhole'
  BY <1>1, <1>3, Zenon DEF ManagersAreWhole, TypeOK
<1>7. NoLostSighup' /\ DispatchesToOwner' /\ CleanShutdown'
  BY <1>1, Zenon DEF NoLostSighup, DispatchesToOwner, CleanShutdown
<1>8. QED
  BY <1>4, <1>5, <1>6, <1>7, Zenon

\* Every step keeps the invariant.
LEMMA DaemonNext == DaemonInv /\ [Next]_vars => DaemonInv'
<1> SUFFICES ASSUME DaemonInv, [Next]_vars PROVE DaemonInv'
  BY Zenon
<1>1. CASE Step
  BY <1>1, StartDaemon, SetupDaemon, RegisterDaemon, EndDaemon, LoopDaemon, UpdateDaemon, Zenon DEF Step
<1>2. CASE Crash
  BY <1>2, EndDaemon, Zenon
<1>3. CASE \/ \E c \in RawConfig : Edit(c)
           \/ \E a \in Ip : ChangeIp(a)
           \/ Hup \/ Term
           \/ UNCHANGED vars
  BY <1>3, EnvironmentDaemon, Zenon
<1>4. QED
  BY <1>1, <1>2, <1>3, Zenon DEF Next

-----------------------------------------------------------------------------
\* The inductive invariant holds in every reachable state of the daemon.
THEOREM DaemonInvariant == Spec => []DaemonInv
  BY DaemonInit, DaemonNext, PTL DEF Spec

\* The daemon's state keeps its types: in particular no counter leaves its range
\* and the maps hold only peers and settings.
THEOREM TypeCorrect == Spec => []TypeOK
<1>1. DaemonInv => TypeOK
  BY Zenon DEF DaemonInv
<1>2. QED
  BY <1>1, DaemonInvariant, PTL

\* clear_reload_flag() before load_config() loses no SIGHUP, however many arrive
\* and whenever they do.
THEOREM SighupsAreKept == Spec => []NoLostSighup
<1>1. DaemonInv => NoLostSighup
  BY Zenon DEF DaemonInv
<1>2. QED
  BY <1>1, DaemonInvariant, PTL

\* The port map of the dispatcher agrees with the start-up configuration for any
\* number of peers and ports, during set-up, refreshes and reloads.
THEOREM DispatcherAgrees == Spec => []DispatchesToOwner
<1>1. DaemonInv => DispatchesToOwner
  BY Zenon DEF DaemonInv
<1>2. QED
  BY <1>1, DaemonInvariant, PTL

\* No peer is ever served with a part missing, whichever system call failed.
THEOREM ServedPeersAreWhole == Spec => []ManagersAreWhole
<1>1. DaemonInv => ManagersAreWhole
  BY Zenon DEF DaemonInv
<1>2. QED
  BY <1>1, DaemonInvariant, PTL

\* An orderly end removes every veth pair of the configuration and the dispatcher,
\* also after an earlier crash.
THEOREM OrderlyEndIsClean == Spec => []CleanShutdown
<1>1. DaemonInv => CleanShutdown
  BY Zenon DEF DaemonInv
<1>2. QED
  BY <1>1, DaemonInvariant, PTL
=============================================================================

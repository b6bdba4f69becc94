------------------------------- MODULE Daemon -------------------------------
(***************************************************************************)
(* The control side of gutd in eBPF mode: run_daemon() of src/main.rs with *)
(* its signal flags (src/reload.rs), the set-up of one TcBpfManager per    *)
(* configured peer (src/tc/loader.rs, src/tun.rs), the 500 ms loop with    *)
(* its periodic network refresh and its SIGHUP reload, and the tear-down.  *)
(* In userspace mode run_daemon() hands over to the proxy at once.         *)
(*                                                                         *)
(* A configuration is a function from peer names to the ports the peer     *)
(* listens on; the ports stand for everything a reload may change (key,    *)
(* ports, policy).  All peers share one NIC, so one dispatcher serves      *)
(* them.  The kernel keeps veth pairs, and an XDP program attached the     *)
(* legacy way, when the process dies.                                      *)
(***************************************************************************)
EXTENDS Naturals, FiniteSets

CONSTANTS
    Peer, Port,     \* peer names; UDP ports
    RawConfig,      \* what the administrator may write to the config file
    Ip,             \* addresses the NIC may have
    None,
    UserspaceOnly,  \* the values userspace_only may have
    MayFail,        \* whether system calls may fail
    MaxPeers,       \* MAX_PEERS: programs a dispatcher can hold
    RefreshTicks,   \* NET_REFRESH_TICKS
    WatchdogTicks   \* WatchdogSec of the installed unit, in loop passes

ASSUME ConfigAssumption ==
    /\ \A c \in RawConfig : DOMAIN c \subseteq Peer /\ \A p \in DOMAIN c : c[p] \subseteq Port
    /\ None \notin Peer /\ None \notin Ip /\ None \notin RawConfig
    /\ None \notin [ports : SUBSET Port, ip : Ip]
    /\ UserspaceOnly \subseteq BOOLEAN /\ MayFail \in BOOLEAN

ASSUME LimitAssumption ==
    /\ MaxPeers \in Nat
    /\ RefreshTicks \in Nat \ {0}
    /\ WatchdogTicks \in Nat \ {0}

VARIABLES
    file,        \* the config file
    ip,          \* the NIC's address
    pc,          \* where run_daemon() is
    boot,        \* run_daemon's `config`, read once at the start
    loaded,      \* the last configuration load_config() returned
    cur,         \* the peer being set up, or None
    todo,        \* peers the current for loop has still to visit
    managers,    \* peers with a TcBpfManager
    slots,       \* the dispatcher's next_peer_idx
    veth,        \* peers whose veth pair exists
    xdp,         \* whether a dispatcher is attached to the NIC
    cfgMap,      \* config_map of each peer: [ports, ip], or None
    portMap,     \* the dispatcher's port_map: port -> peer, or None
    reloadFlag, exitFlag,  \* RELOAD_FLAG, EXIT_FLAG
    handlers,    \* whether the signal handlers are installed
    tick,        \* net_refresh_tick
    quiet,       \* passes since systemd last heard WATCHDOG=1
    owed,        \* history: a SIGHUP has come and nothing was read since
    ended        \* history: how the last process ended

kernel == <<veth, xdp, cfgMap, portMap>>
flags == <<reloadFlag, exitFlag, handlers>>
vars == <<file, ip, pc, boot, loaded, todo, cur, managers, slots, kernel, flags, tick,
          quiet, owed, ended>>

\* parse_config() refuses a file without peers and a port used by two of them.
Valid(c) ==
    /\ DOMAIN c # {}
    /\ \A p, q \in DOMAIN c : p # q => c[p] \cap c[q] = {}

Settings == [ports : SUBSET Port, ip : Ip]
NoPorts == [q \in Port |-> None]
NoSettings == [p \in Peer |-> None]

Setup == {"veth", "dispatch", "program", "register"}
Loop == {"sleep", "exit", "tick", "refresh", "check", "clear", "load", "apply"}

TypeOK ==
    /\ file \in RawConfig /\ ip \in Ip
    /\ pc \in {"down", "start", "proxy", "leave"} \cup Setup \cup Loop
    /\ boot \in RawConfig \cup {None} /\ loaded \in RawConfig \cup {None}
    /\ cur \in Peer \cup {None} /\ todo \subseteq Peer /\ managers \subseteq Peer /\ veth \subseteq Peer
    /\ slots \in Nat /\ xdp \in BOOLEAN
    /\ cfgMap \in [Peer -> Settings \cup {None}]
    /\ portMap \in [Port -> Peer \cup {None}]
    /\ reloadFlag \in BOOLEAN /\ exitFlag \in BOOLEAN /\ handlers \in BOOLEAN
    /\ tick \in 0 .. RefreshTicks /\ quiet \in 0 .. WatchdogTicks
    /\ owed \in BOOLEAN
    /\ ended \in {"never", "clean", "failed", "killed", "hup"}

Init ==
    /\ file \in RawConfig /\ ip \in Ip
    /\ pc = "down"
    /\ boot = None /\ loaded = None
    /\ todo = {} /\ cur = None /\ managers = {} /\ slots = 0
    /\ veth = {} /\ xdp = FALSE
    /\ cfgMap = NoSettings /\ portMap = NoPorts
    /\ reloadFlag = FALSE /\ exitFlag = FALSE /\ handlers = FALSE
    /\ tick = 0 /\ quiet = 0
    /\ owed = FALSE /\ ended = "never"

-----------------------------------------------------------------------------
(* The end of a process.                                                   *)

\* What every end has in common: the maps go with the file descriptors.
Gone(how) ==
    /\ pc' = "down"
    /\ todo' = {} /\ cur' = None /\ managers' = {} /\ slots' = 0
    /\ cfgMap' = NoSettings /\ portMap' = NoPorts
    /\ reloadFlag' = FALSE /\ exitFlag' = FALSE /\ handlers' = FALSE
    /\ tick' = 0 /\ quiet' = 0
    /\ owed' = FALSE /\ ended' = how
    /\ loaded' = None
    /\ UNCHANGED <<file, ip, boot>>

\* The dispatcher is created after the veth pair of the first peer.
HasDispatcher == pc \notin {"veth", "dispatch"} \/ managers # {}

\* run_daemon() returns: each TcBpfManager deletes its veth pair, and then the
\* dispatcher, if there is one, detaches.  A peer that is only half set up has no
\* manager yet.
Return(how) ==
    /\ Gone(how)
    /\ veth' = veth \ managers
    /\ xdp' = (xdp /\ ~HasDispatcher)

\* The process is killed: a bpf_link goes with it, a legacy attachment stays.
Killed(how) ==
    /\ Gone(how)
    /\ xdp' \in {FALSE, xdp}
    /\ UNCHANGED veth

-----------------------------------------------------------------------------
(* Start and set-up.                                                       *)

\* main() reads the file; a bad one ends the process before run_daemon().
Start ==
    /\ pc = "down"
    /\ Valid(file)
    /\ pc' = "start"
    /\ boot' = file /\ loaded' = file
    /\ UNCHANGED <<file, ip, todo, cur, managers, slots, kernel, flags, tick, quiet, owed, ended>>

\* Userspace mode goes to the proxy; eBPF mode installs the handlers and starts
\* on the first peer.
InstallHandlers(userspace) ==
    /\ pc = "start"
    /\ IF userspace
         THEN pc' = "proxy" /\ UNCHANGED <<handlers, todo>>
         ELSE pc' = "veth" /\ handlers' = TRUE /\ todo' = DOMAIN boot
    /\ UNCHANGED <<file, ip, boot, loaded, cur, managers, slots, kernel, reloadFlag, exitFlag,
                   tick, quiet, owed, ended>>

\* create_veth_pair(): a pair left by an earlier process is deleted first.
SetupVeth(p) ==
    /\ pc = "veth"
    /\ p \in todo
    /\ cur' = p /\ todo' = todo \ {p}
    /\ veth' = veth \cup {p}
    /\ pc' = "dispatch"
    /\ UNCHANGED <<file, ip, boot, loaded, managers, slots, xdp, cfgMap, portMap, flags,
                   tick, quiet, owed, ended>>

\* XdpDispatcher::new() for the first peer of the NIC.
SetupDispatcher ==
    /\ pc = "dispatch"
    /\ xdp' = TRUE
    /\ pc' = "program"
    /\ UNCHANGED <<file, ip, boot, loaded, todo, cur, managers, slots, veth, cfgMap, portMap,
                   flags, tick, quiet, owed, ended>>

\* build_gut_config() and the egress program: the config map gets the peer's ports
\* and the address the NIC has now.
SetupProgram ==
    /\ pc = "program"
    /\ cfgMap' = [cfgMap EXCEPT ![cur] = [ports |-> boot[cur], ip |-> ip]]
    /\ pc' = "register"
    /\ UNCHANGED <<file, ip, boot, loaded, todo, cur, managers, slots, veth, xdp, portMap,
                   flags, tick, quiet, owed, ended>>

\* The ingress program and register_peer(); the manager exists from here on.
SetupRegister ==
    /\ pc = "register"
    /\ slots < MaxPeers
    /\ slots' = slots + 1
    /\ portMap' = [q \in Port |-> IF q \in boot[cur] THEN cur ELSE portMap[q]]
    /\ managers' = managers \cup {cur}
    /\ cur' = None
    /\ pc' = IF todo = {} THEN "sleep" ELSE "veth"
    /\ UNCHANGED <<file, ip, boot, loaded, todo, veth, xdp, cfgMap, flags, tick, quiet,
                   owed, ended>>

\* Variant of SetupFail that goes on to the next peer.
SetupFailIgnored ==
    /\ pc \in Setup \ {"veth"}
    /\ MayFail
    /\ managers' = managers \cup {cur}
    /\ cur' = None
    /\ pc' = IF todo = {} THEN "sleep" ELSE "veth"
    /\ UNCHANGED <<file, ip, boot, loaded, todo, slots, kernel, flags, tick, quiet, owed,
                   ended>>

\* TcBpfManager::new() returns an error, and with it run_daemon().
SetupFail ==
    /\ pc \in Setup
    /\ MayFail \/ (pc = "register" /\ slots >= MaxPeers)
    /\ Return("failed")

-----------------------------------------------------------------------------
(* The 500 ms loop.                                                        *)

\* Sleep, and ping the watchdog.
Sleep ==
    /\ pc = "sleep"
    /\ pc' = "exit"
    /\ quiet' = 0
    /\ UNCHANGED <<file, ip, boot, loaded, todo, cur, managers, slots, kernel, flags, tick,
                   owed, ended>>

\* Leave the loop when EXIT_FLAG is set.
CheckExit ==
    /\ pc = "exit"
    /\ pc' = IF exitFlag THEN "leave" ELSE "tick"
    /\ UNCHANGED <<file, ip, boot, loaded, todo, cur, managers, slots, kernel, flags, tick,
                   quiet, owed, ended>>

\* Count towards the network refresh.
Tick ==
    /\ pc = "tick"
    /\ IF tick + 1 >= RefreshTicks
         THEN tick' = 0 /\ pc' = "refresh" /\ todo' = managers
         ELSE tick' = tick + 1 /\ pc' = "check" /\ UNCHANGED todo
    /\ UNCHANGED <<file, ip, boot, loaded, cur, managers, slots, kernel, flags, quiet, owed,
                   ended>>

\* Variant of UpdateConfig that keeps the address it resolved at the start.
UpdateConfigOldIp(p, config, ok) ==
    cfgMap' = IF ok THEN [cfgMap EXCEPT ![p] = [ports |-> config[p], ip |-> cfgMap[p].ip]]
              ELSE cfgMap

\* update_config(): rebuild the settings and write the config map; an error leaves
\* the map alone.  The dispatcher is not involved.
UpdateConfig(p, config, ok) ==
    cfgMap' = IF ok THEN [cfgMap EXCEPT ![p] = [ports |-> config[p], ip |-> ip]] ELSE cfgMap

\* One turn of a loop over the managers that leads to `next`.
ForEach(p, next) ==
    /\ p \in todo
    /\ todo' = todo \ {p}
    /\ pc' = IF todo = {p} THEN next ELSE pc
    /\ UNCHANGED <<file, ip, boot, loaded, cur, managers, slots, veth, xdp, portMap, flags,
                   tick, quiet, owed, ended>>

\* The periodic refresh of one peer, from the configuration read at the start.
Refresh(p, ok) ==
    /\ pc = "refresh"
    /\ ok \/ MayFail
    /\ ForEach(p, "check")
    /\ UpdateConfig(p, boot, ok)

\* Variant of CheckReload with the test the wrong way round.
CheckReloadInverted ==
    /\ pc = "check"
    /\ pc' = IF reloadFlag THEN "sleep" ELSE "clear"
    /\ UNCHANGED <<file, ip, boot, loaded, todo, cur, managers, slots, kernel, flags, tick,
                   quiet, owed, ended>>

\* should_reload().
CheckReload ==
    /\ pc = "check"
    /\ pc' = IF reloadFlag THEN "clear" ELSE "sleep"
    /\ UNCHANGED <<file, ip, boot, loaded, todo, cur, managers, slots, kernel, flags, tick,
                   quiet, owed, ended>>

\* clear_reload_flag(), before the file is read.
ClearFlag ==
    /\ pc = "clear"
    /\ reloadFlag' = FALSE
    /\ pc' = "load"
    /\ UNCHANGED <<file, ip, boot, loaded, todo, cur, managers, slots, kernel, exitFlag,
                   handlers, tick, quiet, owed, ended>>

\* load_config(): a bad file leaves everything as it was.
LoadConfig ==
    /\ pc = "load"
    /\ IF Valid(file)
         THEN loaded' = file /\ todo' = managers /\ pc' = "apply"
         ELSE pc' = "sleep" /\ UNCHANGED <<loaded, todo>>
    /\ owed' = FALSE
    /\ UNCHANGED <<file, ip, boot, cur, managers, slots, kernel, flags, tick, quiet, ended>>

\* Variant of Apply that clears the flag when the reload is complete.
ApplyThenClear(p, ok) ==
    /\ pc = "apply"
    /\ ok \/ MayFail
    /\ p \in todo
    /\ todo' = todo \ {p}
    /\ pc' = IF todo = {p} THEN "sleep" ELSE pc
    /\ reloadFlag' = (todo # {p} /\ reloadFlag)
    /\ UpdateConfig(p, loaded, ok /\ p \in DOMAIN loaded)
    /\ UNCHANGED <<file, ip, boot, loaded, cur, managers, slots, veth, xdp, portMap,
                   exitFlag, handlers, tick, quiet, owed, ended>>

\* Push the new settings of one peer; one the new file no longer names is skipped.
Apply(p, ok) ==
    /\ pc = "apply"
    /\ ok \/ MayFail
    /\ ForEach(p, "sleep")
    /\ UpdateConfig(p, loaded, ok /\ p \in DOMAIN loaded)

\* Variant of Leave that calls exit(), which runs no destructors.
LeaveByExit ==
    /\ pc = "leave"
    /\ Killed("clean")

\* The loop was left: run_daemon() returns.
Leave ==
    /\ pc = "leave"
    /\ Return("clean")

\* userspace::run(): time passes and nobody pings.
Proxy ==
    /\ pc = "proxy"
    /\ quiet < WatchdogTicks
    /\ quiet' = quiet + 1
    /\ UNCHANGED <<file, ip, pc, boot, loaded, todo, cur, managers, slots, kernel, flags, tick,
                   owed, ended>>

-----------------------------------------------------------------------------
(* The environment.                                                        *)

daemon == <<pc, boot, loaded, todo, cur, managers, slots, kernel, tick, quiet, ended>>

\* The administrator rewrites the file.
Edit(c) ==
    /\ file' = c
    /\ UNCHANGED <<ip, daemon, flags, owed>>

\* The NIC gets another address.
ChangeIp(a) ==
    /\ ip' = a
    /\ UNCHANGED <<file, daemon, flags, owed>>

\* SIGHUP: the handler sets RELOAD_FLAG; without a handler it ends the process.
Hup ==
    /\ pc # "down"
    /\ IF handlers
         THEN /\ reloadFlag' = TRUE
              /\ owed' = TRUE
              /\ UNCHANGED <<file, ip, daemon, exitFlag, handlers>>
         ELSE Killed("hup")

\* SIGINT, SIGTERM.
Term ==
    /\ pc # "down"
    /\ IF handlers
         THEN /\ exitFlag' = TRUE
              /\ UNCHANGED <<file, ip, daemon, reloadFlag, handlers, owed>>
         ELSE Killed("killed")

\* SIGKILL, or a crash of the host process.
Crash ==
    /\ pc # "down"
    /\ Killed("killed")

Step ==
    \/ Start
    \/ \E userspace \in UserspaceOnly : InstallHandlers(userspace)
    \/ \E p \in Peer : SetupVeth(p)
    \/ SetupDispatcher \/ SetupProgram \/ SetupRegister \/ SetupFail
    \/ Sleep \/ CheckExit \/ Tick
    \/ \E p \in Peer, ok \in BOOLEAN : Refresh(p, ok)
    \/ CheckReload \/ ClearFlag \/ LoadConfig
    \/ \E p \in Peer, ok \in BOOLEAN : Apply(p, ok)
    \/ Leave \/ Proxy

Next ==
    \/ Step
    \/ \E c \in RawConfig : Edit(c)
    \/ \E a \in Ip : ChangeIp(a)
    \/ Hup \/ Term \/ Crash

Spec == Init /\ [][Next]_vars

\* A process that runs is scheduled, and resolving the addresses of a peer does not
\* fail for ever.  Nobody has to start a process that has ended.
FairSpec ==
    /\ Spec
    /\ WF_vars(pc # "down" /\ Step)
    /\ \A p \in Peer : SF_vars(Refresh(p, TRUE))

-----------------------------------------------------------------------------
\* A SIGHUP that found its handler is never lost: until a file is read that is at
\* least as new as the signal, the flag is up or load_config() comes next.
NoLostSighup ==
    owed => reloadFlag \/ pc = "load"

\* The dispatcher hands each port to the peer the start-up configuration gave it
\* to, and no other port to anyone: a reload leaves port_map as it is.
DispatchesToOwner ==
    /\ \A p \in managers : \A q \in boot[p] : portMap[q] = p
    /\ \A q \in Port : portMap[q] # None => portMap[q] \in managers /\ q \in boot[portMap[q]]

\* A daemon that was told to stop leaves no veth pair of its peers and no XDP
\* program behind, whatever an earlier crash had left.
CleanShutdown ==
    pc = "down" /\ ended = "clean" => veth \cap DOMAIN boot = {} /\ ~xdp

\* Every peer that is being served has all its parts: a veth pair, settings, and an
\* attached dispatcher, whatever failed while another peer was set up.
ManagersAreWhole ==
    \A p \in managers : p \in veth /\ p \in DOMAIN boot /\ cfgMap[p] # None /\ xdp

\* Each SIGHUP leads to the file being read, unless the process ends.
SighupIsServed == owed ~> ~owed

\* When the NIC's address has changed, the config maps follow without a SIGHUP, as
\* long as the daemon keeps running.
AddressFollows ==
    \A a \in Ip : <>[](ip = a /\ pc \in Loop) => <>[](\A p \in managers : cfgMap[p].ip = a)

\* What a reload has pushed stays: between two passes every peer the last loaded
\* file names runs with that file's settings.
ReloadSticks ==
    pc = "sleep" => \A p \in managers \cap DOMAIN loaded : cfgMap[p].ports = loaded[p]
=============================================================================

----------------------------- MODULE MqttClient -----------------------------
(***************************************************************************)
(* The connection of UnifiedMqttService (main/phone_os/                    *)
(* unified_mqtt_service.cc): how its worker bootstraps credentials, attaches *)
(* an SDK client, replaces it after an authentication rejection, a TCP      *)
(* failure or a change of network, and how Stop and a restart end it.  The   *)
(* cloud configuration of device_cloud_config.cc is what the worker loads    *)
(* and the attach fence compares; the broker, HTTP, Wi-Fi and esp-mqtt are   *)
(* external.  One step is one mqtt_mutex_ section, one SDK or HTTP call.     *)
(*                                                                         *)
(* A snapshot of the configuration is its server address, whether the device *)
(* was bound, and whether its credential still is the latest one issued.     *)
(***************************************************************************)
EXTENDS Naturals, FiniteSets

CONSTANTS
    Budgets,        \* how often what is rare may happen, one per behaviour: [Rare -> Nat]
    None

ASSUME NoneAssumption ==
    None \notin [gen : Nat, addr : Nat, fresh : BOOLEAN, route : Nat]

\* networks: GOT_IP events that change the station's route; moves: of the server to
\* another address, then or alone; rotations: of the credential by voice, OTA or
\* renewal; drops: of a link to a reachable server; voice: sessions, during which
\* recovery is deferred; unbinds: by the user; faults: of HTTP, allocation or the SDK.
Rare == {"networks", "moves", "rotations", "drops", "voice", "unbinds", "faults"}

VARIABLES
    cfg,            \* persisted: [addr, bound]
    server,         \* the address at which the server can be reached now
    online,         \* the station has an address
    voice,          \* a voice session is active
    left,           \* what remains of the budget
    started,        \* started_
    stopper,        \* where the user's task stands in Stop
    worker,         \* the MQTT worker: program counter and locals
    flags,          \* forceRefresh, reset, connecting, pending, restart, retryWait
    route,          \* network_route_generation_ and what belongs to it
    recovery,       \* auth_refresh_generation_ and the transport recovery policy
    client,         \* client_: None, or [gen, addr, fresh, route]
    generation,     \* client_generation_
    connected,      \* connected_
    config,         \* config_: the address of the last attached client, or None
    handles,        \* esp-mqtt: clients initialised and not yet destroyed
    failed          \* history: the route whose round failed, and whether it left no client

connectionVars ==
    <<cfg, server, online, voice, left, started, stopper, worker, flags, route,
      recovery, client, generation, connected, config, handles, failed>>
world == <<server, online, voice>>

NoSnap     == [addr |-> 0, fresh |-> FALSE, bound |-> FALSE]
IdleWorker == [pc |-> "idle", snap |-> NoSnap, route |-> 0, viaRoute |-> FALSE,
               from |-> "connect", mine |-> 0]
NoStop     == [pc |-> "none", mine |-> 0]
Exited     == [IdleWorker EXCEPT !.pc = "exited"]
NoFlags    == [forceRefresh |-> FALSE, reset |-> FALSE, connecting |-> FALSE,
               pending |-> FALSE, restart |-> FALSE, retryWait |-> FALSE]
NoRoute    == [valid |-> FALSE, now |-> 0, scheduled |-> FALSE, refresh |-> 0]
NoRecovery == [auth |-> 0, failures |-> 0, transport |-> FALSE, cooling |-> FALSE]

NoFailure  == [route |-> 0, orphan |-> FALSE]

Spend(what) == left[what] > 0 /\ left' = [left EXCEPT ![what] = @ - 1]
Fault == Spend("faults")
Snapshot == [addr |-> cfg.addr, fresh |-> TRUE, bound |-> cfg.bound]

(***************************************************************************)
(* Authority: another address is the same authority only while a route      *)
(* change is being served (HasSamePinnedAuthority).                         *)
(***************************************************************************)
SameAuthority(addr) == config # None /\ (config = addr \/ route.scheduled)

\* esp_restart: everything but the configuration is gone, and the service starts.
Reboot ==
    /\ worker' = IdleWorker /\ stopper' = NoStop /\ started' = TRUE
    /\ flags' = [NoFlags EXCEPT !.forceRefresh = TRUE, !.connecting = online]
    /\ route' = [NoRoute EXCEPT !.valid = online]
    /\ recovery' = NoRecovery /\ client' = None /\ generation' = 0
    /\ connected' = FALSE /\ config' = None /\ handles' = {} /\ failed' = NoFailure
    /\ voice' = FALSE /\ UNCHANGED <<cfg, server, online>>

(***************************************************************************)
(* DetachClientLocked, FinishCredentialRefresh, RetryClientReplacement.     *)
(***************************************************************************)
\* Bug: the client that is taken away to be destroyed stays attached.
DetachKeeps ==
    /\ UNCHANGED <<client, recovery>> /\ connected' = FALSE
    /\ generation' = generation + 1

Detach ==
    /\ client' = None /\ connected' = FALSE
    /\ generation' = generation + 1
    /\ recovery' = [recovery EXCEPT !.auth = IF @ = generation THEN 0 ELSE @]

\* Bug: finishing a round forgets a network that changed meanwhile.
RoutePendingNever == FALSE

\* Only the route and the rejection that this round served are consumed.
RoutePending == started /\ route.scheduled /\ route.refresh # route.now
AuthPending  == started /\ client # None /\ recovery.auth = client.gen

FinishedFlags == [flags EXCEPT !.pending = FALSE, !.retryWait = FALSE,
                               !.reset = RoutePending \/ AuthPending]

FinishCredentialRefresh ==
    /\ recovery' = [recovery EXCEPT !.transport = FALSE]
    /\ route' = IF RoutePending THEN route
                ELSE [route EXCEPT !.scheduled = FALSE, !.refresh = 0]

StopAt(pc) == stopper' = [stopper EXCEPT !.pc = pc]
Goto(pc) == worker' = [worker EXCEPT !.pc = pc]
Return   == worker' = IdleWorker
At(pc)   == worker.pc = pc

RetryLater ==
    /\ flags' = [flags EXCEPT !.retryWait = TRUE]
    /\ Return
    /\ UNCHANGED <<recovery, route>>

\* A round that failed: nothing is promised for the route it was planned for.
RoundFailed ==
    /\ FinishCredentialRefresh /\ flags' = FinishedFlags /\ Return
    /\ failed' = [route  |-> IF worker.viaRoute THEN worker.route ELSE failed.route,
                  orphan |-> client = None]

(***************************************************************************)
(* MaybeScheduleTransportRecovery.                                          *)
(***************************************************************************)
TransportDue ==
    /\ started /\ client # None /\ ~connected
    /\ recovery.failures = 3 /\ ~flags.reset /\ ~recovery.cooling

ScheduleTransportRecovery ==
    /\ At("idle") /\ TransportDue /\ ~voice
    /\ flags' = [flags EXCEPT !.reset = TRUE]
    /\ recovery' = [recovery EXCEPT !.transport = TRUE]
    /\ UNCHANGED <<cfg, world, left, started, stopper, worker, route, client,
                   generation, connected, config, handles, failed>>

(***************************************************************************)
(* RefreshCredentials.                                                      *)
(***************************************************************************)
RefreshBegin ==
    /\ At("idle") /\ started /\ flags.reset /\ ~voice
    /\ IF flags.restart
       THEN Reboot /\ UNCHANGED left
       ELSE /\ Goto(IF flags.pending THEN "apply" ELSE "plan")
            /\ UNCHANGED <<cfg, world, left, started, stopper, flags, route, recovery,
                           client, generation, connected, config, handles, failed>>

\* After the refresh delay: what this round is for, or that it is not needed.
RefreshPlan ==
    /\ At("plan")
    /\ \/ /\ ~started
          /\ flags' = [flags EXCEPT !.reset = FALSE] /\ Return
          /\ UNCHANGED <<route, recovery>>
       \/ /\ started /\ voice
          /\ Return /\ UNCHANGED <<flags, route, recovery>>
       \/ /\ started /\ ~voice
          /\ recovery.transport /\ ~route.scheduled /\ connected
          /\ flags' = [flags EXCEPT !.reset = FALSE] /\ Return
          /\ recovery' = [recovery EXCEPT !.transport = FALSE]
          /\ UNCHANGED route
       \/ /\ started /\ ~voice
          /\ ~(recovery.transport /\ ~route.scheduled /\ connected)
          /\ recovery' = [recovery EXCEPT !.auth = 0, !.failures = 0, !.cooling = TRUE]
          /\ route' = [route EXCEPT !.refresh = IF route.scheduled THEN route.now ELSE @]
          /\ worker' = [worker EXCEPT !.pc = "load", !.viaRoute = route.scheduled,
                                      !.route = route.now]
          /\ UNCHANGED flags
    /\ UNCHANGED <<cfg, world, left, started, stopper, client, generation, connected,
                   config, handles, failed>>

RefreshLoad ==
    /\ At("load")
    /\ \/ /\ Fault /\ RoundFailed
       \/ /\ ~cfg.bound /\ RoundFailed /\ UNCHANGED left
       \/ /\ cfg.bound /\ Goto("http")
          /\ UNCHANGED <<left, flags, route, recovery, failed>>
    /\ UNCHANGED <<cfg, world, started, stopper, client, generation, connected,
                   config, handles>>

\* Refresh rotates the credential and learns the server's current address.
Rotated(w) == [w EXCEPT !.snap.fresh = FALSE]
Aged == client' = IF client = None THEN None ELSE [client EXCEPT !.fresh = FALSE]

RefreshHttp ==
    /\ At("http")
    /\ \/ /\ cfg.bound
          /\ cfg' = [cfg EXCEPT !.addr = server]
          /\ Aged /\ Goto("rotated")
          /\ UNCHANGED <<left, flags, route, recovery, failed>>
       \/ /\ ~cfg.bound /\ RoundFailed /\ UNCHANGED <<cfg, client, left>>
       \/ /\ Fault /\ RoundFailed /\ UNCHANGED <<cfg, client>>
    /\ UNCHANGED <<world, started, stopper, generation, connected, config, handles>>

\* The result is kept unless the network changed under the request.
RefreshRotated ==
    /\ At("rotated")
    /\ IF worker.viaRoute /\ worker.route # route.now
       THEN Return /\ UNCHANGED flags
       ELSE Goto("apply") /\ flags' = [flags EXCEPT !.pending = TRUE]
    /\ UNCHANGED <<cfg, world, left, started, stopper, route, recovery, client,
                   generation, connected, config, handles, failed>>

Apply ==
    /\ At("apply")
    /\ \/ /\ ~started \/ voice \/ flags.retryWait
          /\ Return /\ UNCHANGED flags
       \/ /\ started /\ ~voice /\ ~flags.retryWait
          /\ route.scheduled /\ route.refresh # route.now
          /\ Return /\ flags' = [flags EXCEPT !.pending = FALSE]
       \/ /\ started /\ ~voice /\ ~flags.retryWait
          /\ ~(route.scheduled /\ route.refresh # route.now)
          /\ worker' = [worker EXCEPT !.pc = "decide", !.route = route.now]
          /\ UNCHANGED flags
    /\ UNCHANGED <<cfg, world, left, started, stopper, route, recovery, client,
                   generation, connected, config, handles, failed>>

\* The persisted configuration is read again: it may be unusable by now, or name
\* another authority, which only a restart may take over.
RefreshDecide ==
    /\ At("decide")
    /\ \/ /\ Fault /\ RetryLater
          /\ UNCHANGED <<cfg, world, started, stopper, client, generation, connected,
                         config, handles, failed>>
       \/ /\ ~cfg.bound /\ Goto("isolate")
          /\ UNCHANGED <<cfg, world, left, started, stopper, flags, route, recovery,
                         client, generation, connected, config, handles, failed>>
       \/ /\ cfg.bound /\ config # None /\ ~SameAuthority(cfg.addr) /\ started
          /\ \/ ~voice /\ Reboot /\ UNCHANGED left
             \/ /\ voice /\ Return
                /\ flags' = [flags EXCEPT !.restart = TRUE]
                /\ UNCHANGED <<cfg, world, left, started, stopper, route, recovery, client,
                               generation, connected, config, handles, failed>>
       \/ /\ cfg.bound /\ ~(config # None /\ ~SameAuthority(cfg.addr) /\ started)
          /\ Goto("retire")
          /\ UNCHANGED <<cfg, world, left, started, stopper, flags, route, recovery,
                         client, generation, connected, config, handles, failed>>

\* RetireClientForRefresh: the owner is detached under the lock, destroyed outside.
Retire ==
    /\ At("retire") \/ At("isolate")
    /\ \/ ~started /\ At("retire") /\ Return
          /\ UNCHANGED <<recovery, client, generation, connected>>
       \/ /\ client = None \/ ~started
          /\ started \/ At("isolate")
          /\ Goto(IF At("retire") THEN "reload" ELSE "isolated")
          /\ UNCHANGED <<recovery, client, generation, connected>>
       \/ /\ started /\ client # None
          /\ Detach
          /\ worker' = [worker EXCEPT !.mine = client.gen,
                                      !.pc = IF At("retire") THEN "destroy" ELSE "isolating"]
    /\ UNCHANGED <<cfg, world, left, started, stopper, flags, route, config, handles,
                   failed>>

\* Bug: a worker that finds the service stopping leaves its client to Stop.
DestroyRetiredLeaks ==
    /\ At("destroy") \/ At("isolating")
    /\ handles' = IF started THEN handles \ {worker.mine} ELSE handles
    /\ IF At("isolating") THEN Goto("isolated")
       ELSE IF ~started \/ voice THEN Return ELSE Goto("reload")
    /\ UNCHANGED <<cfg, world, left, started, stopper, flags, route, recovery, client,
                   generation, connected, config, failed>>

\* DestroyClient: an unconfirmed stop isolates the device by a restart.
DestroyRetired ==
    /\ At("destroy") \/ At("isolating")
    /\ \/ Fault /\ Reboot
       \/ /\ handles' = handles \ {worker.mine}
          /\ IF At("isolating") THEN Goto("isolated")
             ELSE IF ~started \/ voice THEN Return ELSE Goto("reload")
          /\ UNCHANGED <<cfg, world, left, started, stopper, flags, route, recovery,
                         client, generation, connected, config, failed>>

\* Nothing usable is persisted: offline until the next network event or binding.
Isolated ==
    /\ At("isolated")
    /\ FinishCredentialRefresh /\ Return
    /\ flags' = [FinishedFlags EXCEPT !.connecting = FALSE]
    /\ UNCHANGED <<cfg, world, left, started, stopper, client, generation, connected,
                   config, handles, failed>>

RefreshReload ==
    /\ At("reload")
    /\ \/ Fault /\ RetryLater
       \/ /\ ~cfg.bound \/ (config # None /\ ~SameAuthority(cfg.addr))
          /\ RetryLater /\ UNCHANGED left
       \/ /\ cfg.bound /\ (config = None \/ SameAuthority(cfg.addr))
          /\ worker' = [worker EXCEPT !.pc = "create", !.snap = Snapshot, !.from = "refresh"]
          /\ UNCHANGED <<left, flags, route, recovery>>
    /\ UNCHANGED <<cfg, world, started, stopper, client, generation, connected, config,
                   handles, failed>>

(***************************************************************************)
(* RunConnection and Connect: the first connection of a boot, and the one   *)
(* after an isolation.                                                      *)
(***************************************************************************)
RunConnection ==
    /\ At("idle") /\ started /\ flags.connecting /\ ~flags.pending /\ ~flags.restart
    /\ IF client # None
       THEN flags' = [flags EXCEPT !.connecting = FALSE] /\ UNCHANGED worker
       ELSE Goto("connect") /\ UNCHANGED flags
    /\ UNCHANGED <<cfg, world, left, started, stopper, route, recovery, client,
                   generation, connected, config, handles, failed>>

ConnectLoad ==
    /\ At("connect")
    /\ route' = [route EXCEPT !.refresh = IF route.scheduled THEN route.now ELSE @]
    /\ \/ /\ Fault
          /\ Goto("wait") /\ UNCHANGED flags
       \/ /\ worker' = [worker EXCEPT
                !.pc = IF flags.forceRefresh \/ route.scheduled \/ ~cfg.bound
                       THEN "connectHttp" ELSE "create",
                !.snap = Snapshot, !.from = "connect",
                !.route = route.now, !.viaRoute = route.scheduled]
          /\ flags' = [flags EXCEPT !.forceRefresh = FALSE]
          /\ UNCHANGED left
    /\ UNCHANGED <<cfg, world, started, stopper, recovery, client, generation, connected,
                   config, handles, failed>>

\* A failed bootstrap falls back on the credentials loaded before it.
ConnectHttp ==
    /\ At("connectHttp")
    /\ \/ /\ cfg.bound
          /\ cfg' = [cfg EXCEPT !.addr = server]
          /\ worker' = [worker EXCEPT !.pc = "create", 
                !.snap = [addr |-> server, fresh |-> TRUE, bound |-> TRUE]]
          /\ UNCHANGED left
       \/ /\ Fault
          /\ Goto(IF worker.snap.bound THEN "create" ELSE "wait")
          /\ UNCHANGED cfg
       \/ /\ ~cfg.bound
          /\ Goto(IF worker.snap.bound THEN "create" ELSE "wait")
          /\ UNCHANGED <<cfg, left>>
    /\ UNCHANGED <<world, started, stopper, flags, route, recovery, client, generation,
                   connected, config, handles, failed>>

ConnectAgain ==
    /\ At("wait")
    /\ IF started /\ client = None
       THEN Goto("connect") /\ UNCHANGED flags
       ELSE Return /\ flags' = [flags EXCEPT !.connecting = FALSE]
    /\ UNCHANGED <<cfg, world, left, started, stopper, route, recovery, client,
                   generation, connected, config, handles, failed>>

(***************************************************************************)
(* StartClient, under client_api_mutex_ from ClientCreate to ClientStart.   *)
(***************************************************************************)
HoldsApi == worker.pc \in {"init", "attach", "start"}

\* Bug: a replacement that could not be started ends the request.
StartFailedGivesUp ==
    IF worker.from = "refresh"
    THEN flags' = FinishedFlags /\ Return
    ELSE Goto("wait") /\ UNCHANGED flags

\* What the caller of StartClient does when it returns false.
StartFailed ==
    IF worker.from = "refresh"
    THEN /\ flags' = [flags EXCEPT !.retryWait = @ \/ started]
         /\ Return
    ELSE Goto("wait") /\ UNCHANGED flags

ClientCreate ==
    /\ At("create")
    /\ IF started /\ client = None /\ worker.snap.bound
       THEN /\ generation' = generation + 1
            /\ worker' = [worker EXCEPT !.pc = "init", !.mine = generation']
            /\ UNCHANGED flags
       ELSE StartFailed /\ UNCHANGED generation
    /\ UNCHANGED <<cfg, world, left, started, stopper, route, recovery, client, connected,
                   config, handles, failed>>

ClientInit ==
    /\ At("init")
    /\ \/ /\ Goto("attach") /\ handles' = handles \cup {worker.mine}
          /\ UNCHANGED <<left, flags>>
       \/ Fault /\ StartFailed /\ UNCHANGED handles
    /\ UNCHANGED <<cfg, world, started, stopper, route, recovery, client, generation,
                   connected, config, failed>>

\* ApplyIfMqttConfigCurrent and the conditions of its callback.
Fence ==
    /\ worker.snap.fresh /\ worker.snap.addr = cfg.addr /\ cfg.bound
    /\ started /\ client = None /\ generation = worker.mine
    /\ worker.route = route.now

ClientAttach ==
    /\ At("attach")
    /\ IF Fence
       THEN /\ client' = [gen |-> worker.mine, addr |-> worker.snap.addr, fresh |-> TRUE,
                          route |-> worker.route]
            /\ config' = worker.snap.addr
            /\ failed' = [failed EXCEPT !.orphan = FALSE]
            /\ Goto("start")
            /\ UNCHANGED <<flags, handles>>
       ELSE /\ handles' = handles \ {worker.mine}
            /\ StartFailed
            /\ UNCHANGED <<client, config, failed>>
    /\ UNCHANGED <<cfg, world, left, started, stopper, route, recovery, generation,
                   connected>>

\* esp_mqtt_client_start; a client that did not start is detached and destroyed.
ClientStart ==
    /\ At("start")
    /\ LET own == client # None /\ client.gen = worker.mine
       IN  \/ /\ own /\ Goto("finish")
              /\ UNCHANGED <<left, flags, client, generation, connected, handles, recovery>>
           \/ /\ own /\ Fault
              /\ Detach /\ handles' = handles \ {worker.mine}
              /\ StartFailed
           \/ /\ ~own /\ StartFailed
              /\ UNCHANGED <<left, client, generation, connected, handles, recovery>>
    /\ UNCHANGED <<cfg, world, started, stopper, route, config, failed>>

ClientFinish ==
    /\ At("finish")
    /\ IF worker.from = "refresh"
       THEN /\ FinishCredentialRefresh /\ Return
            /\ flags' = [FinishedFlags EXCEPT !.connecting = FALSE]
       ELSE /\ Goto("wait")
            /\ IF worker.viaRoute THEN FinishCredentialRefresh /\ flags' = FinishedFlags
               ELSE UNCHANGED <<flags, route, recovery>>
    /\ UNCHANGED <<cfg, world, left, started, stopper, client, generation, connected,
                   config, handles, failed>>

WorkerExit ==
    /\ At("idle") /\ ~started
    /\ worker' = Exited
    /\ UNCHANGED <<cfg, world, left, started, stopper, flags, route, recovery, client,
                   generation, connected, config, handles, failed>>

(***************************************************************************)
(* Callbacks of the attached SDK client, once it runs (HandleMqttEvent).    *)
(***************************************************************************)
Running == started /\ client # None /\ ~(At("start") /\ worker.mine = client.gen)

MqttConnected ==
    /\ Running /\ ~connected
    /\ client.addr = server /\ client.fresh
    /\ connected' = TRUE
    /\ recovery' = [recovery EXCEPT !.failures = 0]
    /\ UNCHANGED <<cfg, world, left, started, stopper, worker, flags, route, client,
                   generation, config, handles, failed>>

\* The link is lost, at once or at the keepalive after the server became unreachable.
MqttDisconnected ==
    /\ Running /\ connected
    /\ \/ client.addr # server /\ UNCHANGED left
       \/ Spend("drops")
    /\ connected' = FALSE
    /\ UNCHANGED <<cfg, world, started, stopper, worker, flags, route, recovery, client,
                   generation, config, handles, failed>>

\* Three attempts in a row that the server's address did not answer.
TransportFailures ==
    /\ Running /\ ~connected /\ client.addr # server /\ recovery.failures # 3
    /\ recovery' = [recovery EXCEPT !.failures = 3]
    /\ UNCHANGED <<cfg, world, left, started, stopper, worker, flags, route, client,
                   generation, connected, config, handles, failed>>

ScheduleCredentialRefresh ==
    /\ Running /\ ~connected
    /\ client.addr = server /\ ~client.fresh /\ ~(AuthPending /\ flags.reset)
    /\ recovery' = [recovery EXCEPT !.transport = FALSE, !.auth = client.gen]
    /\ flags' = [flags EXCEPT !.reset = TRUE]
    /\ UNCHANGED <<cfg, world, left, started, stopper, worker, route, client,
                   generation, connected, config, handles, failed>>

(***************************************************************************)
(* The network, the server, voice and time.                                 *)
(***************************************************************************)
\* HandleNetworkAddress, with the same three addresses or with others.
HandleNetworkAddress(changed) ==
    /\ \/ ~changed /\ UNCHANGED <<left, server>>
       \/ changed /\ Spend("networks") /\ UNCHANGED server
       \/ /\ changed /\ left.networks > 0 /\ left.moves > 0
          /\ left' = [left EXCEPT !.networks = @ - 1, !.moves = @ - 1]
          /\ server' = server + 1
    /\ online' = TRUE
    /\ LET same    == route.valid /\ ~changed
           refresh == ~same /\ (route.valid \/ client # None \/ flags.connecting)
       IN  IF ~started THEN UNCHANGED <<route, flags>>
           ELSE /\ route' = IF same THEN route
                            ELSE [route EXCEPT !.valid = TRUE, !.now = @ + 1,
                                               !.scheduled = @ \/ refresh]
                /\ flags' = IF refresh THEN [flags EXCEPT !.reset = TRUE]
                            ELSE [flags EXCEPT !.connecting = @ \/ client = None]
    /\ failed' = [failed EXCEPT !.orphan = @ /\ ~started]
    /\ UNCHANGED <<cfg, voice, started, stopper, worker, recovery, client, generation,
                   connected, config, handles>>

ServerMoves ==
    /\ Spend("moves")
    /\ server' = server + 1
    /\ UNCHANGED <<cfg, online, voice, started, stopper, worker, flags, route, recovery,
                   client, generation, connected, config, handles, failed>>

\* Voice, OTA or the renewal refreshes the credential of the same authority.
CredentialRotated ==
    /\ cfg.bound /\ cfg.addr = server /\ Spend("rotations")
    /\ worker' = Rotated(worker) /\ Aged
    /\ UNCHANGED <<cfg, world, started, stopper, flags, route, recovery, generation,
                   connected, config, handles, failed>>

VoiceBegins ==
    /\ ~voice /\ Spend("voice")
    /\ voice' = TRUE
    /\ UNCHANGED <<cfg, server, online, started, stopper, worker, flags, route, recovery,
                   client, generation, connected, config, handles, failed>>

VoiceEnds ==
    /\ voice /\ voice' = FALSE
    /\ UNCHANGED <<cfg, server, online, left, started, stopper, worker, flags, route,
                   recovery, client, generation, connected, config, handles, failed>>

\* The replacement's retry delay and the 60 s between two transport recoveries.
RetryDelayPasses ==
    /\ flags.retryWait /\ flags' = [flags EXCEPT !.retryWait = FALSE]
    /\ UNCHANGED <<cfg, world, left, started, stopper, worker, route, recovery, client,
                   generation, connected, config, handles, failed>>

CooldownPasses ==
    /\ recovery.cooling /\ recovery' = [recovery EXCEPT !.cooling = FALSE]
    /\ UNCHANGED <<cfg, world, left, started, stopper, worker, flags, route, client,
                   generation, connected, config, handles, failed>>

(***************************************************************************)
(* The user unbinds the device, which stops the service, and binds it again. *)
(***************************************************************************)
Unbind ==
    /\ stopper.pc = "none" /\ cfg.bound /\ Spend("unbinds")
    /\ cfg' = [cfg EXCEPT !.bound = FALSE] /\ StopAt("unbound")
    /\ worker' = Rotated(worker) /\ Aged
    /\ UNCHANGED <<world, started, flags, route, recovery, generation, connected, config,
                   handles, failed>>

StopBegin ==
    /\ stopper.pc = "unbound"
    /\ started' = FALSE /\ Detach
    /\ stopper' = IF client = None THEN [pc |-> "joining", mine |-> 0]
                  ELSE [pc |-> "destroying", mine |-> client.gen]
    /\ UNCHANGED <<cfg, world, left, worker, flags, route, config, handles, failed>>

StopDestroy ==
    /\ stopper.pc = "destroying" /\ ~HoldsApi
    /\ \/ Fault /\ Reboot
       \/ /\ handles' = handles \ {stopper.mine} /\ StopAt("joining")
          /\ UNCHANGED <<cfg, world, left, started, worker, flags, route, recovery, client,
                         generation, connected, config, failed>>

StopReturn ==
    /\ stopper.pc = "joining" /\ worker.pc = "exited"
    /\ StopAt("stopped")
    /\ flags' = [NoFlags EXCEPT !.forceRefresh = flags.forceRefresh]
    /\ route' = [NoRoute EXCEPT !.now = route.now + 1]
    /\ recovery' = NoRecovery
    /\ UNCHANGED <<cfg, world, left, started, worker, client, generation, connected, config,
                   handles, failed>>

\* Binding stores an identity of the server as it is now, and starts the service,
\* or a connection of one that a restart left running (ReconnectAfterCredentialChange).
Bind ==
    /\ cfg' = [addr |-> server, bound |-> TRUE]
    /\ \/ /\ stopper.pc = "stopped"
          /\ stopper' = NoStop /\ started' = TRUE /\ worker' = IdleWorker
          /\ flags' = [flags EXCEPT !.forceRefresh = TRUE, !.connecting = online]
          /\ route' = [route EXCEPT !.valid = online]
       \/ /\ stopper.pc = "none" /\ ~cfg.bound
          /\ flags' = [flags EXCEPT !.connecting = @ \/ client = None]
          /\ UNCHANGED <<stopper, started, worker, route>>
    /\ failed' = [failed EXCEPT !.orphan = FALSE]
    /\ UNCHANGED <<world, left, recovery, client, generation, connected, config, handles>>

ConnectionInit ==
    /\ cfg = [addr |-> 0, bound |-> TRUE] /\ server = 0 /\ online = FALSE /\ voice = FALSE
    /\ left \in Budgets
    /\ started = TRUE /\ stopper = NoStop /\ worker = IdleWorker
    /\ flags = [NoFlags EXCEPT !.forceRefresh = TRUE]
    /\ route = NoRoute /\ recovery = NoRecovery
    /\ client = None /\ generation = 0 /\ connected = FALSE /\ config = None
    /\ handles = {} /\ failed = NoFailure

WorkerStep ==
    \/ ScheduleTransportRecovery \/ RefreshBegin \/ RefreshPlan \/ RefreshLoad
    \/ RefreshHttp \/ RefreshRotated \/ Apply \/ RefreshDecide \/ Retire
    \/ DestroyRetired \/ Isolated \/ RefreshReload \/ RunConnection \/ ConnectLoad
    \/ ConnectHttp \/ ConnectAgain \/ ClientCreate \/ ClientInit \/ ClientAttach
    \/ ClientStart \/ ClientFinish \/ WorkerExit

SdkStep  == MqttConnected \/ TransportFailures \/ ScheduleCredentialRefresh
StopStep == StopBegin \/ StopDestroy \/ StopReturn

ConnectionNext ==
    \/ WorkerStep \/ SdkStep \/ StopStep \/ MqttDisconnected
    \/ \E changed \in BOOLEAN : HandleNetworkAddress(changed)
    \/ ServerMoves \/ CredentialRotated \/ VoiceBegins \/ VoiceEnds
    \/ RetryDelayPasses \/ CooldownPasses \/ Unbind \/ Bind

\* The worker, esp-mqtt and a Stop keep running, sessions end and time passes.
ConnectionFairness ==
    /\ WF_connectionVars(WorkerStep) /\ WF_connectionVars(StopStep)
    /\ WF_connectionVars(MqttConnected) /\ WF_connectionVars(TransportFailures)
    /\ WF_connectionVars(ScheduleCredentialRefresh)
    /\ WF_connectionVars(MqttDisconnected /\ client.addr # server)
    /\ WF_connectionVars(VoiceEnds) /\ WF_connectionVars(RetryDelayPasses)
    /\ WF_connectionVars(CooldownPasses)

ConnectionSpec ==
    ConnectionInit /\ [][ConnectionNext]_connectionVars /\ ConnectionFairness

ConnectionTypeOK ==
    /\ cfg \in [addr : Nat, bound : BOOLEAN] /\ server \in Nat
    /\ {online, voice, started, connected} \subseteq BOOLEAN
    /\ stopper \in [pc : {"none", "unbound", "destroying", "joining", "stopped"}, mine : Nat]
    /\ worker.pc \in {"idle", "exited", "plan", "load", "http", "rotated", "apply", "decide",
                      "retire", "destroy", "isolate", "isolating", "isolated", "reload",
                      "connect", "connectHttp", "wait", "create", "init", "attach", "start",
                      "finish"}
    /\ flags \in [forceRefresh : BOOLEAN, reset : BOOLEAN, connecting : BOOLEAN,
                  pending : BOOLEAN, restart : BOOLEAN, retryWait : BOOLEAN]
    /\ client # None => client.gen = generation /\ client.gen \in handles

\* Two SDK clients never exist at once, whoever replaces, stops or fails to start
\* one (docs/mqtt-credential-refresh.md: only after a confirmed stop and destroy).
OneSdkClient == Cardinality(handles) <= 1

\* What was reported while a round was under way is not consumed by it: a
\* rejection of the attached client, or a network newer than the one it was
\* attached for, keeps the refresh scheduled, unless the round for that very
\* network failed (FinishCredentialRefresh).
NothingForgotten ==
    client # None =>
        /\ recovery.auth = client.gen => flags.reset
        /\ client.route # route.now => flags.reset \/ failed.route = route.now

\* Whatever rotated, moved, failed or was deferred, a started service of a bound
\* device ends up connected to the server at its present address (WorkerLoop), except
\* when a round failed while the client it was to replace was already gone.
Recovers == <>[](started /\ online /\ cfg.bound => connected \/ failed.orphan)

\* The document promises that after a failed round the recovery from TCP failures
\* goes on: a bound device never stays offline for good.
RecoveryGoesOn == <>[](started /\ online /\ cfg.bound => connected)
=============================================================================

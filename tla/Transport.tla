------------------------------ MODULE Transport -----------------------------
(***************************************************************************)
(* The process-wide network transport (client.rs GlobalTransportState,     *)
(* tunnel.rs, pirate-net transport.rs): one selected configuration, one    *)
(* transport manager built for it, and the requests that dial through a    *)
(* manager.  A request reads the tunnel mode first and dials much later;   *)
(* settings, a registry load and a shutdown run in between.                *)
(*                                                                         *)
(* A selection is guarded by one lock (DESIRED_TRANSPORT_CONFIG), building *)
(* a manager by another (initialization); the generation is read without   *)
(* either.  The settings are changed by one caller at a time, in one       *)
(* storage directory, and every mode is compiled in.                       *)
(***************************************************************************)
EXTENDS Integers, Sequences

CONSTANTS
    Clients,        \* tasks that connect a LightClient
    Fetchers,       \* tasks that bootstrap the transport or fetch something
    Modes,          \* tunnel modes; "Tor" is the one bridge settings apply to
    NoRequest,
    MaxGeneration,  \* bound: selections and shutdowns
    MaxManagers,    \* bound: transport managers built
    MaxBridges      \* bound: changes of the Tor bridge settings
ASSUME TransportAssumption ==
    /\ "Tor" \in Modes /\ Clients \cap Fetchers = {}
    /\ {NoRequest, "shutdown"} \cap (Clients \cup Fetchers) = {} /\ NoRequest # "shutdown"
    /\ {MaxGeneration, MaxManagers, MaxBridges} \subseteq Nat

VARIABLES
    tunnel,     \* TUNNEL_MODE
    stored,     \* the mode a registry load gives: PENDING_TUNNEL_MODE or the saved one
    bridges,    \* revision of TOR_CONFIG_OVERRIDE
    desired,    \* DESIRED_TRANSPORT_CONFIG, a set of at most one configuration
    generation, \* of the selection
    downGeneration, \* shutdown_generation
    managers,   \* the managers published so far: [conf, retired], by number
    current,    \* the published manager, 0 if none
    initializing,   \* who holds the initialization lock
    setting,    \* the settings call in progress
    teardown,   \* the shutdown in progress
    request     \* the requests in progress

selection == <<desired, generation, downGeneration>>
transportVars == <<tunnel, stored, bridges, selection, managers, current, initializing,
                   setting, teardown, request>>

NoSetting == [pc |-> "rest", mode |-> "Tor", conf |-> <<"Tor", 0>>]
Retired == [conf |-> <<"Tor", 0>>, retired |-> TRUE]     \* its configuration no longer matters
NoTeardown == [pc |-> "rest", gen |-> 0]
IdleRequest == [pc |-> "idle", kind |-> "client", mode |-> "Tor", conf |-> <<"Tor", 0>>,
                gen |-> 0, manager |-> 0]
Requests == Clients \cup Fetchers
Kinds == {"client", "pool", "bootstrap", "fetch"}
KindsOf(r) == IF r \in Clients THEN {"client", "pool"} ELSE {"bootstrap", "fetch"}
Shutdown == "shutdown"      \* as a holder of the initialization lock

TransportInit ==
    /\ tunnel = "Tor" /\ stored \in Modes /\ bridges = 0
    /\ desired = {} /\ generation = 0 /\ downGeneration = -1
    /\ managers = <<>> /\ current = 0
    /\ initializing = NoRequest
    /\ setting = NoSetting /\ teardown = NoTeardown
    /\ request = [r \in Requests |-> IdleRequest]

-----------------------------------------------------------------------------
(* What the operations share.                                              *)

\* build_transport_config_from_mode: bridge settings are part of Tor's only.
Config(mode) == <<mode, IF mode = "Tor" THEN bridges ELSE 0>>

\* No writer holds the selection lock: set_tunnel keeps it over its two steps.
SelectionFree == setting.pc \notin {"selecting", "rebridging"}

\* ensure_generation
GenerationIs(g) == generation = g /\ downGeneration # g
\* desired_transport_config().is_some_and(|desired| desired != requested), negated
Wanted(conf) == desired \subseteq {conf}
Valid(r) == GenerationIs(request[r].gen) /\ Wanted(request[r].conf)

\* retire_current: every stream of the manager is revoked at once.
RetireCurrent ==
    /\ current' = 0
    /\ managers' = IF current = 0 THEN managers ELSE [managers EXCEPT ![current] = Retired]

Select(conf) ==
    /\ generation' = generation + 1
    /\ desired' = {conf}
    /\ UNCHANGED downGeneration

Step(r, pc) == request' = [request EXCEPT ![r].pc = pc]
\* connect_single_endpoint's next attempt, with the generation the client has.
Again(r) ==
    request' = [request EXCEPT ![r].pc = "ready", ![r].conf = IdleRequest.conf, ![r].manager = 0]
\* Error::Cancelled, or any other end of the request.
Drop(r) == request' = [request EXCEPT ![r] = IdleRequest]

-----------------------------------------------------------------------------
(* Settings.                                                               *)

\* load_wallet_registry_state writes TUNNEL_MODE and selects nothing.  It waits
\* for a settings call, which holds the mode lock.
LoadTunnel ==
    /\ setting = NoSetting
    /\ tunnel' = stored
    /\ UNCHANGED <<stored, bridges, selection, managers, current, initializing, setting,
                   teardown, request>>

\* set_tor_bridge_settings of client.rs, as tunnel.rs calls it: in Tor mode a
\* selection follows.
SetBridges ==
    /\ setting = NoSetting
    /\ bridges < MaxBridges /\ bridges' = bridges + 1
    /\ setting' = IF tunnel = "Tor" THEN [NoSetting EXCEPT !.pc = "bridges"] ELSE NoSetting
    /\ UNCHANGED <<tunnel, stored, selection, managers, current, initializing, teardown, request>>

\* set_tunnel saves the mode it has written; if that fails the mode is pending and
\* loaded all the same.  set_tor_bridge_settings only reads TUNNEL_MODE, which is Tor.
SaveTunnel(mode) ==
    /\ tunnel' = mode
    /\ stored' = IF setting.pc \in {"rest", "selecting"} THEN mode ELSE stored

\* set_tunnel, or the end of set_tor_bridge_settings: select_transport up to the
\* revocation of the old streams.  The same choice again is no new selection.
SelectBegin(mode) ==
    /\ \/ setting = NoSetting
       \/ setting.pc = "bridges" /\ mode = "Tor"
    /\ IF desired # {Config(mode)} \/ downGeneration = generation
       THEN /\ generation < MaxGeneration
            /\ RetireCurrent
            /\ setting' = [pc |-> IF setting = NoSetting THEN "selecting" ELSE "rebridging",
                           mode |-> mode, conf |-> Config(mode)]
            /\ UNCHANGED <<tunnel, stored>>
       ELSE /\ setting' = NoSetting /\ SaveTunnel(mode)
            /\ UNCHANGED <<managers, current>>
    /\ UNCHANGED <<bridges, selection, initializing, teardown, request>>

SelectEnd ==
    /\ ~SelectionFree
    /\ Select(setting.conf)
    /\ SaveTunnel(setting.mode)
    /\ setting' = NoSetting
    /\ UNCHANGED <<bridges, managers, current, initializing, teardown, request>>

-----------------------------------------------------------------------------
(* shutdown_transport.                                                     *)

settings == <<tunnel, stored, bridges, setting>>

\* The selection is kept while the teardown waits, its generation is closed.
ShutdownBegin ==
    /\ teardown = NoTeardown /\ SelectionFree
    /\ generation < MaxGeneration
    /\ generation' = generation + 1 /\ downGeneration' = generation + 1
    /\ RetireCurrent
    /\ teardown' = [pc |-> "wait", gen |-> generation + 1]
    /\ UNCHANGED <<settings, desired, initializing, request>>

ShutdownLock ==
    /\ teardown.pc = "wait" /\ initializing = NoRequest
    /\ initializing' = Shutdown
    /\ teardown' = [teardown EXCEPT !.pc = "drain"]
    /\ UNCHANGED <<settings, selection, managers, current, request>>

\* Clients made meanwhile carry the closed generation, which ends here; a newer
\* selection is left alone.
ShutdownEnd ==
    /\ teardown.pc = "drain" /\ SelectionFree
    /\ IF generation = teardown.gen
       THEN desired' = {} /\ generation' = generation + 1
       ELSE UNCHANGED <<desired, generation>>
    /\ initializing' = NoRequest
    /\ teardown' = NoTeardown
    /\ UNCHANGED <<settings, downGeneration, managers, current, request>>

-----------------------------------------------------------------------------
(* Requests.                                                               *)

outOfReach == <<settings, teardown>>
held == <<current, managers, initializing>>

\* light_client_config_for_endpoint, tunnel_transport_config.  A read while set_tunnel
\* selects is one that came just before it.
ReadTunnel(r, kind) ==
    /\ request[r] = IdleRequest /\ kind \in KindsOf(r)
    /\ request' = [request EXCEPT ![r] = [IdleRequest EXCEPT !.pc = "config", !.kind = kind,
                                                             !.mode = tunnel]]
    /\ UNCHANGED <<outOfReach, held, selection>>

\* bootstrap_transport: select_transport_if_unset
BootstrapSelect(r) ==
    /\ request[r].pc = "config" /\ request[r].kind = "bootstrap" /\ SelectionFree
    /\ LET conf == Config(request[r].mode)
       IN \/ /\ desired = {} /\ generation < MaxGeneration
             /\ RetireCurrent /\ Select(conf)
             /\ request' = [request EXCEPT ![r].pc = "selected", ![r].conf = conf]
          \/ /\ desired = {conf}
             /\ request' = [request EXCEPT ![r].pc = "selected", ![r].conf = conf]
             /\ UNCHANGED <<selection, current, managers>>
          \/ /\ ~Wanted(conf) /\ Drop(r)
             /\ UNCHANGED <<selection, current, managers>>
    /\ UNCHANGED <<outOfReach, initializing>>

\* LightClient::with_config, get_or_init: the generation the request is good for.
Capture(r) ==
    /\ \/ request[r].pc = "config" /\ request[r].kind # "bootstrap"
       \/ request[r].pc = "selected"
    /\ request' = [request EXCEPT ![r].pc = "ready", ![r].gen = generation,
                                  ![r].conf = IF request[r].kind = "fetch"
                                              THEN Config(request[r].mode) ELSE @]
    /\ UNCHANGED <<outOfReach, held, selection>>

\* connect and get_or_init_for_generation before the lock.  A client builds its
\* configuration anew on every attempt.
Enter(r) ==
    /\ request[r].pc = "ready" /\ SelectionFree
    /\ LET conf == IF r \in Clients THEN Config(request[r].mode) ELSE request[r].conf
       IN IF GenerationIs(request[r].gen) /\ Wanted(conf)
          THEN request' = [request EXCEPT ![r].pc = "wait", ![r].conf = conf,
                                          ![r].mode = IF r \in Clients THEN @ ELSE IdleRequest.mode]
          ELSE Drop(r)
    /\ UNCHANGED <<outOfReach, held, selection>>

\* With the initialization lock: check again, then wait for retired managers.
Initialize(r) ==
    /\ request[r].pc = "wait" /\ initializing = NoRequest /\ SelectionFree
    /\ IF Valid(r) THEN Step(r, "drain") /\ initializing' = r
                   ELSE Drop(r) /\ UNCHANGED initializing
    /\ UNCHANGED <<outOfReach, current, managers, selection>>

\* A pooled client only wanted the manager to be there.
Obtain(r, manager) ==
    request' = [request EXCEPT ![r].pc = "got",
                               ![r].manager = IF request[r].kind = "pool" THEN 0 ELSE manager]

Matching(conf) == current # 0 /\ managers[current].conf = conf /\ ~managers[current].retired

\* shutdown_retired has returned: reuse the published manager if it fits, else
\* retire it and build one.
Reuse(r) ==
    /\ request[r].pc = "drain" /\ SelectionFree
    /\ \/ /\ ~Valid(r) /\ Drop(r)
          /\ initializing' = NoRequest /\ UNCHANGED <<current, managers>>
       \/ /\ Valid(r) /\ Matching(request[r].conf)
          /\ Obtain(r, current)
          /\ initializing' = NoRequest /\ UNCHANGED <<current, managers>>
       \/ /\ Valid(r) /\ ~Matching(request[r].conf)
          /\ RetireCurrent /\ Step(r, "create") /\ UNCHANGED initializing
    /\ UNCHANGED <<outOfReach, selection>>

Built(r) == Append(managers, [conf |-> request[r].conf, retired |-> FALSE])

PublishUnchecked(r) ==   \* mutant
    /\ request[r].pc = "create" /\ Len(managers) < MaxManagers /\ SelectionFree
    /\ managers' = Built(r)
    /\ current' = Len(managers')
    /\ Obtain(r, Len(managers'))
    /\ initializing' = NoRequest
    /\ UNCHANGED <<outOfReach, selection>>

\* The manager is built and, under the selection lock, published if nobody has
\* selected meanwhile; one that is too late is born retired and nobody has it.
Publish(r) ==
    /\ request[r].pc = "create" /\ Len(managers) < MaxManagers /\ SelectionFree
    /\ IF Valid(r)
       THEN /\ managers' = Built(r)
            /\ current' = Len(managers')
            /\ Obtain(r, Len(managers'))
       ELSE Drop(r) /\ UNCHANGED <<current, managers>>
    /\ initializing' = NoRequest
    /\ UNCHANGED <<outOfReach, selection>>

\* TransportManager::new fails; connect_single_endpoint tries again.
BuildFails(r) ==
    /\ request[r].pc = "create"
    /\ IF request[r].kind = "client" THEN Again(r) ELSE Drop(r)
    /\ initializing' = NoRequest
    /\ UNCHANGED <<outOfReach, selection, current, managers>>

\* try_connect with the manager at hand: a client checks its generation once more,
\* a fetch does not.
Dial(r) ==
    /\ request[r].pc = "got" /\ request[r].kind \in {"client", "fetch"}
    /\ IF request[r].kind = "client" => GenerationIs(request[r].gen)
       THEN Step(r, "dial") ELSE Drop(r)
    /\ UNCHANGED <<outOfReach, held, selection>>

\* bootstrap_transport ends: ensure_ready starts the manager's own client and opens
\* no stream, whether the selection still holds or not.
BootstrapEnd(r) ==
    /\ request[r].pc = "got" /\ request[r].kind = "bootstrap"
    /\ Drop(r)
    /\ UNCHANGED <<outOfReach, held, selection>>

\* try_connect_for_probe: a pooled client's probes look the manager up again.
PoolProbe(r) ==
    /\ request[r].pc = "got" /\ request[r].kind = "pool" /\ SelectionFree
    /\ LET conf == Config(request[r].mode)
       IN IF GenerationIs(request[r].gen) /\ Wanted(conf) /\ Matching(conf)
          THEN request' = [request EXCEPT ![r].pc = "dial", ![r].conf = conf, ![r].manager = current]
          ELSE Drop(r)
    /\ UNCHANGED <<outOfReach, held, selection>>

\* grpc_connector, open_stream: the manager's token wins over a connection.
Connected(r) ==
    /\ request[r].pc = "dial"
    /\ ~managers[request[r].manager].retired
    /\ request' = [request EXCEPT ![r] = [IdleRequest EXCEPT !.pc = "open", !.manager = request[r].manager,
                                                             !.conf = request[r].conf]]
    /\ UNCHANGED <<outOfReach, held, selection>>

\* The connection fails, or its manager was retired: connect_single_endpoint tries
\* again, a fetch and a probe give up.
DialFails(r) ==
    /\ request[r].pc = "dial"
    /\ IF request[r].kind = "client" THEN Again(r) ELSE Drop(r)
    /\ UNCHANGED <<outOfReach, held, selection>>

Close(r) ==
    /\ request[r].pc = "open"
    /\ Drop(r)
    /\ UNCHANGED <<outOfReach, held, selection>>

RequestStep(r) ==
    \/ \E kind \in Kinds : ReadTunnel(r, kind)
    \/ BootstrapSelect(r) \/ Capture(r) \/ Enter(r) \/ Initialize(r) \/ Reuse(r)
    \/ Publish(r) \/ BuildFails(r) \/ Dial(r) \/ BootstrapEnd(r) \/ PoolProbe(r) \/ Connected(r)
    \/ DialFails(r) \/ Close(r)

TransportNext ==
    \/ \E mode \in Modes : SelectBegin(mode)
    \/ LoadTunnel \/ SetBridges \/ SelectEnd
    \/ ShutdownBegin \/ ShutdownLock \/ ShutdownEnd
    \/ \E r \in Requests : RequestStep(r)
TransportSpec == TransportInit /\ [][TransportNext]_transportVars

-----------------------------------------------------------------------------
\* A stream of the manager carries data: RevocableStream ends with its token.
Live(r) == request[r].pc = "open" /\ ~managers[request[r].manager].retired

\* Whatever changed between reading the tunnel mode and dialling, a connection
\* that carries data runs over the one published manager, and over the selected
\* configuration if there is a selection: a stale request is cancelled, never
\* rerouted, and the streams of a superseded transport are revoked.
StreamsOnSelection ==
    \A r \in Requests : Live(r) =>
        /\ request[r].manager = current
        /\ Wanted(request[r].conf) /\ managers[current].conf = request[r].conf
=============================================================================

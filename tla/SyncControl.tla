----------------------------- MODULE SyncControl -----------------------------
(***************************************************************************)
(* The lifecycle of one wallet's synchronisation (sync_control.rs): who    *)
(* may start, stop, restart or replace the engine task, and how the calls  *)
(* of the API interleave.                                                  *)
(*                                                                         *)
(* The runtime state is the per-wallet operation lock, the RESCAN_IN_FLIGHT*)
(* and RESCAN_ACTIVE sets, the SYNC_SESSIONS entry (a session has an       *)
(* identity: a rescan replaces it, a transport restart compares it), the   *)
(* intent generation and the spawned tasks.  A call holds the lock from    *)
(* Acquire to Return, but the flags, the intent and the session map are    *)
(* also read and written without it: those accesses are the steps below.   *)
(*                                                                         *)
(* The database is reduced to the import generation and whether a key      *)
(* replay is owed; SpendabilitySync has the rest.                          *)
(***************************************************************************)
EXTENDS Integers, FiniteSets

CONSTANTS
    Callers,    \* concurrent calls into the API
    Ops,        \* the operations this instance calls
    MaxCalls    \* bound: calls made, and so sessions and tasks created

OpNames == {"start", "stop", "switch", "rescan", "import", "background", "restart",
            "endpoint", "clear", "passphrase", "storage"}

ASSUME CallersAssumption == IsFiniteSet(Callers)
ASSUME OpsAssumption == Ops \subseteq OpNames
ASSUME MaxCallsAssumption == MaxCalls \in Nat

VARIABLES
    lock,       \* holder of the wallet's SYNC_OPERATION_LOCKS mutex
    transition, \* holder of TRANSPORT_SYNC_RESTART_LOCK
    inflight,   \* the wallet is in RESCAN_IN_FLIGHT
    active,     \* the wallet is in RESCAN_ACTIVE
    intent,     \* SYNC_INTENT_GENERATIONS counter
    reg,        \* the session in SYNC_SESSIONS; 0 when there is none
    sessions,   \* every session ever created, by identity
    tasks,      \* every engine task ever spawned; its number is its token too
    keygen,     \* key_import_generation of the database
    owed,       \* an imported key's replay is required
    call,       \* the calls in progress
    calls,      \* number of calls made
    halt        \* history variable: how far an undisturbed explicit stop got

flags == <<inflight, active, intent>>
registry == <<reg, sessions, tasks>>
db == <<keygen, owed>>
vars == <<lock, transition, flags, registry, db, call, calls, halt>>

Ids == 1..MaxCalls
NoPlan == [sess |-> 0, token |-> 0, rescan |-> FALSE, gen |-> 0]
IdleCall == [pc |-> "idle", op |-> "stop", id |-> 0, sess |-> 0, plan |-> NoPlan,
             req |-> 0, keys |-> 0, guard |-> FALSE, ran |-> FALSE, halts |-> FALSE]
IdleSession == [startup |-> FALSE, task |-> 0, token |-> 0]
NoTask == [pc |-> "none", kind |-> "sync", sess |-> 0, cancelled |-> FALSE,
           keys |-> 0, req |-> 0, ok |-> FALSE]

\* SyncSession::has_active_work
HasActiveWork(s) ==
    /\ s # 0
    /\ \/ sessions[s].startup
       \/ sessions[s].task # 0 /\ tasks[sessions[s].task].pc # "done"

\* is_sync_running, for the session the map holds
IsSyncRunning == HasActiveWork(reg)

RescanUnderWay == inflight \/ active

At(c, op, pc) == call[c].op \in op /\ call[c].pc = pc
Goto(c, pc) == call' = [call EXCEPT ![c].pc = pc]

\* The call returns: its guards are dropped.
Return(c) ==
    /\ call' = [call EXCEPT ![c] = IdleCall]
    /\ lock' = lock \ {c}
    /\ transition' = transition \ {c}
    /\ inflight' = (inflight /\ ~call[c].guard)

Init ==
    /\ lock = {}
    /\ transition = {}
    /\ inflight = FALSE
    /\ active = FALSE
    /\ intent = 0
    /\ reg = 0
    /\ sessions = [i \in Ids |-> IdleSession]
    /\ tasks = [i \in Ids |-> NoTask]
    /\ keygen = 0
    /\ owed = FALSE
    /\ call = [c \in Callers |-> IdleCall]
    /\ calls = 0
    /\ halt = "no"

-----------------------------------------------------------------------------
(* Entering a call *)

\* Calls that start an engine because the user or the app asked for one.
Starting == {"start", "rescan", "endpoint"}

\* Mutant: an explicit stop leaves the intent generation alone.
SupersedesButStop == {"switch", "import", "endpoint", "clear", "storage"}

\* Operations that call supersede_transport_restart before they take the lock.
Supersedes == {"stop", "switch", "import", "endpoint", "clear", "storage"}

\* Where a call begins: at the lock unless it does something before it.
Entry(op) ==
    CASE op = "rescan" -> "enter"
      [] op = "passphrase" -> "clear"
      [] op = "restart" -> "capture"
      [] OTHER -> "lock"

\* The history variable: a stop counts if no call that starts an engine is under
\* way when it is made; it is raced if a restart plan is captured meanwhile.
HaltAfterEntry(op) ==
    LET capturing == \E d \in Callers : call[d].pc = "capture"
        quiet == \A d \in Callers : call[d].pc # "idle" => call[d].op \notin Starting
    IN CASE op \in Starting -> "no"
         [] op = "stop" /\ halt = "no" /\ quiet ->
               IF capturing THEN "raced" ELSE "pending"
         [] op = "restart" /\ halt = "pending" -> "raced"
         [] OTHER -> halt

Invoke(c, op) ==
    /\ call[c].pc = "idle"
    /\ calls < MaxCalls
    /\ op = "restart" => IsSyncRunning
    /\ calls' = calls + 1
    /\ \E token \in {0} \cup (IF op = "restart" THEN {sessions[reg].token} ELSE {}) :
          call' = [call EXCEPT ![c] =
                     [IdleCall EXCEPT !.op = op, !.pc = Entry(op), !.id = calls + 1,
                                      !.plan.sess = IF op = "restart" THEN reg ELSE 0,
                                      !.plan.token = token,
                                      !.ran = op = "endpoint" /\ IsSyncRunning,
                                      !.halts = op = "stop"]]
    /\ intent' = IF op \in Supersedes THEN intent + 1 ELSE intent
    /\ halt' = HaltAfterEntry(op)
    /\ UNCHANGED <<lock, transition, inflight, active, registry, db>>

\* rescan: the intent is superseded and the in-flight guard taken before the lock.
RescanEnter(c) ==
    /\ At(c, {"rescan"}, "enter")
    /\ intent' = intent + 1
    /\ \/ /\ inflight
          /\ Return(c)
       \/ /\ ~inflight
          /\ inflight' = TRUE
          /\ call' = [call EXCEPT ![c].pc = "lock", ![c].guard = TRUE]
          /\ UNCHANGED <<lock, transition>>
    /\ UNCHANGED <<active, registry, db, calls, halt>>

\* plan_transport_sync_restart reads the intent after the session's state.
RestartCapture(c) ==
    /\ At(c, {"restart"}, "capture")
    /\ call' = [call EXCEPT ![c].pc = "transition",
                            ![c].plan.rescan = RescanUnderWay,
                            ![c].plan.gen = intent]
    /\ UNCHANGED <<lock, transition, flags, registry, db, calls, halt>>

RestartTransition(c) ==
    /\ At(c, {"restart"}, "transition")
    /\ transition = {}
    /\ transition' = {c}
    /\ Goto(c, "lock")
    /\ UNCHANGED <<lock, flags, registry, db, calls, halt>>

\* Mutant: a key import does not stop the engine first.
FirstStepImportNoStop(op) ==
    CASE op = "start" -> "check"
      [] op \in {"rescan", "switch", "background", "restart"} -> "body"
      [] op = "import" -> "cancelled"
      [] OTHER -> "signal"

\* What a call does first under the lock.
FirstStep(op) ==
    CASE op = "start" -> "check"
      [] op \in {"rescan", "switch", "background", "restart"} -> "body"
      [] OTHER -> "signal"

Acquire(c) ==
    /\ call[c].pc = "lock"
    /\ lock = {}
    /\ lock' = {c}
    /\ Goto(c, FirstStep(call[c].op))
    /\ UNCHANGED <<transition, flags, registry, db, calls, halt>>

-----------------------------------------------------------------------------
(* cancel_sync_session, under the lock *)

CancelSignal(c) ==
    /\ call[c].pc = "signal"
    /\ IF reg = 0
       THEN /\ Goto(c, "cancelled")
            /\ UNCHANGED tasks
       ELSE /\ call' = [call EXCEPT ![c].sess = reg,
                          ![c].pc = IF sessions[reg].task # 0 THEN "wait" ELSE "final"]
            /\ tasks' = [t \in Ids |-> IF t = sessions[reg].token
                                       THEN [tasks[t] EXCEPT !.cancelled = TRUE]
                                       ELSE tasks[t]]
    /\ UNCHANGED <<lock, transition, flags, reg, sessions, db, calls, halt>>

WaitForSyncStop(c) ==
    /\ call[c].pc = "wait"
    /\ ~IsSyncRunning
    /\ Goto(c, "final")
    /\ UNCHANGED <<lock, transition, flags, registry, db, calls, halt>>

\* Mutant: the caller goes on as if the task had stopped.
WaitTimeoutIgnored(c) ==
    /\ call[c].pc = "wait"
    /\ IsSyncRunning
    /\ Goto(c, "cancelled")
    /\ UNCHANGED <<lock, transition, flags, registry, db, calls, halt>>

\* CANCEL_SYNC_TASK_TIMEOUT: the task stays registered and the call fails, except
\* that an endpoint change and a storage switch log the error and go on.
WaitTimeout(c) ==
    /\ call[c].pc = "wait"
    /\ IsSyncRunning
    /\ \/ /\ call[c].op \in {"endpoint", "storage"}
          /\ Goto(c, "cancelled")
          /\ UNCHANGED <<lock, transition, inflight>>
       \/ /\ call[c].op \notin {"endpoint", "storage"}
          /\ Return(c)
    /\ UNCHANGED <<active, intent, registry, db, calls, halt>>

CancelFinal(c) ==
    /\ call[c].pc = "final"
    /\ sessions' = [sessions EXCEPT ![call[c].sess] = IdleSession]
    /\ active' = FALSE
    /\ Goto(c, "cancelled")
    /\ UNCHANGED <<lock, transition, inflight, intent, reg, tasks, db, calls, halt>>

-----------------------------------------------------------------------------
(* stop, wallet switch, key import, background sync *)

\* cancel_sync and cancel_sync_for_wallet_switch return.
StopReturn(c) ==
    /\ At(c, {"stop", "switch"}, "cancelled")
    /\ Return(c)
    /\ halt' = CASE call[c].halts /\ halt = "pending" -> "stopped"
                 [] call[c].halts /\ halt = "raced" -> "stoppedRaced"
                 [] OTHER -> halt
    /\ UNCHANGED <<active, intent, registry, db, calls>>

\* A wallet switch preserves a rescan.
SwitchCheck(c) ==
    /\ At(c, {"switch"}, "body")
    /\ \/ /\ RescanUnderWay
          /\ Return(c)
       \/ /\ ~RescanUnderWay
          /\ Goto(c, "signal")
          /\ UNCHANGED <<lock, transition, inflight>>
    /\ UNCHANGED <<active, intent, registry, db, calls, halt>>

\* The key mutation commits, or is refused, before the guard is dropped.
ImportKey(c) ==
    /\ At(c, {"import"}, "cancelled")
    /\ \/ UNCHANGED db
       \/ keygen' = keygen + 1 /\ owed' = TRUE
    /\ Return(c)
    /\ UNCHANGED <<active, intent, registry, calls, halt>>

\* acquire_background_sync; the guard is held while the background engine runs.
BackgroundCheck(c) ==
    /\ At(c, {"background"}, "body")
    /\ \/ /\ IsSyncRunning \/ owed
          /\ Return(c)
       \/ /\ ~IsSyncRunning /\ ~owed
          /\ call' = [call EXCEPT ![c].pc = "running", ![c].keys = keygen]
          /\ UNCHANGED <<lock, transition, inflight>>
    /\ UNCHANGED <<active, intent, registry, db, calls, halt>>

BackgroundDone(c) ==
    /\ At(c, {"background"}, "running")
    /\ Return(c)
    /\ UNCHANGED <<active, intent, registry, db, calls, halt>>

-----------------------------------------------------------------------------
(* start_sync_with_guard *)

\* Nothing to do while a rescan or a sync is under way.  An explicit start supersedes
\* older restart plans; a transport restart stays paused while a replay is owed.
StartCheck(c) ==
    /\ At(c, {"start", "restart"}, "check")
    /\ \/ /\ RescanUnderWay \/ IsSyncRunning
          /\ Return(c)
          /\ UNCHANGED intent
       \/ /\ ~RescanUnderWay /\ ~IsSyncRunning /\ ~owed
          /\ intent' = IF call[c].op = "start" THEN intent + 1 ELSE intent
          /\ Goto(c, "register")
          /\ UNCHANGED <<lock, transition, inflight>>
       \/ /\ ~RescanUnderWay /\ ~IsSyncRunning /\ owed
          /\ call[c].op = "restart"
          /\ Return(c)
          /\ UNCHANGED intent
    /\ UNCHANGED <<active, registry, db, calls, halt>>

\* Mutant: the rescan is entered with the operation lock still held.
StartReplayKeepsLock(c) ==
    /\ At(c, {"start"}, "check")
    /\ ~RescanUnderWay /\ ~IsSyncRunning /\ owed
    /\ intent' = intent + 1
    /\ call' = [call EXCEPT ![c].op = "rescan", ![c].pc = "enter"]
    /\ UNCHANGED <<lock, transition, inflight, active, registry, db, calls, halt>>

\* A start that finds a replay owed drops the lock and becomes a rescan.
StartReplay(c) ==
    /\ At(c, {"start"}, "check")
    /\ ~RescanUnderWay /\ ~IsSyncRunning /\ owed
    /\ intent' = intent + 1
    /\ lock' = {}
    /\ call' = [call EXCEPT ![c].op = "rescan", ![c].pc = "enter"]
    /\ UNCHANGED <<transition, inflight, active, registry, db, calls, halt>>

StartRegister(c) ==
    /\ At(c, {"start", "restart"}, "register")
    /\ LET s == IF reg = 0 THEN call[c].id ELSE reg
       IN /\ reg' = s
          /\ \/ /\ HasActiveWork(s)
                /\ Return(c)
                /\ UNCHANGED sessions
             \/ /\ ~HasActiveWork(s)
                /\ sessions' = [sessions EXCEPT ![s] = [IdleSession EXCEPT !.startup = TRUE]]
                /\ call' = [call EXCEPT ![c].pc = "spawn", ![c].sess = s,
                                        ![c].keys = keygen]
                /\ UNCHANGED <<lock, transition, inflight>>
    /\ UNCHANGED <<active, intent, tasks, db, calls, halt>>

\* The engine cannot be built.
StartFails(c) ==
    /\ At(c, {"start", "restart"}, "spawn")
    /\ sessions' = [sessions EXCEPT ![call[c].sess].startup = FALSE]
    /\ Return(c)
    /\ UNCHANGED <<active, intent, reg, tasks, db, calls, halt>>

\* The task is spawned, stored in its session and released.
Spawn(c, kind) ==
    LET t == call[c].id
    IN /\ sessions' = [sessions EXCEPT ![call[c].sess] =
                         [startup |-> FALSE, task |-> t, token |-> t]]
       /\ tasks' = [tasks EXCEPT ![t] = [NoTask EXCEPT !.pc = "run", !.kind = kind,
                                           !.sess = call[c].sess, !.keys = call[c].keys,
                                           !.req = call[c].req]]

StartSpawn(c) ==
    /\ At(c, {"start", "restart"}, "spawn")
    /\ Spawn(c, "sync")
    /\ Return(c)
    /\ UNCHANGED <<active, intent, reg, db, calls, halt>>

-----------------------------------------------------------------------------
(* rescan, once it holds the lock *)

\* Mutant: the running sync is not stopped before the rewind.
RescanPlanNoStop(c) ==
    /\ At(c, {"rescan"}, "body")
    /\ call' = [call EXCEPT ![c].pc = "cancelled",
                            ![c].req = IF owed THEN keygen ELSE 0]
    /\ UNCHANGED <<lock, transition, flags, registry, db, calls, halt>>

\* The replay requirement is read before a running sync is stopped.
RescanPlan(c) ==
    /\ At(c, {"rescan"}, "body")
    /\ call' = [call EXCEPT ![c].pc = IF IsSyncRunning THEN "signal" ELSE "cancelled",
                            ![c].req = IF owed THEN keygen ELSE 0]
    /\ UNCHANGED <<lock, transition, flags, registry, db, calls, halt>>

\* The database has been rewound: mark the rescan active, drop the old session.
RescanMark(c) ==
    /\ At(c, {"rescan"}, "cancelled")
    /\ active' = TRUE
    /\ reg' = 0
    /\ sessions' = [s \in Ids |-> IF s = reg
                                  THEN [sessions[s] EXCEPT !.startup = FALSE, !.task = 0]
                                  ELSE sessions[s]]
    /\ Goto(c, "register")
    /\ UNCHANGED <<lock, transition, inflight, intent, tasks, db, calls, halt>>

RescanRegister(c) ==
    /\ At(c, {"rescan"}, "register")
    /\ LET s == call[c].id
       IN /\ reg' = s
          /\ sessions' = [sessions EXCEPT ![s] =
                            [startup |-> TRUE, task |-> 0, token |-> s]]
          /\ call' = [call EXCEPT ![c].pc = "spawn", ![c].sess = s, ![c].keys = keygen]
    /\ UNCHANGED <<lock, transition, flags, tasks, db, calls, halt>>

RescanSpawn(c) ==
    /\ At(c, {"rescan"}, "spawn")
    /\ Spawn(c, "rescan")
    /\ Return(c)
    /\ UNCHANGED <<active, intent, reg, db, calls, halt>>

\* A statement of the rewind fails, or the engine cannot be built: the error
\* drops whichever guards exist.
RescanFails(c) ==
    /\ call[c].op = "rescan"
    /\ call[c].pc \in {"body", "cancelled", "register"}
    /\ active' = (active /\ call[c].pc # "register")
    /\ Return(c)
    /\ UNCHANGED <<intent, registry, db, calls, halt>>

-----------------------------------------------------------------------------
(* The transport restart *)

RestartCheck(c) ==
    /\ At(c, {"restart"}, "body")
    /\ LET p == call[c].plan
           superseded == \/ intent # p.gen
                         \/ p.token # 0 /\ tasks[p.token].cancelled
                         \/ reg # p.sess
       IN \/ /\ superseded
             /\ Return(c)
          \/ /\ ~superseded
             /\ Goto(c, "signal")
             /\ UNCHANGED <<lock, transition, inflight>>
    /\ UNCHANGED <<active, intent, registry, db, calls, halt>>

\* claim_transport_restart
Claimed(gen) == gen + 1

\* A rescan is left paused; otherwise the intent is claimed and a sync started.
RestartClaim(c) ==
    /\ At(c, {"restart"}, "cancelled")
    /\ LET p == call[c].plan
           proceed == intent = p.gen /\ reg = p.sess /\ ~p.rescan
       IN \/ /\ proceed
             /\ intent' = Claimed(p.gen)
             /\ Goto(c, "check")
             /\ UNCHANGED <<lock, transition, inflight>>
          \/ /\ ~proceed
             /\ Return(c)
             /\ UNCHANGED intent
    /\ UNCHANGED <<active, registry, db, calls, halt>>

-----------------------------------------------------------------------------
(* Operations that clear the session map without the lock *)

\* cancel_sync_internal has returned to the endpoint change, the wallet reset or
\* the storage switch that called it.
ClearRelease(c) ==
    /\ At(c, {"endpoint", "clear", "storage"}, "cancelled")
    /\ lock' = {}
    /\ Goto(c, "clear")
    /\ UNCHANGED <<transition, flags, registry, db, calls, halt>>

\* clear_wallet_sync_state
ClearWallet(c) ==
    /\ At(c, {"endpoint", "clear"}, "clear")
    /\ intent' = intent + 1
    /\ reg' = 0
    /\ \/ /\ call[c].ran
          /\ Goto(c, "trigger")
          /\ UNCHANGED <<lock, transition, inflight>>
       \/ /\ ~call[c].ran
          /\ Return(c)
    /\ UNCHANGED <<active, sessions, tasks, db, calls, halt>>

\* clear_all_runtime_state
ClearAll(c) ==
    /\ At(c, {"passphrase", "storage"}, "clear")
    /\ reg' = 0
    /\ inflight' = FALSE
    /\ active' = FALSE
    /\ call' = [call EXCEPT ![c] = IdleCall]
    /\ UNCHANGED <<lock, transition, intent, sessions, tasks, db, calls, halt>>

\* maybe_trigger_compact_sync: a detached start unless something runs already.
EndpointTrigger(c) ==
    /\ At(c, {"endpoint"}, "trigger")
    /\ \/ /\ RescanUnderWay \/ IsSyncRunning
          /\ Return(c)
       \/ /\ ~RescanUnderWay /\ ~IsSyncRunning
          /\ call' = [call EXCEPT ![c].op = "start", ![c].pc = "lock"]
          /\ UNCHANGED <<lock, transition, inflight>>
    /\ UNCHANGED <<active, intent, registry, db, calls, halt>>

-----------------------------------------------------------------------------
(* The spawned tasks *)

\* The engine returns and the task cleans up under the session's mutex.  A rescan
\* that finished discharges the replay it was planned for, if no key was imported
\* since; its session keeps the token.  What is left of the task is its token.
TaskEnds(t) ==
    /\ tasks[t].pc = "run"
    /\ \E ok \in BOOLEAN :
          LET rescan == tasks[t].kind = "rescan"
              eligible == owed /\ tasks[t].req = keygen
              discharged == rescan /\ ok /\ tasks[t].req # 0 /\ eligible
          IN /\ tasks' = [tasks EXCEPT ![t] =
                            [NoTask EXCEPT !.pc = IF rescan THEN "guard" ELSE "done",
                                           !.cancelled = tasks[t].cancelled,
                                           !.ok = rescan /\ ok /\ (tasks[t].req # 0 => eligible)]]
             /\ sessions' = [sessions EXCEPT ![tasks[t].sess] =
                               [startup |-> FALSE, task |-> 0,
                                token |-> IF rescan THEN @.token ELSE 0]]
             /\ owed' = (owed /\ ~discharged)
    /\ UNCHANGED <<lock, transition, flags, reg, keygen, call, calls, halt>>

\* RescanActiveGuard is dropped.
RescanGuardDrop(t) ==
    /\ tasks[t].pc = "guard"
    /\ active' = FALSE
    /\ tasks' = [tasks EXCEPT ![t].pc = IF tasks[t].ok THEN "trigger" ELSE "done",
                              ![t].ok = FALSE]
    /\ UNCHANGED <<lock, transition, inflight, intent, reg, sessions, db, call, calls, halt>>

\* maybe_trigger_compact_sync after a successful rescan
RescanTrigger(t) ==
    /\ tasks[t].pc = "trigger"
    /\ tasks' = [tasks EXCEPT ![t].pc = "done"]
    /\ \/ /\ RescanUnderWay \/ IsSyncRunning
          /\ UNCHANGED <<call, calls, halt>>
       \/ /\ ~RescanUnderWay /\ ~IsSyncRunning
          /\ calls < MaxCalls
          /\ \E c \in Callers :
                /\ call[c].pc = "idle"
                /\ call' = [call EXCEPT ![c] = [IdleCall EXCEPT !.op = "start",
                                                  !.pc = "lock", !.id = calls + 1]]
          /\ calls' = calls + 1
          /\ halt' = "no"
    /\ UNCHANGED <<lock, transition, flags, reg, sessions, db>>

-----------------------------------------------------------------------------
CallStep(c) ==
    \/ RescanEnter(c) \/ RestartCapture(c) \/ RestartTransition(c) \/ Acquire(c)
    \/ CancelSignal(c) \/ WaitForSyncStop(c) \/ WaitTimeout(c) \/ CancelFinal(c)
    \/ StopReturn(c) \/ SwitchCheck(c) \/ ImportKey(c)
    \/ BackgroundCheck(c) \/ BackgroundDone(c)
    \/ StartCheck(c) \/ StartReplay(c) \/ StartRegister(c)
    \/ StartFails(c) \/ StartSpawn(c)
    \/ RescanPlan(c) \/ RescanMark(c) \/ RescanRegister(c) \/ RescanSpawn(c)
    \/ RescanFails(c)
    \/ RestartCheck(c) \/ RestartClaim(c)
    \/ ClearRelease(c) \/ ClearWallet(c) \/ ClearAll(c) \/ EndpointTrigger(c)

TaskStep(t) == TaskEnds(t) \/ RescanGuardDrop(t) \/ RescanTrigger(t)

Next ==
    \/ \E c \in Callers, op \in Ops : Invoke(c, op)
    \/ \E c \in Callers : CallStep(c)
    \/ \E t \in Ids : TaskStep(t)

Spec == Init /\ [][Next]_vars

\* A call is polled until it returns: its lock waits are served by a fair mutex and
\* its wait for a task is bounded by a timeout.  Nothing makes an engine stop.
FairSpec == Spec /\ \A c \in Callers : WF_vars(CallStep(c))

-----------------------------------------------------------------------------
(* Properties *)

Pcs == {"idle", "enter", "capture", "transition", "lock", "check", "body", "signal",
        "wait", "final", "cancelled", "running", "register", "spawn", "clear", "trigger"}
Tasks == 0..MaxCalls

\* Every flag, table and call holds a value of its declared type.
TypeOK ==
    /\ lock \in SUBSET Callers
    /\ transition \in SUBSET Callers
    /\ inflight \in BOOLEAN
    /\ active \in BOOLEAN
    /\ intent \in Nat
    /\ reg \in Tasks
    /\ sessions \in [Ids -> [startup : BOOLEAN, task : Tasks, token : Tasks]]
    /\ tasks \in [Ids -> [pc : {"none", "run", "guard", "trigger", "done"},
                          kind : {"sync", "rescan"}, sess : Tasks,
                          cancelled : BOOLEAN, keys : Nat, req : Nat, ok : BOOLEAN]]
    /\ keygen \in Nat
    /\ owed \in BOOLEAN
    /\ call \in [Callers -> [pc : Pcs, op : OpNames, id : Tasks, sess : Tasks,
                             plan : [sess : Tasks, token : Tasks, rescan : BOOLEAN,
                                     gen : Nat],
                             req : Nat, keys : Nat, guard : BOOLEAN, ran : BOOLEAN,
                             halts : BOOLEAN]]
    /\ calls \in Tasks
    /\ halt \in {"no", "pending", "raced", "stopped", "stoppedRaced"}

Running == {t \in Ids : tasks[t].pc = "run"}

\* Calls that write the wallet database themselves: a rescan rewinding it, a key
\* import, a background engine.
Writers == {c \in Callers : \/ At(c, {"rescan", "import"}, "cancelled")
                            \/ At(c, {"background"}, "running")}

\* "cannot leave a hidden writer running or start two syncs over the same wallet"
\* (docs/sync-engine.md): at any time one engine task, one background engine, one
\* rewind or one key import works on the wallet database.
OneOwner ==
    /\ Cardinality(Running) + Cardinality(Writers) <= 1
    /\ \A c \in Writers : c \in lock

\* "Timed-out tasks remain registered until they actually finish": an engine that
\* runs is the task of the session in the map, so every later call finds it.
TaskRegistered == \A t \in Running : reg = tasks[t].sess /\ sessions[reg].task = t

\* acquire_exclusive_key_import stops "any engine that may hold a stale account-key
\* snapshot": no engine outlives an import with the keys of before it, and an
\* ordinary sync never runs while an imported key's history is owed.
NoStaleKeySnapshot ==
    /\ \A t \in Running : /\ tasks[t].keys = keygen
                          /\ owed => tasks[t].kind = "rescan"
    /\ \A c \in Callers : At(c, {"background"}, "running") => call[c].keys = keygen

\* An explicit stop stays in force: once it has returned, no queued transport
\* restart brings the engine back until something starts a sync again.
StopWins == halt = "stopped" => Running = {}

\* "A concurrent explicit pause/start changes the intent and wins instead", also
\* when the restart plan is captured while the pause is waiting for the lock.
ConcurrentStopWins == halt \in {"stopped", "stoppedRaced"} => Running = {}

\* Every call returns: no lock, guard or wait for a task that never stops can hold
\* a caller for ever.
CallsReturn == \A c \in Callers : call[c].pc # "idle" ~> call[c].pc = "idle"
=============================================================================

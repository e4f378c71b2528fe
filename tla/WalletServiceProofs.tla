------------------------ MODULE WalletServiceProofs -------------------------
(***************************************************************************)
(* Proofs about the wallet service's two managers: the sync lifecycle      *)
(* (SyncControl) and the wallet files and their passphrase (Vault).        *)
(***************************************************************************)
EXTENDS SyncControl, Vault, FiniteSetTheorems, TLAPS

-----------------------------------------------------------------------------
(***************************************************************************)
(* Proofs about SyncControl for any number of callers, calls, sessions and *)
(* tasks.                                                                  *)
(*                                                                         *)
(* The operations are those that touch the session map under the wallet's  *)
(* operation lock; with an endpoint change, a wallet reset, a passphrase   *)
(* change or a storage switch the theorems are false (README, section 5).  *)
(*                                                                         *)
(* The argument: a call between Acquire and Return is the only holder of   *)
(* the lock, so what it has established about the map stays true until it  *)
(* returns (CallInv, by program point).  The one step that starts an       *)
(* engine is taken by a holder that has seen no engine, which keeps the    *)
(* running task the registered one (TaskInv).  A stop raises the intent,   *)
(* so every restart plan older than it fails its claim (the halt conjuncts *)
(* of CallInv, HaltInv).  The flags RESCAN_IN_FLIGHT and RESCAN_ACTIVE     *)
(* play no part.                                                           *)
(***************************************************************************)

\* Operations that change the session map only under the operation lock.
SafeOps == {"start", "stop", "switch", "rescan", "import", "background", "restart"}
\* Program points at which a call holds the lock.
Critical == {"check", "body", "signal", "wait", "final", "cancelled", "running", "register", "spawn"}

PlanType == [sess : Tasks, token : Tasks, rescan : BOOLEAN, gen : Nat]
CallType == [pc : Pcs, op : OpNames, id : Tasks, sess : Tasks, plan : PlanType,
             req : Nat, keys : Nat, guard : BOOLEAN, ran : BOOLEAN, halts : BOOLEAN]
SessionType == [startup : BOOLEAN, task : Tasks, token : Tasks]
TaskType == [pc : {"none", "run", "guard", "trigger", "done"}, kind : {"sync", "rescan"}, sess : Tasks,
             cancelled : BOOLEAN, keys : Nat, req : Nat, ok : BOOLEAN]

Typed ==
    /\ lock \in SUBSET Callers /\ transition \in SUBSET Callers
    /\ inflight \in BOOLEAN /\ active \in BOOLEAN
    /\ intent \in Nat /\ reg \in Tasks
    /\ sessions \in [Ids -> SessionType]
    /\ tasks \in [Ids -> TaskType]
    /\ keygen \in Nat /\ owed \in BOOLEAN
    /\ call \in [Callers -> CallType]
    /\ calls \in Tasks
    /\ halt \in {"no", "pending", "raced", "stopped", "stoppedRaced"}

\* What the program point of a call says.
CallInv(d) ==
    /\ call[d].op \in SafeOps
    /\ call[d].pc # "idle" => call[d].id \in Ids
    /\ call[d].pc \in Critical => lock = {d}
    /\ call[d].pc \in {"final", "cancelled", "running", "register", "spawn"} => Running = {}
    /\ call[d].pc \in {"wait", "final", "spawn"} => reg \in Ids /\ call[d].sess = reg
    /\ call[d].pc = "cancelled" => ~IsSyncRunning
    /\ call[d].pc \in {"running", "spawn"} => call[d].keys = keygen
    /\ call[d].pc \in {"register", "spawn"} /\ call[d].op \in {"start", "restart"} => ~owed
    /\ call[d].op = "restart" /\ call[d].pc # "capture" => call[d].plan.gen <= intent
    /\ halt \in {"pending", "stopped"} /\ call[d].pc # "idle" =>
         /\ call[d].op \notin Starting
         /\ call[d].op = "restart" =>
              /\ call[d].pc # "capture"
              /\ call[d].plan.gen < intent \/ call[d].pc \in {"check", "register", "spawn"}
    /\ halt = "stopped" /\ call[d].op = "restart" => call[d].pc \notin {"check", "register", "spawn"}

\* What a running engine may rely on.
TaskInv ==
    \A t \in Running :
        /\ reg \in Ids /\ tasks[t].sess = reg /\ sessions[reg].task = t
        /\ tasks[t].keys = keygen
        /\ owed => tasks[t].kind = "rescan"

\* A stop that has returned found no engine and left none behind.
HaltInv == halt = "stopped" => ~IsSyncRunning

SyncInv ==
    /\ Typed
    /\ \A d \in Callers : CallInv(d)
    /\ TaskInv
    /\ HaltInv

LEMMA TypedIsTypeOK == Typed => TypeOK
BY DEF Typed, TypeOK, PlanType, CallType, SessionType, TaskType

LEMMA IdleTyped == IdleCall \in CallType
BY MaxCallsAssumption DEF IdleCall, CallType, PlanType, NoPlan, Pcs, OpNames, Tasks

LEMMA GotoFields ==
  ASSUME call \in [Callers -> CallType], NEW c \in Callers, NEW p \in Pcs, Goto(c, p)
  PROVE  /\ call' \in [Callers -> CallType]
         /\ \A d \in Callers \ {c} : call'[d] = call[d]
         /\ call'[c] = [call[c] EXCEPT !.pc = p]
         /\ call'[c].pc = p /\ call'[c].op = call[c].op /\ call'[c].id = call[c].id
         /\ call'[c].sess = call[c].sess /\ call'[c].plan = call[c].plan
         /\ call'[c].keys = call[c].keys /\ call'[c].halts = call[c].halts
BY DEF Goto, CallType

LEMMA ReturnFields ==
  ASSUME Typed, NEW c \in Callers, Return(c)
  PROVE  /\ call' \in [Callers -> CallType]
         /\ \A d \in Callers \ {c} : call'[d] = call[d]
         /\ call'[c] = IdleCall
         /\ lock' = lock \ {c} /\ lock' \in SUBSET Callers
         /\ transition' \in SUBSET Callers /\ inflight' \in BOOLEAN
BY IdleTyped DEF Return, Typed

LEMMA IdleCallInv ==
  ASSUME NEW c \in Callers, call'[c] = IdleCall
  PROVE  CallInv(c)'
BY DEF CallInv, IdleCall, SafeOps, Critical

LEMMA SameRegistry ==
  ASSUME UNCHANGED registry
  PROVE  Running' = Running /\ (IsSyncRunning' <=> IsSyncRunning)
BY DEF registry, Running, IsSyncRunning, HasActiveWork

LEMMA SameTasks ==
  ASSUME UNCHANGED registry, UNCHANGED db, TaskInv
  PROVE  TaskInv'
<1>1. Running' = Running
  BY SameRegistry
<1> QED BY <1>1 DEF TaskInv, registry, db

\* The lock is exclusive.
LEMMA Alone ==
  ASSUME SyncInv, NEW c \in Callers, call[c].pc \in Critical
  PROVE  lock = {c} /\ \A d \in Callers \ {c} : call[d].pc \notin Critical
BY DEF SyncInv, CallInv

\* A running task keeps its session busy, so a session at rest has none.
LEMMA RestMeansNone ==
  ASSUME SyncInv
  PROVE  /\ ~IsSyncRunning => Running = {}
         /\ reg = 0 => Running = {} /\ ~IsSyncRunning
         /\ reg # 0 /\ sessions[reg].task = 0 => Running = {}
<1>1. ASSUME NEW t \in Running PROVE /\ reg \in Ids /\ sessions[reg].task = t /\ tasks[t].pc = "run" /\ t # 0
                                     /\ reg # 0
  BY <1>1, MaxCallsAssumption DEF SyncInv, TaskInv, Running, Ids
<1>2. reg = 0 => ~IsSyncRunning
  BY DEF IsSyncRunning, HasActiveWork
<1>3. ASSUME NEW t \in Running PROVE IsSyncRunning
  BY <1>1, <1>3 DEF IsSyncRunning, HasActiveWork
<1> QED BY <1>1, <1>2, <1>3

\* What a step of c leaves of the others.
LEMMA Bystanders ==
  ASSUME SyncInv, Typed', NEW c \in Callers,
         \A d \in Callers \ {c} : call[d].pc \notin Critical /\ call'[d] = call[d],
         intent' >= intent,
         halt' \in {"pending", "stopped"} => halt \in {"pending", "stopped"},
         CallInv(c)', TaskInv', HaltInv'
  PROVE  SyncInv'
<1>1. ASSUME NEW d \in Callers \ {c} PROVE CallInv(d)'
  <2>1. CallInv(d) /\ call[d].pc \notin Critical /\ call'[d] = call[d]
    BY DEF SyncInv
  <2>2. intent \in Nat /\ intent' \in Nat /\ call[d].plan.gen \in Nat
    BY DEF SyncInv, Typed, CallType, PlanType
  <2> QED BY <2>1, <2>2 DEF CallInv, Critical
<1> QED BY <1>1 DEF SyncInv

LEMMA HolderMoves ==
  ASSUME SyncInv, Typed', NEW c \in Callers, call[c].pc \in Critical,
         \A d \in Callers \ {c} : call'[d] = call[d],
         intent' >= intent, UNCHANGED <<registry, db, halt>>, CallInv(c)'
  PROVE  SyncInv'
<1>1. \A d \in Callers \ {c} : call[d].pc \notin Critical
  BY Alone
<1>2. TaskInv' /\ HaltInv'
  BY SameTasks, SameRegistry DEF SyncInv, HaltInv
<1> QED BY <1>1, <1>2, Bystanders

LEMMA HolderReturns ==
  ASSUME SyncInv, NEW c \in Callers, call[c].pc \in Critical, Return(c),
         active' \in BOOLEAN, UNCHANGED <<intent, registry, db, calls, halt>>
  PROVE  SyncInv'
<1>1. Typed'
  BY ReturnFields DEF SyncInv, Typed, registry, db
<1>2. CallInv(c)'
  BY ReturnFields, IdleCallInv DEF SyncInv
<1>3. intent' >= intent
  BY DEF SyncInv, Typed
<1> QED BY <1>1, <1>2, <1>3, ReturnFields, HolderMoves DEF SyncInv

LEMMA InitInv == Init => SyncInv
<1> SUFFICES ASSUME Init PROVE SyncInv
  OBVIOUS
<1>1. Typed
  <2>1. IdleSession \in SessionType /\ NoTask \in TaskType /\ 0 \in Tasks
    BY MaxCallsAssumption DEF Tasks, IdleSession, SessionType, NoTask, TaskType
  <2> QED BY <2>1, IdleTyped DEF Init, Typed
<1>2. Running = {}
  BY DEF Init, Running, NoTask
<1>3. \A d \in Callers : CallInv(d)
  BY DEF Init, CallInv, IdleCall, SafeOps, Critical
<1> QED BY <1>1, <1>2, <1>3 DEF Init, SyncInv, TaskInv, HaltInv

-----------------------------------------------------------------------------
(* Entering a call *)

LEMMA AcquireStep ==
  ASSUME SyncInv, NEW c \in Callers, Acquire(c)
  PROVE  SyncInv'
<1> DEFINE p == FirstStep(call[c].op)
<1>1. p \in {"check", "body", "signal"} /\ (call[c].op = "restart" => p = "body")
  BY DEF FirstStep
<1>2. /\ Goto(c, p) /\ p \in Pcs /\ lock = {} /\ lock' = {c}
      /\ UNCHANGED <<transition, flags, registry, db, calls, halt>>
  BY <1>1 DEF Acquire, Pcs
<1> HIDE DEF p
<1>3. /\ call' \in [Callers -> CallType]
      /\ \A d \in Callers \ {c} : call'[d] = call[d]
      /\ call'[c].pc = p /\ call'[c].op = call[c].op /\ call'[c].plan = call[c].plan
      /\ call'[c].id = call[c].id
  BY <1>2, GotoFields DEF SyncInv, Typed
<1>4. Typed'
  BY <1>2, <1>3 DEF SyncInv, Typed, registry, db, flags
<1>5. \A d \in Callers : call[d].pc \notin Critical
  BY <1>2 DEF SyncInv, CallInv
<1>6. CallInv(c)'
  BY <1>1, <1>2, <1>3 DEF SyncInv, CallInv, Acquire, flags
<1>7. TaskInv' /\ HaltInv'
  BY <1>2, SameTasks, SameRegistry DEF SyncInv, HaltInv
<1>8. intent' >= intent
  BY <1>2 DEF SyncInv, Typed, flags
<1> QED BY <1>2, <1>3, <1>4, <1>5, <1>6, <1>7, <1>8, Bystanders

(* A step before the lock disturbs no holder. *)
LEMMA OutsideStep ==
  ASSUME SyncInv, Typed', NEW c \in Callers, call[c].pc \notin Critical,
         \A d \in Callers \ {c} : call'[d] = call[d],
         lock' \in {lock, lock \ {c}}, intent' >= intent,
         UNCHANGED <<registry, db, halt>>, CallInv(c)'
  PROVE  SyncInv'
<1>1. ASSUME NEW d \in Callers \ {c} PROVE CallInv(d)'
  <2>1. CallInv(d) /\ call'[d] = call[d]
    BY DEF SyncInv
  <2>2. intent \in Nat /\ intent' \in Nat /\ call[d].plan.gen \in Nat
    BY DEF SyncInv, Typed, CallType, PlanType
  <2>3. lock = {d} => lock' = {d}
    OBVIOUS
  <2>4. Running' = Running /\ (IsSyncRunning' <=> IsSyncRunning)
    BY SameRegistry
  <2> QED BY <2>1, <2>2, <2>3, <2>4 DEF CallInv, registry, db
<1>2. TaskInv' /\ HaltInv'
  BY SameTasks, SameRegistry DEF SyncInv, HaltInv
<1> QED BY <1>1, <1>2 DEF SyncInv

LEMMA RescanEnterStep ==
  ASSUME SyncInv, NEW c \in Callers, RescanEnter(c)
  PROVE  SyncInv'
<1>1. /\ call[c].pc = "enter" /\ call[c].op = "rescan" /\ intent' = intent + 1
      /\ UNCHANGED <<active, registry, db, calls, halt>>
  BY DEF RescanEnter, At
<1>2. intent \in Nat /\ intent' \in Nat /\ intent' >= intent
  BY <1>1 DEF SyncInv, Typed
<1>3. CASE inflight /\ Return(c)
  <2>1. Typed'
    BY <1>1, <1>2, <1>3, ReturnFields DEF SyncInv, Typed, registry, db
  <2>2. CallInv(c)' /\ lock' = lock \ {c} /\ \A d \in Callers \ {c} : call'[d] = call[d]
    BY <1>3, ReturnFields, IdleCallInv DEF SyncInv
  <2> QED BY <1>1, <1>2, <2>1, <2>2, OutsideStep DEF Critical
<1>4. CASE /\ inflight' = TRUE /\ UNCHANGED <<lock, transition>>
           /\ call' = [call EXCEPT ![c].pc = "lock", ![c].guard = TRUE]
  <2> DEFINE v == [call[c] EXCEPT !.pc = "lock", !.guard = TRUE]
  <2>0. v \in CallType /\ v.pc = "lock" /\ v.op = "rescan" /\ v.id = call[c].id /\ call' = [call EXCEPT ![c] = v]
    <3>1. call[c] \in CallType /\ "lock" \in Pcs
      BY DEF SyncInv, Typed, Pcs
    <3> QED BY <1>1, <1>4, <3>1 DEF CallType
  <2> HIDE DEF v
  <2>1. /\ call' \in [Callers -> CallType] /\ \A d \in Callers \ {c} : call'[d] = call[d]
        /\ call'[c].pc = "lock" /\ call'[c].op = "rescan" /\ call'[c].id = call[c].id
    BY <2>0 DEF SyncInv, Typed
  <2>2. Typed'
    BY <1>1, <1>2, <1>4, <2>1 DEF SyncInv, Typed, registry, db
  <2>3. CallInv(c)'
    BY <1>1, <2>1 DEF SyncInv, CallInv, SafeOps, Critical
  <2> QED BY <1>1, <1>2, <1>4, <2>1, <2>2, <2>3, OutsideStep DEF Critical
<1> QED BY <1>3, <1>4 DEF RescanEnter

LEMMA RestartCaptureStep ==
  ASSUME SyncInv, NEW c \in Callers, RestartCapture(c)
  PROVE  SyncInv'
<1>1. /\ call[c].pc = "capture" /\ call[c].op = "restart"
      /\ UNCHANGED <<lock, transition, flags, registry, db, calls, halt>>
  BY DEF RestartCapture, At
<1>2. intent \in Nat /\ intent' = intent /\ RescanUnderWay \in BOOLEAN
  BY <1>1 DEF SyncInv, Typed, flags, RescanUnderWay
<1>3. /\ call' \in [Callers -> CallType] /\ \A d \in Callers \ {c} : call'[d] = call[d]
      /\ call'[c].pc = "transition" /\ call'[c].op = "restart"
      /\ call'[c].id = call[c].id /\ call'[c].plan.gen = intent
  <2> DEFINE q == [call[c].plan EXCEPT !.rescan = RescanUnderWay, !.gen = intent]
             v == [call[c] EXCEPT !.pc = "transition", !.plan = q]
  <2>1. call[c] \in CallType /\ "transition" \in Pcs /\ call[c].plan \in PlanType
    BY DEF SyncInv, Typed, Pcs, CallType
  <2>2. q \in PlanType /\ q.gen = intent
    BY <1>2, <2>1 DEF PlanType
  <2>3. call' = [call EXCEPT ![c] = v]
    BY <2>1 DEF RestartCapture, CallType, PlanType
  <2>4. v \in CallType /\ v.pc = "transition" /\ v.op = "restart" /\ v.id = call[c].id /\ v.plan = q
    <3> HIDE DEF q
    <3> QED BY <1>1, <2>1, <2>2 DEF CallType
  <2> HIDE DEF v
  <2> QED BY <2>2, <2>3, <2>4 DEF SyncInv, Typed
<1>4. Typed'
  BY <1>1, <1>3 DEF SyncInv, Typed, registry, db, flags
<1>5. CallInv(c)'
  BY <1>1, <1>2, <1>3 DEF SyncInv, CallInv, SafeOps, Critical
<1> QED BY <1>1, <1>2, <1>3, <1>4, <1>5, OutsideStep DEF Critical

LEMMA RestartTransitionStep ==
  ASSUME SyncInv, NEW c \in Callers, RestartTransition(c)
  PROVE  SyncInv'
<1>1. /\ call[c].pc = "transition" /\ call[c].op = "restart" /\ Goto(c, "lock")
      /\ transition' = {c} /\ UNCHANGED <<lock, flags, registry, db, calls, halt>>
  BY DEF RestartTransition, At
<1>2. intent \in Nat /\ intent' = intent /\ "lock" \in Pcs
  BY <1>1 DEF SyncInv, Typed, flags, Pcs
<1>3. /\ call' \in [Callers -> CallType] /\ \A d \in Callers \ {c} : call'[d] = call[d]
      /\ call'[c].pc = "lock" /\ call'[c].op = "restart" /\ call'[c].plan = call[c].plan
      /\ call'[c].id = call[c].id
  BY <1>1, <1>2, GotoFields DEF SyncInv, Typed
<1>4. Typed'
  BY <1>1, <1>3 DEF SyncInv, Typed, registry, db, flags
<1>5. CallInv(c)'
  BY <1>1, <1>2, <1>3 DEF SyncInv, CallInv, SafeOps, Critical
<1> QED BY <1>1, <1>2, <1>3, <1>4, <1>5, OutsideStep DEF Critical

-----------------------------------------------------------------------------
(* cancel_sync_session *)

LEMMA CancelSignalStep ==
  ASSUME SyncInv, NEW c \in Callers, CancelSignal(c)
  PROVE  SyncInv'
<1>1. /\ call[c].pc = "signal" /\ call[c].pc \in Critical
      /\ UNCHANGED <<lock, transition, flags, reg, sessions, db, calls, halt>>
  BY DEF CancelSignal, Critical
<1>2. lock = {c} /\ \A d \in Callers \ {c} : call[d].pc \notin Critical
  BY <1>1, Alone
<1>3. intent \in Nat /\ intent' = intent
  BY <1>1 DEF SyncInv, Typed, flags
<1>4. CASE reg = 0
  <2>1. Goto(c, "cancelled") /\ tasks' = tasks /\ "cancelled" \in Pcs
    BY <1>4 DEF CancelSignal, Pcs
  <2>2. /\ call' \in [Callers -> CallType] /\ \A d \in Callers \ {c} : call'[d] = call[d]
        /\ call'[c].pc = "cancelled" /\ call'[c].op = call[c].op /\ call'[c].plan = call[c].plan
      /\ call'[c].id = call[c].id
    BY <2>1, GotoFields DEF SyncInv, Typed
  <2>3. Typed'
    BY <1>1, <2>1, <2>2 DEF SyncInv, Typed, db, flags
  <2>4. Running' = {} /\ ~IsSyncRunning'
    BY <1>1, <1>4, <2>1, RestMeansNone, SameRegistry DEF registry
  <2>5. CallInv(c)'
    BY <1>1, <1>2, <1>3, <2>2, <2>4 DEF SyncInv, CallInv, Critical
  <2> QED BY <1>1, <1>3, <2>1, <2>2, <2>3, <2>5, HolderMoves DEF registry
<1>5. CASE reg # 0
  <2> DEFINE p == IF sessions[reg].task # 0 THEN "wait" ELSE "final"
  <2>1. /\ call' = [call EXCEPT ![c].sess = reg, ![c].pc = p]
        /\ tasks' = [t \in Ids |-> IF t = sessions[reg].token
                                   THEN [tasks[t] EXCEPT !.cancelled = TRUE]
                                   ELSE tasks[t]]
    BY <1>5 DEF CancelSignal
  <2>2. p \in Pcs /\ p \in {"wait", "final"} /\ reg \in Tasks /\ reg \in Ids
    BY <1>5, MaxCallsAssumption DEF Pcs, SyncInv, Typed, Tasks, Ids
  <2>3. p = "final" => sessions[reg].task = 0
    OBVIOUS
  <2> HIDE DEF p
  <2>4. /\ call' \in [Callers -> CallType] /\ \A d \in Callers \ {c} : call'[d] = call[d]
        /\ call'[c].pc = p /\ call'[c].op = call[c].op /\ call'[c].plan = call[c].plan
      /\ call'[c].id = call[c].id
        /\ call'[c].sess = reg
    BY <2>1, <2>2 DEF SyncInv, Typed, CallType
  <2>5. /\ tasks' \in [Ids -> TaskType]
        /\ \A t \in Ids : /\ tasks'[t].pc = tasks[t].pc /\ tasks'[t].sess = tasks[t].sess
                          /\ tasks'[t].keys = tasks[t].keys /\ tasks'[t].kind = tasks[t].kind
    BY <2>1 DEF SyncInv, Typed, TaskType
  <2>6. Running' = Running
    BY <2>5 DEF Running
  <2>7. Typed'
    BY <1>1, <2>4, <2>5 DEF SyncInv, Typed, db, flags
  <2>8. TaskInv'
    BY <1>1, <2>5, <2>6 DEF SyncInv, TaskInv, db, Running
  <2>9. IsSyncRunning' <=> IsSyncRunning
    <3>1. sessions[reg].task \in Tasks
      BY <2>2 DEF SyncInv, Typed, SessionType
    <3>2. sessions[reg].task # 0 => sessions[reg].task \in Ids
      BY <3>1, MaxCallsAssumption DEF Tasks, Ids
    <3> QED BY <1>1, <2>5, <3>2 DEF IsSyncRunning, HasActiveWork
  <2>10. p = "final" => Running = {}
    BY <1>5, <2>3, RestMeansNone
  <2>11. CallInv(c)'
    BY <1>1, <1>2, <1>3, <2>2, <2>4, <2>6, <2>10 DEF SyncInv, CallInv, Critical
  <2> QED BY <1>1, <1>2, <1>3, <2>4, <2>7, <2>8, <2>9, <2>11, Bystanders DEF SyncInv, HaltInv
<1> QED BY <1>4, <1>5

LEMMA WaitForSyncStopStep ==
  ASSUME SyncInv, NEW c \in Callers, WaitForSyncStop(c)
  PROVE  SyncInv'
<1>1. /\ call[c].pc = "wait" /\ call[c].pc \in Critical /\ Goto(c, "final") /\ "final" \in Pcs
      /\ ~IsSyncRunning
      /\ UNCHANGED <<lock, transition, flags, registry, db, calls, halt>>
  BY DEF WaitForSyncStop, Critical, Pcs
<1>2. intent \in Nat /\ intent' = intent
  BY <1>1 DEF SyncInv, Typed, flags
<1>3. /\ call' \in [Callers -> CallType] /\ \A d \in Callers \ {c} : call'[d] = call[d]
      /\ call'[c].pc = "final" /\ call'[c].op = call[c].op /\ call'[c].plan = call[c].plan
      /\ call'[c].id = call[c].id
      /\ call'[c].sess = call[c].sess
  BY <1>1, GotoFields DEF SyncInv, Typed
<1>4. Typed'
  BY <1>1, <1>3 DEF SyncInv, Typed, registry, db, flags
<1>5. Running' = {}
  BY <1>1, RestMeansNone, SameRegistry
<1>6. CallInv(c)'
  BY <1>1, <1>2, <1>3, <1>5 DEF SyncInv, CallInv, Critical, registry
<1> QED BY <1>1, <1>2, <1>3, <1>4, <1>6, HolderMoves

LEMMA WaitTimeoutStep ==
  ASSUME SyncInv, NEW c \in Callers, WaitTimeout(c)
  PROVE  SyncInv'
<1>1. call[c].op \notin {"endpoint", "storage"}
  BY DEF SyncInv, CallInv, SafeOps
<1>2. /\ call[c].pc \in Critical /\ Return(c) /\ active' \in BOOLEAN
      /\ UNCHANGED <<intent, registry, db, calls, halt>>
  BY <1>1 DEF WaitTimeout, Critical, SyncInv, Typed
<1> QED BY <1>2, HolderReturns

LEMMA CancelFinalStep ==
  ASSUME SyncInv, NEW c \in Callers, CancelFinal(c)
  PROVE  SyncInv'
<1>1. /\ call[c].pc = "final" /\ call[c].pc \in Critical /\ Goto(c, "cancelled") /\ "cancelled" \in Pcs
      /\ sessions' = [sessions EXCEPT ![call[c].sess] = IdleSession] /\ active' = FALSE
      /\ UNCHANGED <<lock, transition, inflight, intent, reg, tasks, db, calls, halt>>
  BY DEF CancelFinal, Critical, Pcs
<1>2. lock = {c} /\ \A d \in Callers \ {c} : call[d].pc \notin Critical
  BY <1>1, Alone
<1>3. intent \in Nat /\ reg \in Ids /\ call[c].sess = reg /\ Running = {}
  BY <1>1 DEF SyncInv, Typed, CallInv
<1>4. /\ call' \in [Callers -> CallType] /\ \A d \in Callers \ {c} : call'[d] = call[d]
      /\ call'[c].pc = "cancelled" /\ call'[c].op = call[c].op /\ call'[c].plan = call[c].plan
      /\ call'[c].id = call[c].id
  BY <1>1, GotoFields DEF SyncInv, Typed
<1>5. /\ sessions' \in [Ids -> SessionType] /\ sessions'[reg] = IdleSession
  <2>1. IdleSession \in SessionType
    BY MaxCallsAssumption DEF IdleSession, SessionType, Tasks
  <2> QED BY <1>1, <1>3, <2>1 DEF SyncInv, Typed
<1>6. Typed'
  BY <1>1, <1>4, <1>5 DEF SyncInv, Typed, db
<1>7. Running' = {} /\ ~IsSyncRunning'
  BY <1>1, <1>3, <1>5 DEF Running, IsSyncRunning, HasActiveWork, IdleSession
<1>8. CallInv(c)'
  BY <1>1, <1>2, <1>3, <1>4, <1>7 DEF SyncInv, CallInv, Critical
<1>9. intent' >= intent /\ TaskInv' /\ HaltInv'
  BY <1>1, <1>3, <1>7 DEF TaskInv, HaltInv
<1> QED BY <1>1, <1>2, <1>4, <1>6, <1>8, <1>9, Bystanders

-----------------------------------------------------------------------------
(* stop, wallet switch, key import, background sync *)

LEMMA StopReturnStep ==
  ASSUME SyncInv, NEW c \in Callers, StopReturn(c)
  PROVE  SyncInv'
<1>1. /\ call[c].pc = "cancelled" /\ call[c].pc \in Critical /\ Return(c)
      /\ UNCHANGED <<active, intent, registry, db, calls>>
  BY DEF StopReturn, At, Critical
<1>2. /\ halt' \in {"no", "pending", "raced", "stopped", "stoppedRaced"}
      /\ halt' \in {"pending", "stopped"} => halt \in {"pending", "stopped"}
  BY DEF StopReturn, SyncInv, Typed
<1>3. Typed'
  BY <1>1, <1>2, ReturnFields DEF SyncInv, Typed, registry, db
<1>4. CallInv(c)' /\ \A d \in Callers \ {c} : call'[d] = call[d] /\ call[d].pc \notin Critical
  BY <1>1, ReturnFields, IdleCallInv, Alone DEF SyncInv
<1>5. HaltInv'
  <2>1. ~IsSyncRunning
    BY <1>1 DEF SyncInv, CallInv
  <2> QED BY <1>1, <2>1, SameRegistry DEF HaltInv
<1>6. TaskInv' /\ intent' >= intent
  BY <1>1, SameTasks DEF SyncInv, Typed
<1> QED BY <1>2, <1>3, <1>4, <1>5, <1>6, Bystanders

LEMMA SwitchCheckStep ==
  ASSUME SyncInv, NEW c \in Callers, SwitchCheck(c)
  PROVE  SyncInv'
<1>1. /\ call[c].pc = "body" /\ call[c].pc \in Critical /\ call[c].op = "switch"
      /\ UNCHANGED <<active, intent, registry, db, calls, halt>>
  BY DEF SwitchCheck, At, Critical
<1>2. CASE Return(c)
  BY <1>1, <1>2, HolderReturns DEF SyncInv, Typed
<1>3. CASE Goto(c, "signal") /\ UNCHANGED <<lock, transition, inflight>>
  <2>1. /\ call' \in [Callers -> CallType] /\ \A d \in Callers \ {c} : call'[d] = call[d]
        /\ call'[c].pc = "signal" /\ call'[c].op = "switch" /\ call'[c].id = call[c].id
    BY <1>1, <1>3, GotoFields DEF SyncInv, Typed, Pcs
  <2>2. Typed'
    BY <1>1, <1>3, <2>1 DEF SyncInv, Typed, registry, db
  <2>3. CallInv(c)'
    BY <1>1, <1>3, <2>1 DEF SyncInv, CallInv, Critical, SafeOps
  <2>4. intent' >= intent
    BY <1>1 DEF SyncInv, Typed
  <2> QED BY <1>1, <2>1, <2>2, <2>3, <2>4, HolderMoves
<1> QED BY <1>2, <1>3 DEF SwitchCheck

LEMMA ImportKeyStep ==
  ASSUME SyncInv, NEW c \in Callers, ImportKey(c)
  PROVE  SyncInv'
<1>1. /\ call[c].pc = "cancelled" /\ call[c].pc \in Critical /\ Return(c)
      /\ UNCHANGED <<active, intent, registry, calls, halt>>
      /\ keygen' \in {keygen, keygen + 1} /\ owed' \in {owed, TRUE}
  BY DEF ImportKey, At, Critical, db
<1>2. Typed'
  <2>1. keygen' \in Nat
    BY <1>1 DEF SyncInv, Typed
  <2>2. owed' \in BOOLEAN
    BY <1>1, Zenon DEF SyncInv, Typed
  <2> QED BY <1>1, <2>1, <2>2, ReturnFields DEF SyncInv, Typed, registry
<1>3. CallInv(c)' /\ \A d \in Callers \ {c} : call'[d] = call[d] /\ call[d].pc \notin Critical
  BY <1>1, ReturnFields, IdleCallInv, Alone DEF SyncInv
<1>4. Running' = {}
  BY <1>1, SameRegistry DEF SyncInv, CallInv
<1>5. TaskInv' /\ HaltInv' /\ intent' >= intent
  BY <1>1, <1>4, SameRegistry DEF SyncInv, Typed, TaskInv, HaltInv
<1> QED BY <1>1, <1>2, <1>3, <1>5, Bystanders

LEMMA BackgroundStep ==
  ASSUME SyncInv, NEW c \in Callers, BackgroundCheck(c) \/ BackgroundDone(c)
  PROVE  SyncInv'
<1>1. /\ call[c].pc \in {"body", "running"} /\ call[c].pc \in Critical /\ call[c].op = "background"
      /\ UNCHANGED <<active, intent, registry, db, calls, halt>>
  BY DEF BackgroundCheck, BackgroundDone, At, Critical
<1>2. CASE Return(c)
  BY <1>1, <1>2, HolderReturns DEF SyncInv, Typed
<1>3. CASE /\ ~IsSyncRunning /\ UNCHANGED <<lock, transition, inflight>>
           /\ call' = [call EXCEPT ![c].pc = "running", ![c].keys = keygen]
  <2> DEFINE v == [call[c] EXCEPT !.pc = "running", !.keys = keygen]
  <2>1. /\ v \in CallType /\ v.pc = "running" /\ v.op = "background" /\ v.id = call[c].id
        /\ v.keys = keygen /\ call' = [call EXCEPT ![c] = v]
    <3>1. call[c] \in CallType /\ "running" \in Pcs /\ keygen \in Nat
      BY DEF SyncInv, Typed, Pcs
    <3> QED BY <1>1, <1>3, <3>1 DEF CallType
  <2> HIDE DEF v
  <2>2. /\ call' \in [Callers -> CallType] /\ \A d \in Callers \ {c} : call'[d] = call[d]
        /\ call'[c] = v
    BY <2>1 DEF SyncInv, Typed
  <2>3. Typed'
    BY <1>1, <1>3, <2>2 DEF SyncInv, Typed, registry, db
  <2>4. Running' = {}
    BY <1>1, <1>3, SameRegistry, RestMeansNone
  <2>5. CallInv(c)'
    BY <1>1, <1>3, <2>1, <2>2, <2>4 DEF SyncInv, CallInv, Critical, SafeOps, Starting, db
  <2>6. intent' >= intent
    BY <1>1 DEF SyncInv, Typed
  <2> QED BY <1>1, <2>2, <2>3, <2>5, <2>6, HolderMoves
<1> QED BY <1>2, <1>3 DEF BackgroundCheck, BackgroundDone

-----------------------------------------------------------------------------
(* start_sync_with_guard *)

LEMMA StartCheckStep ==
  ASSUME SyncInv, NEW c \in Callers, StartCheck(c)
  PROVE  SyncInv'
<1>1. /\ call[c].pc = "check" /\ call[c].pc \in Critical /\ call[c].op \in {"start", "restart"}
      /\ UNCHANGED <<active, registry, db, calls, halt>>
  BY DEF StartCheck, At, Critical
<1>2. CASE Return(c) /\ UNCHANGED intent
  BY <1>1, <1>2, HolderReturns DEF SyncInv, Typed
<1>3. CASE /\ ~IsSyncRunning /\ ~owed /\ Goto(c, "register") /\ UNCHANGED <<lock, transition, inflight>>
           /\ intent' = IF call[c].op = "start" THEN intent + 1 ELSE intent
  <2>1. /\ call' \in [Callers -> CallType] /\ \A d \in Callers \ {c} : call'[d] = call[d]
        /\ call'[c].pc = "register" /\ call'[c].op = call[c].op /\ call'[c].plan = call[c].plan
        /\ call'[c].id = call[c].id
    BY <1>3, GotoFields DEF SyncInv, Typed, Pcs
  <2>2. intent \in Nat /\ intent' \in Nat /\ intent' >= intent /\ call[c].plan.gen \in Nat
    BY <1>3 DEF SyncInv, Typed, CallType, PlanType
  <2>3. Typed'
    BY <1>1, <1>3, <2>1, <2>2 DEF SyncInv, Typed, registry, db
  <2>4. Running' = {}
    BY <1>1, <1>3, SameRegistry, RestMeansNone
  <2>5. CallInv(c)'
    BY <1>1, <1>3, <2>1, <2>2, <2>4 DEF SyncInv, CallInv, Critical, Starting, db
  <2> QED BY <1>1, <2>1, <2>2, <2>3, <2>5, HolderMoves
<1> QED BY <1>2, <1>3 DEF StartCheck

LEMMA StartReplayStep ==
  ASSUME SyncInv, NEW c \in Callers, StartReplay(c)
  PROVE  SyncInv'
<1>1. /\ call[c].pc = "check" /\ call[c].pc \in Critical /\ call[c].op = "start"
      /\ intent' = intent + 1 /\ lock' = {}
      /\ call' = [call EXCEPT ![c].op = "rescan", ![c].pc = "enter"]
      /\ UNCHANGED <<transition, inflight, active, registry, db, calls, halt>>
  BY DEF StartReplay, At, Critical
<1> DEFINE v == [call[c] EXCEPT !.op = "rescan", !.pc = "enter"]
<1>2. /\ v \in CallType /\ v.pc = "enter" /\ v.op = "rescan" /\ v.id = call[c].id
      /\ call' = [call EXCEPT ![c] = v]
  <2>1. call[c] \in CallType /\ "enter" \in Pcs /\ "rescan" \in OpNames
    BY DEF SyncInv, Typed, Pcs, OpNames
  <2> QED BY <1>1, <2>1 DEF CallType
<1> HIDE DEF v
<1>3. /\ call' \in [Callers -> CallType] /\ \A d \in Callers \ {c} : call'[d] = call[d]
      /\ call'[c] = v
  BY <1>2 DEF SyncInv, Typed
<1>4. intent \in Nat /\ intent' \in Nat /\ intent' >= intent
  BY <1>1 DEF SyncInv, Typed
<1>5. Typed'
  BY <1>1, <1>3, <1>4 DEF SyncInv, Typed, registry, db
<1>6. CallInv(c)'
  BY <1>1, <1>2, <1>3 DEF SyncInv, CallInv, Critical, SafeOps, Starting
<1> QED BY <1>1, <1>3, <1>4, <1>5, <1>6, HolderMoves

LEMMA SessionTyped ==
  /\ IdleSession \in SessionType
  /\ \A t \in Tasks, b \in BOOLEAN, k \in Tasks : [startup |-> b, task |-> t, token |-> k] \in SessionType
  /\ [IdleSession EXCEPT !.startup = TRUE] \in SessionType
  /\ 0 \in Tasks /\ Ids \subseteq Tasks /\ Tasks = Ids \cup {0} /\ 0 \notin Ids
<1>1. 0 \in Tasks /\ Ids \subseteq Tasks /\ Tasks = Ids \cup {0} /\ 0 \notin Ids
  BY MaxCallsAssumption DEF Tasks, Ids
<1>2. \A t \in Tasks, b \in BOOLEAN, k \in Tasks : [startup |-> b, task |-> t, token |-> k] \in SessionType
  BY Zenon DEF SessionType
<1> QED BY <1>1, <1>2 DEF IdleSession, SessionType

LEMMA StartRegisterStep ==
  ASSUME SyncInv, NEW c \in Callers, StartRegister(c)
  PROVE  SyncInv'
<1> DEFINE s == IF reg = 0 THEN call[c].id ELSE reg
<1>1. /\ call[c].pc = "register" /\ call[c].pc \in Critical /\ call[c].op \in {"start", "restart"}
      /\ reg' = s /\ UNCHANGED <<active, intent, tasks, db, calls, halt>>
  BY DEF StartRegister, At, Critical
<1>2. s \in Ids /\ s \in Tasks
  BY <1>1, SessionTyped DEF SyncInv, Typed, CallInv
<1>3. /\ lock = {c} /\ Running = {} /\ ~owed /\ halt # "stopped"
      /\ \A d \in Callers \ {c} : call[d].pc \notin Critical
  BY <1>1, Alone DEF SyncInv, CallInv, Starting
<1>4. Running' = {} /\ TaskInv' /\ HaltInv'
  BY <1>1, <1>3 DEF Running, TaskInv, HaltInv
<1>5. intent \in Nat /\ intent' >= intent
  BY <1>1 DEF SyncInv, Typed
<1>6. CASE Return(c) /\ UNCHANGED sessions
  <2>1. Typed'
    BY <1>1, <1>2, <1>6, ReturnFields DEF SyncInv, Typed, db
  <2>2. CallInv(c)' /\ \A d \in Callers \ {c} : call'[d] = call[d]
    BY <1>6, ReturnFields, IdleCallInv DEF SyncInv
  <2> QED BY <1>1, <1>3, <1>4, <1>5, <2>1, <2>2, Bystanders
<1>7. CASE /\ sessions' = [sessions EXCEPT ![s] = [IdleSession EXCEPT !.startup = TRUE]]
           /\ call' = [call EXCEPT ![c].pc = "spawn", ![c].sess = s, ![c].keys = keygen]
           /\ UNCHANGED <<lock, transition, inflight>>
  <2> HIDE DEF s
  <2> DEFINE v == [call[c] EXCEPT !.pc = "spawn", !.sess = s, !.keys = keygen]
  <2>1. /\ v \in CallType /\ v.pc = "spawn" /\ v.op = call[c].op /\ v.id = call[c].id
        /\ v.sess = s /\ v.keys = keygen /\ v.plan = call[c].plan /\ call' = [call EXCEPT ![c] = v]
    <3>1. call[c] \in CallType /\ "spawn" \in Pcs /\ keygen \in Nat
      BY DEF SyncInv, Typed, Pcs
    <3> QED BY <1>2, <1>7, <3>1 DEF CallType
  <2> HIDE DEF v
  <2>2. /\ call' \in [Callers -> CallType] /\ \A d \in Callers \ {c} : call'[d] = call[d]
        /\ call'[c] = v
    BY <2>1 DEF SyncInv, Typed
  <2>3. sessions' \in [Ids -> SessionType]
    BY <1>2, <1>7, SessionTyped DEF SyncInv, Typed
  <2>4. Typed'
    BY <1>1, <1>2, <1>7, <2>2, <2>3 DEF SyncInv, Typed, db
  <2>5. CallInv(c)'
    BY <1>1, <1>2, <1>3, <1>4, <1>7, <2>1, <2>2 DEF SyncInv, CallInv, Critical, db
  <2> QED BY <1>1, <1>3, <1>4, <1>5, <2>2, <2>4, <2>5, Bystanders
<1> QED BY <1>6, <1>7 DEF StartRegister

LEMMA StartFailsStep ==
  ASSUME SyncInv, NEW c \in Callers, StartFails(c)
  PROVE  SyncInv'
<1>1. /\ call[c].pc = "spawn" /\ call[c].pc \in Critical /\ call[c].op \in {"start", "restart"}
      /\ sessions' = [sessions EXCEPT ![call[c].sess].startup = FALSE] /\ Return(c)
      /\ UNCHANGED <<active, intent, reg, tasks, db, calls, halt>>
  BY DEF StartFails, At, Critical
<1>2. sessions' \in [Ids -> SessionType]
  BY <1>1 DEF SyncInv, Typed, SessionType
<1>3. /\ Running = {} /\ halt # "stopped"
      /\ \A d \in Callers \ {c} : call[d].pc \notin Critical
  BY <1>1, Alone DEF SyncInv, CallInv, Starting
<1>4. TaskInv' /\ HaltInv'
  BY <1>1, <1>3 DEF Running, TaskInv, HaltInv
<1>5. Typed'
  BY <1>1, <1>2, ReturnFields DEF SyncInv, Typed, db
<1>6. CallInv(c)' /\ intent' >= intent /\ \A d \in Callers \ {c} : call'[d] = call[d]
  BY <1>1, ReturnFields, IdleCallInv DEF SyncInv, Typed
<1> QED BY <1>1, <1>3, <1>4, <1>5, <1>6, Bystanders

\* The one step that starts an engine.
LEMMA SpawnStep ==
  ASSUME SyncInv, NEW c \in Callers, StartSpawn(c) \/ RescanSpawn(c)
  PROVE  SyncInv'
<1> DEFINE kind == IF call[c].op = "rescan" THEN "rescan" ELSE "sync"
           t == call[c].id
           v == [NoTask EXCEPT !.pc = "run", !.kind = kind, !.sess = call[c].sess,
                               !.keys = call[c].keys, !.req = call[c].req]
<1>1. /\ call[c].pc = "spawn" /\ call[c].pc \in Critical /\ call[c].op \in {"start", "restart", "rescan"}
      /\ Return(c) /\ UNCHANGED <<active, intent, reg, db, calls, halt>>
      /\ sessions' = [sessions EXCEPT ![call[c].sess] = [startup |-> FALSE, task |-> t, token |-> t]]
      /\ tasks' = [tasks EXCEPT ![t] = v]
  BY DEF StartSpawn, RescanSpawn, Spawn, At, Critical
<1>2. /\ Running = {} /\ halt # "stopped" /\ reg \in Ids /\ call[c].sess = reg /\ t \in Ids
      /\ call[c].keys = keygen /\ (call[c].op # "rescan" => ~owed)
      /\ \A d \in Callers \ {c} : call[d].pc \notin Critical
  BY <1>1, Alone DEF SyncInv, CallInv, Starting
<1>3. /\ v \in TaskType /\ v.pc = "run" /\ v.kind = kind /\ v.sess = reg /\ v.keys = keygen
  <2>1. call[c] \in CallType /\ kind \in {"sync", "rescan"} /\ reg \in Tasks
    BY DEF SyncInv, Typed
  <2> HIDE DEF kind
  <2> QED BY <1>2, <2>1 DEF CallType, NoTask, TaskType
<1> HIDE DEF v
<1>4. tasks' \in [Ids -> TaskType] /\ tasks'[t] = v /\ \A u \in Ids \ {t} : tasks'[u] = tasks[u]
  BY <1>1, <1>2, <1>3 DEF SyncInv, Typed
<1>5. sessions' \in [Ids -> SessionType] /\ sessions'[reg].task = t
  <2>1. [startup |-> FALSE, task |-> t, token |-> t] \in SessionType
    BY <1>2, SessionTyped
  <2> QED BY <1>1, <1>2, <2>1 DEF SyncInv, Typed
<1>6. Running' = {t}
  BY <1>2, <1>3, <1>4 DEF Running
<1>7. TaskInv' /\ HaltInv'
  BY <1>1, <1>2, <1>3, <1>4, <1>5, <1>6 DEF TaskInv, HaltInv, db
<1>8. Typed'
  BY <1>1, <1>4, <1>5, ReturnFields DEF SyncInv, Typed, db
<1>9. CallInv(c)' /\ intent' >= intent /\ \A d \in Callers \ {c} : call'[d] = call[d]
  BY <1>1, ReturnFields, IdleCallInv DEF SyncInv, Typed
<1> QED BY <1>1, <1>2, <1>7, <1>8, <1>9, Bystanders

-----------------------------------------------------------------------------
(* rescan *)

LEMMA RescanPlanStep ==
  ASSUME SyncInv, NEW c \in Callers, RescanPlan(c)
  PROVE  SyncInv'
<1> DEFINE p == IF IsSyncRunning THEN "signal" ELSE "cancelled"
           q == IF owed THEN keygen ELSE 0
           v == [call[c] EXCEPT !.pc = p, !.req = q]
<1>1. /\ call[c].pc = "body" /\ call[c].pc \in Critical /\ call[c].op = "rescan"
      /\ call' = [call EXCEPT ![c].pc = p, ![c].req = q]
      /\ UNCHANGED <<lock, transition, flags, registry, db, calls, halt>>
  BY DEF RescanPlan, At, Critical
<1>2. p \in Pcs /\ p \in {"signal", "cancelled"} /\ (p = "cancelled" => ~IsSyncRunning) /\ q \in Nat
  BY DEF Pcs, SyncInv, Typed
<1> HIDE DEF p, q
<1>3. /\ v \in CallType /\ v.pc = p /\ v.op = "rescan" /\ v.id = call[c].id
      /\ call' = [call EXCEPT ![c] = v]
  <2>1. call[c] \in CallType
    BY DEF SyncInv, Typed
  <2> QED BY <1>1, <1>2, <2>1 DEF CallType
<1> HIDE DEF v
<1>4. /\ call' \in [Callers -> CallType] /\ \A d \in Callers \ {c} : call'[d] = call[d]
      /\ call'[c] = v
  BY <1>3 DEF SyncInv, Typed
<1>5. intent' >= intent /\ Typed'
  BY <1>1, <1>4 DEF SyncInv, Typed, registry, db, flags
<1>6. p = "cancelled" => Running' = {} /\ ~IsSyncRunning'
  BY <1>1, <1>2, SameRegistry, RestMeansNone
<1>7. CallInv(c)'
  BY <1>1, <1>2, <1>3, <1>4, <1>6 DEF SyncInv, CallInv, Critical, SafeOps
<1> QED BY <1>1, <1>4, <1>5, <1>7, HolderMoves

LEMMA RescanMarkStep ==
  ASSUME SyncInv, NEW c \in Callers, RescanMark(c)
  PROVE  SyncInv'
<1>0. intent' = intent
  BY DEF RescanMark
<1>1. /\ call[c].pc = "cancelled" /\ call[c].pc \in Critical /\ call[c].op = "rescan"
      /\ active' = TRUE /\ reg' = 0 /\ Goto(c, "register") /\ "register" \in Pcs
      /\ sessions' = [s \in Ids |-> IF s = reg
                                    THEN [sessions[s] EXCEPT !.startup = FALSE, !.task = 0]
                                    ELSE sessions[s]]
      /\ UNCHANGED <<lock, transition, inflight, intent, tasks, db, calls, halt>>
  BY DEF RescanMark, At, Critical, Pcs
<1>2. sessions' \in [Ids -> SessionType]
  <2>1. ASSUME NEW s \in Ids PROVE [sessions[s] EXCEPT !.startup = FALSE, !.task = 0] \in SessionType
    <3>1. sessions[s] \in SessionType /\ 0 \in Tasks
      BY SessionTyped DEF SyncInv, Typed
    <3> QED BY <3>1 DEF SessionType
  <2> QED BY <1>1, <2>1 DEF SyncInv, Typed
<1>3. /\ lock = {c} /\ Running = {} /\ halt # "stopped"
      /\ \A d \in Callers \ {c} : call[d].pc \notin Critical
  BY <1>1, Alone DEF SyncInv, CallInv, Starting
<1>4. Running' = {} /\ TaskInv' /\ HaltInv'
  BY <1>1, <1>3 DEF Running, TaskInv, HaltInv
<1>5. /\ call' \in [Callers -> CallType] /\ \A d \in Callers \ {c} : call'[d] = call[d]
      /\ call'[c].pc = "register" /\ call'[c].op = "rescan" /\ call'[c].id = call[c].id
  BY <1>1, GotoFields DEF SyncInv, Typed
<1>6. Typed' /\ intent' >= intent
  <2>1. reg' \in Tasks /\ active' \in BOOLEAN
    BY <1>1, SessionTyped
  <2>2. intent' >= intent
    BY <1>0 DEF SyncInv, Typed
  <2>3. Typed'
    BY <1>1, <1>2, <1>5, <2>1 DEF SyncInv, Typed, db
  <2> QED BY <2>2, <2>3
<1>7. CallInv(c)'
  BY <1>1, <1>3, <1>4, <1>5 DEF SyncInv, CallInv, Critical, SafeOps
<1> QED BY <1>1, <1>3, <1>4, <1>5, <1>6, <1>7, Bystanders

LEMMA RescanRegisterStep ==
  ASSUME SyncInv, NEW c \in Callers, RescanRegister(c)
  PROVE  SyncInv'
<1> DEFINE s == call[c].id
           v == [call[c] EXCEPT !.pc = "spawn", !.sess = s, !.keys = keygen]
<1>1. /\ call[c].pc = "register" /\ call[c].pc \in Critical /\ call[c].op = "rescan"
      /\ reg' = s
      /\ sessions' = [sessions EXCEPT ![s] = [startup |-> TRUE, task |-> 0, token |-> s]]
      /\ call' = [call EXCEPT ![c].pc = "spawn", ![c].sess = s, ![c].keys = keygen]
      /\ UNCHANGED <<lock, transition, flags, tasks, db, calls, halt>>
  BY DEF RescanRegister, At, Critical
<1>2. s \in Ids /\ s \in Tasks
  BY <1>1, SessionTyped DEF SyncInv, CallInv
<1>3. /\ lock = {c} /\ Running = {} /\ halt # "stopped"
      /\ \A d \in Callers \ {c} : call[d].pc \notin Critical
  BY <1>1, Alone DEF SyncInv, CallInv, Starting
<1>4. Running' = {} /\ TaskInv' /\ HaltInv'
  BY <1>1, <1>3 DEF Running, TaskInv, HaltInv
<1>5. /\ v \in CallType /\ v.pc = "spawn" /\ v.op = "rescan" /\ v.id = call[c].id
      /\ v.sess = s /\ v.keys = keygen /\ call' = [call EXCEPT ![c] = v]
  <2>1. call[c] \in CallType /\ "spawn" \in Pcs /\ keygen \in Nat
    BY DEF SyncInv, Typed, Pcs
  <2> QED BY <1>1, <1>2, <2>1 DEF CallType
<1> HIDE DEF v
<1>6. /\ call' \in [Callers -> CallType] /\ \A d \in Callers \ {c} : call'[d] = call[d]
      /\ call'[c] = v
  BY <1>5 DEF SyncInv, Typed
<1>7. sessions' \in [Ids -> SessionType]
  <2>1. [startup |-> TRUE, task |-> 0, token |-> s] \in SessionType
    BY <1>2, SessionTyped
  <2> QED BY <1>1, <1>2, <2>1 DEF SyncInv, Typed
<1>8. Typed' /\ intent' >= intent
  BY <1>1, <1>2, <1>6, <1>7 DEF SyncInv, Typed, db, flags
<1>9. CallInv(c)'
  BY <1>1, <1>2, <1>3, <1>4, <1>5, <1>6 DEF SyncInv, CallInv, Critical, SafeOps, db
<1> QED BY <1>1, <1>3, <1>4, <1>6, <1>8, <1>9, Bystanders

LEMMA RescanFailsStep ==
  ASSUME SyncInv, NEW c \in Callers, RescanFails(c)
  PROVE  SyncInv'
<1>1. /\ call[c].pc \in Critical /\ Return(c) /\ active' \in BOOLEAN
      /\ UNCHANGED <<intent, registry, db, calls, halt>>
  BY DEF RescanFails, Critical
<1> QED BY <1>1, HolderReturns

-----------------------------------------------------------------------------
(* The transport restart *)

LEMMA RestartCheckStep ==
  ASSUME SyncInv, NEW c \in Callers, RestartCheck(c)
  PROVE  SyncInv'
<1>1. /\ call[c].pc = "body" /\ call[c].pc \in Critical /\ call[c].op = "restart"
      /\ UNCHANGED <<active, intent, registry, db, calls, halt>>
  BY DEF RestartCheck, At, Critical
<1>2. CASE Return(c)
  BY <1>1, <1>2, HolderReturns DEF SyncInv, Typed
<1>3. CASE Goto(c, "signal") /\ UNCHANGED <<lock, transition, inflight>>
  <2>1. /\ call' \in [Callers -> CallType] /\ \A d \in Callers \ {c} : call'[d] = call[d]
        /\ call'[c].pc = "signal" /\ call'[c].op = "restart" /\ call'[c].id = call[c].id
        /\ call'[c].plan = call[c].plan
    BY <1>1, <1>3, GotoFields DEF SyncInv, Typed, Pcs
  <2>2. Typed' /\ intent' >= intent
    BY <1>1, <1>3, <2>1 DEF SyncInv, Typed, registry, db
  <2>3. CallInv(c)'
    BY <1>1, <1>3, <2>1 DEF SyncInv, CallInv, Critical, SafeOps
  <2> QED BY <1>1, <2>1, <2>2, <2>3, HolderMoves
<1> QED BY <1>2, <1>3 DEF RestartCheck

\* A stop that came after the plan was captured has raised the intent.
LEMMA RestartClaimStep ==
  ASSUME SyncInv, NEW c \in Callers, RestartClaim(c)
  PROVE  SyncInv'
<1>1. /\ call[c].pc = "cancelled" /\ call[c].pc \in Critical /\ call[c].op = "restart"
      /\ UNCHANGED <<active, registry, db, calls, halt>>
  BY DEF RestartClaim, At, Critical
<1>2. CASE Return(c) /\ UNCHANGED intent
  BY <1>1, <1>2, HolderReturns DEF SyncInv, Typed
<1>3. CASE /\ intent = call[c].plan.gen /\ intent' = Claimed(call[c].plan.gen)
           /\ Goto(c, "check") /\ UNCHANGED <<lock, transition, inflight>>
  <2>1. /\ call' \in [Callers -> CallType] /\ \A d \in Callers \ {c} : call'[d] = call[d]
        /\ call'[c].pc = "check" /\ call'[c].op = "restart" /\ call'[c].id = call[c].id
        /\ call'[c].plan = call[c].plan
    BY <1>1, <1>3, GotoFields DEF SyncInv, Typed, Pcs
  <2>2. intent \in Nat /\ intent' = intent + 1 /\ intent' \in Nat /\ intent' >= intent
    BY <1>3 DEF Claimed, SyncInv, Typed
  <2>3. Typed'
    BY <1>1, <1>3, <2>1, <2>2 DEF SyncInv, Typed, registry, db
  <2>4. halt # "stopped"
    BY <1>1, <1>3, <2>2 DEF SyncInv, CallInv
  <2>5. CallInv(c)'
    BY <1>1, <1>3, <2>1, <2>2, <2>4 DEF SyncInv, CallInv, Critical, SafeOps, Starting
  <2> QED BY <1>1, <2>1, <2>2, <2>3, <2>5, HolderMoves
<1> QED BY <1>2, <1>3 DEF RestartClaim

-----------------------------------------------------------------------------
(* The operations left out never start. *)
LEMMA NoClearing ==
  ASSUME SyncInv, NEW c \in Callers
  PROVE  ~(ClearRelease(c) \/ ClearWallet(c) \/ ClearAll(c) \/ EndpointTrigger(c))
<1>1. call[c].op \in SafeOps
  BY DEF SyncInv, CallInv
<1> QED BY <1>1 DEF ClearRelease, ClearWallet, ClearAll, EndpointTrigger, At, SafeOps

LEMMA CallStepInv ==
  ASSUME SyncInv, NEW c \in Callers, CallStep(c)
  PROVE  SyncInv'
BY RescanEnterStep, RestartCaptureStep, RestartTransitionStep, AcquireStep,
   CancelSignalStep, WaitForSyncStopStep, WaitTimeoutStep, CancelFinalStep,
   StopReturnStep, SwitchCheckStep, ImportKeyStep, BackgroundStep,
   StartCheckStep, StartReplayStep, StartRegisterStep, StartFailsStep, SpawnStep,
   RescanPlanStep, RescanMarkStep, RescanRegisterStep, RescanFailsStep,
   RestartCheckStep, RestartClaimStep, NoClearing DEF CallStep

-----------------------------------------------------------------------------
(* A new call.  It may begin an undisturbed stop: no call under way starts an *)
(* engine then, and every restart plan captured so far is behind the intent.  *)
LEMMA InvokeStep ==
  ASSUME SyncInv, NEW c \in Callers, NEW o \in SafeOps, Invoke(c, o)
  PROVE  SyncInv'
<1>1. /\ call[c].pc = "idle" /\ calls < MaxCalls /\ calls' = calls + 1
      /\ o = "restart" => IsSyncRunning
      /\ intent' = IF o \in Supersedes THEN intent + 1 ELSE intent
      /\ halt' = HaltAfterEntry(o)
      /\ UNCHANGED <<lock, transition, inflight, active, registry, db>>
  BY DEF Invoke
<1>2. PICK token \in {0} \cup (IF o = "restart" THEN {sessions[reg].token} ELSE {}) :
          call' = [call EXCEPT ![c] =
                     [IdleCall EXCEPT !.op = o, !.pc = Entry(o), !.id = calls + 1,
                                      !.plan.sess = IF o = "restart" THEN reg ELSE 0,
                                      !.plan.token = token,
                                      !.ran = o = "endpoint" /\ IsSyncRunning,
                                      !.halts = o = "stop"]]
  BY DEF Invoke
<1> DEFINE e == Entry(o)
           i == calls + 1
           s == IF o = "restart" THEN reg ELSE 0
           r == o = "endpoint" /\ IsSyncRunning
           h == o = "stop"
           v == [IdleCall EXCEPT !.op = o, !.pc = e, !.id = i, !.plan.sess = s, !.plan.token = token,
                                 !.ran = r, !.halts = h]
<1>3. calls \in Nat /\ i \in Ids /\ i \in Tasks
  BY <1>1, MaxCallsAssumption DEF SyncInv, Typed, Tasks, Ids
<1>4. s \in Tasks /\ token \in Tasks
  <2>1. reg \in Tasks /\ (o = "restart" => reg \in Ids)
    BY <1>1, SessionTyped DEF SyncInv, Typed, IsSyncRunning, HasActiveWork
  <2>2. token \in Tasks
    BY <2>1, SessionTyped DEF SyncInv, Typed, SessionType
  <2> QED BY <2>1, <2>2, SessionTyped
<1>5. /\ e \in {"enter", "capture", "lock"} /\ e \in Pcs /\ o \in OpNames
      /\ o = "restart" => e = "capture"
  BY DEF Entry, SafeOps, Pcs, OpNames
<1>6. call' = [call EXCEPT ![c] = v]
  BY <1>2, Zenon
<1>7. v \in CallType /\ v.pc = e /\ v.op = o /\ v.id = i
  <2>1. r \in BOOLEAN /\ h \in BOOLEAN
    OBVIOUS
  <2> HIDE DEF e, i, s, r, h
  <2> QED BY <1>3, <1>4, <1>5, <2>1, IdleTyped DEF CallType, PlanType
<1> HIDE DEF v
<1>8. /\ call' \in [Callers -> CallType] /\ \A d \in Callers \ {c} : call'[d] = call[d]
      /\ call'[c] = v
  BY <1>6, <1>7 DEF SyncInv, Typed
<1>9. intent \in Nat /\ intent' \in Nat /\ intent' >= intent
  BY <1>1 DEF SyncInv, Typed
<1>10. /\ halt' \in {"no", "pending", "raced", "stopped", "stoppedRaced"}
       /\ halt' = "stopped" => halt = "stopped"
       /\ halt' \in {"pending", "stopped"} => o \notin Starting
       /\ halt' = "pending" => o # "restart"
  BY <1>1 DEF HaltAfterEntry, Starting, SyncInv, Typed
<1>11. halt' \in {"pending", "stopped"} /\ halt \notin {"pending", "stopped"} =>
         /\ o = "stop"
         /\ \A d \in Callers : call[d].pc # "capture" /\ (call[d].pc # "idle" => call[d].op \notin Starting)
  BY <1>1 DEF HaltAfterEntry, Starting, SyncInv, Typed
<1>12. halt = "stopped" => o # "restart"
  BY <1>1 DEF SyncInv, HaltInv
<1>13. Typed'
  BY <1>1, <1>3, <1>8, <1>9, <1>10 DEF SyncInv, Typed, registry, db
<1>14. TaskInv' /\ HaltInv'
  BY <1>1, <1>10, SameTasks, SameRegistry DEF SyncInv, HaltInv
<1>15. CallInv(c)'
  BY <1>3, <1>5, <1>7, <1>8, <1>10, <1>12 DEF CallInv, Critical
<1>16. ASSUME NEW d \in Callers \ {c} PROVE CallInv(d)'
  <2>1. CallInv(d) /\ call'[d] = call[d]
    BY <1>8 DEF SyncInv
  <2>2. call[d].plan.gen \in Nat
    BY DEF SyncInv, Typed, CallType, PlanType
  <2>3. Running' = Running /\ (IsSyncRunning' <=> IsSyncRunning)
    BY <1>1, SameRegistry
  <2>4. halt' \in {"pending", "stopped"} /\ call[d].pc # "idle" =>
          /\ call[d].op \notin Starting
          /\ call[d].op = "restart" =>
               /\ call[d].pc # "capture"
               /\ call[d].plan.gen < intent' \/ call[d].pc \in {"check", "register", "spawn"}
    <3>1. CASE halt \in {"pending", "stopped"}
      BY <1>9, <2>1, <2>2, <3>1 DEF CallInv
    <3>2. CASE halt \notin {"pending", "stopped"} /\ halt' \in {"pending", "stopped"}
      <4>1. o = "stop" /\ intent' = intent + 1
        BY <1>1, <1>11, <3>2 DEF Supersedes
      <4> QED BY <1>9, <1>11, <2>1, <2>2, <3>2, <4>1 DEF CallInv
    <3> QED BY <3>1, <3>2
  <2> QED BY <1>1, <1>9, <1>10, <2>1, <2>2, <2>3, <2>4 DEF CallInv, registry, db
<1> QED BY <1>13, <1>14, <1>15, <1>16 DEF SyncInv

-----------------------------------------------------------------------------
(* The spawned tasks *)

LEMMA TaskEndsStep ==
  ASSUME SyncInv, NEW t \in Ids, TaskEnds(t)
  PROVE  SyncInv'
<1>1. t \in Running /\ reg \in Ids /\ tasks[t].sess = reg /\ sessions[reg].task = t
  BY DEF TaskEnds, Running, SyncInv, TaskInv
<1>2. Running = {t}
  BY <1>1 DEF SyncInv, TaskInv
<1>3. PICK ok \in BOOLEAN :
          LET rescan == tasks[t].kind = "rescan"
              eligible == owed /\ tasks[t].req = keygen
              discharged == rescan /\ ok /\ tasks[t].req # 0 /\ eligible
          IN /\ tasks' = [tasks EXCEPT ![t] =
                            [NoTask EXCEPT !.pc = IF rescan THEN "guard" ELSE "done",
                                           !.cancelled = tasks[t].cancelled,
                                           !.ok = rescan /\ ok /\ (tasks[t].req # 0 => eligible)]]
             /\ sessions' = [sessions EXCEPT ![tasks[t].sess] =
                               [startup |-> FALSE, task |-> 0,
                                token |-> IF rescan THEN @.token ELSE 0]]
             /\ owed' = (owed /\ ~discharged)
  BY DEF TaskEnds
<1>4. UNCHANGED <<lock, transition, flags, reg, keygen, call, calls, halt>>
  BY DEF TaskEnds
<1> DEFINE p == IF tasks[t].kind = "rescan" THEN "guard" ELSE "done"
           good == /\ tasks[t].kind = "rescan" /\ ok
                   /\ (tasks[t].req # 0 => owed /\ tasks[t].req = keygen)
           v == [NoTask EXCEPT !.pc = p, !.cancelled = tasks[t].cancelled, !.ok = good]
           k == IF tasks[t].kind = "rescan" THEN sessions[reg].token ELSE 0
           s == [startup |-> FALSE, task |-> 0, token |-> k]
<1>5. tasks' = [tasks EXCEPT ![t] = v]
  BY <1>3, Zenon
<1>6. sessions' = [sessions EXCEPT ![reg] = s]
  BY <1>1, <1>3
<1>7. owed' \in BOOLEAN /\ (owed' => owed)
  BY <1>3
<1>8. v \in TaskType /\ v.pc # "run"
  <2>1. p \in {"guard", "done"} /\ good \in BOOLEAN /\ tasks[t].cancelled \in BOOLEAN
    BY DEF SyncInv, Typed, TaskType
  <2> HIDE DEF p, good
  <2> QED BY <2>1, SessionTyped DEF TaskType, NoTask
<1>9. s \in SessionType /\ s.task = 0 /\ s.startup = FALSE
  <2>1. k \in Tasks
    BY <1>1, SessionTyped DEF SyncInv, Typed, SessionType
  <2> HIDE DEF k
  <2> QED BY <2>1, SessionTyped
<1> HIDE DEF v, s
<1>10. /\ tasks' \in [Ids -> TaskType] /\ tasks'[t] = v /\ \A u \in Ids \ {t} : tasks'[u] = tasks[u]
       /\ sessions' \in [Ids -> SessionType] /\ sessions'[reg] = s
  BY <1>1, <1>5, <1>6, <1>8, <1>9 DEF SyncInv, Typed
<1>11. Running' = {} /\ ~IsSyncRunning'
  BY <1>2, <1>4, <1>8, <1>9, <1>10 DEF Running, IsSyncRunning, HasActiveWork
<1>12. Typed'
  BY <1>4, <1>7, <1>10 DEF SyncInv, Typed, flags
<1>13. TaskInv' /\ HaltInv'
  BY <1>11 DEF TaskInv, HaltInv
<1>14. \A d \in Callers : CallInv(d)'
  BY <1>4, <1>7, <1>11 DEF SyncInv, CallInv, flags
<1> QED BY <1>12, <1>13, <1>14 DEF SyncInv

\* What is left of a task after its engine has ended changes nothing the calls see.
LEMMA LateTask ==
  ASSUME SyncInv, NEW t \in Ids, tasks[t].pc \in {"guard", "trigger"},
         NEW p \in {"trigger", "done"}, NEW b \in BOOLEAN,
         tasks' = [tasks EXCEPT ![t].pc = p, ![t].ok = b],
         UNCHANGED <<reg, sessions, db>>
  PROVE  /\ tasks' \in [Ids -> TaskType] /\ Running' = Running /\ TaskInv'
         /\ IsSyncRunning' => IsSyncRunning
<1>1. /\ tasks' \in [Ids -> TaskType] /\ tasks'[t].pc = p /\ \A u \in Ids \ {t} : tasks'[u] = tasks[u]
  BY DEF SyncInv, Typed, TaskType
<1>2. Running' = Running /\ t \notin Running
  BY <1>1 DEF Running
<1>3. TaskInv'
  BY <1>1, <1>2 DEF SyncInv, TaskInv, db, Running
<1>4. IsSyncRunning' => IsSyncRunning
  <2>1. reg \in Tasks /\ (reg # 0 => reg \in Ids /\ sessions[reg].task \in Tasks)
    BY SessionTyped DEF SyncInv, Typed, SessionType
  <2>2. reg # 0 /\ sessions[reg].task # 0 => sessions[reg].task \in Ids
    BY <2>1, SessionTyped
  <2> QED BY <1>1, <2>2 DEF IsSyncRunning, HasActiveWork
<1> QED BY <1>1, <1>2, <1>3, <1>4

LEMMA RescanGuardDropStep ==
  ASSUME SyncInv, NEW t \in Ids, RescanGuardDrop(t)
  PROVE  SyncInv'
<1> DEFINE p == IF tasks[t].ok THEN "trigger" ELSE "done"
<1>1. /\ tasks[t].pc = "guard" /\ active' = FALSE
      /\ tasks' = [tasks EXCEPT ![t].pc = p, ![t].ok = FALSE]
      /\ UNCHANGED <<lock, transition, inflight, intent, reg, sessions, db, call, calls, halt>>
  BY DEF RescanGuardDrop
<1>2. p \in {"trigger", "done"}
  OBVIOUS
<1> HIDE DEF p
<1>3. /\ tasks' \in [Ids -> TaskType] /\ Running' = Running /\ TaskInv'
      /\ IsSyncRunning' => IsSyncRunning
  BY <1>1, <1>2, LateTask
<1>4. Typed'
  BY <1>1, <1>3 DEF SyncInv, Typed, db
<1>5. \A d \in Callers : CallInv(d)'
  BY <1>1, <1>3 DEF SyncInv, CallInv, db
<1> QED BY <1>1, <1>3, <1>4, <1>5 DEF SyncInv, HaltInv

LEMMA RescanTriggerStep ==
  ASSUME SyncInv, NEW t \in Ids, RescanTrigger(t)
  PROVE  SyncInv'
<1>1. /\ tasks[t].pc = "trigger" /\ tasks' = [tasks EXCEPT ![t].pc = "done"]
      /\ UNCHANGED <<lock, transition, flags, reg, sessions, db>>
  BY DEF RescanTrigger
<1>2. tasks' = [tasks EXCEPT ![t].pc = "done", ![t].ok = tasks[t].ok] /\ tasks[t].ok \in BOOLEAN
  BY <1>1 DEF SyncInv, Typed, TaskType
<1>3. /\ tasks' \in [Ids -> TaskType] /\ Running' = Running /\ TaskInv'
      /\ IsSyncRunning' => IsSyncRunning
  BY <1>1, <1>2, LateTask
<1>4. CASE UNCHANGED <<call, calls, halt>>
  <2>1. Typed'
    BY <1>1, <1>3, <1>4 DEF SyncInv, Typed, db, flags
  <2>2. \A d \in Callers : CallInv(d)'
    BY <1>1, <1>3, <1>4 DEF SyncInv, CallInv, db, flags
  <2> QED BY <1>3, <1>4, <2>1, <2>2 DEF SyncInv, HaltInv
<1>5. CASE /\ calls < MaxCalls /\ calls' = calls + 1 /\ halt' = "no"
           /\ \E c \in Callers :
                /\ call[c].pc = "idle"
                /\ call' = [call EXCEPT ![c] = [IdleCall EXCEPT !.op = "start",
                                                  !.pc = "lock", !.id = calls + 1]]
  <2>1. PICK c \in Callers :
                /\ call[c].pc = "idle"
                /\ call' = [call EXCEPT ![c] = [IdleCall EXCEPT !.op = "start",
                                                  !.pc = "lock", !.id = calls + 1]]
    BY <1>5
  <2> DEFINE n == calls + 1
             v == [IdleCall EXCEPT !.op = "start", !.pc = "lock", !.id = n]
  <2>2. n \in Ids /\ n \in Tasks
    BY <1>5, MaxCallsAssumption DEF SyncInv, Typed, Tasks, Ids
  <2> HIDE DEF n
  <2>3. v \in CallType /\ v.op = "start" /\ v.pc = "lock" /\ v.id = n
    <3>1. "lock" \in Pcs /\ "start" \in OpNames
      BY DEF Pcs, OpNames
    <3> QED BY <2>2, <3>1, IdleTyped DEF CallType
  <2>4. call' = [call EXCEPT ![c] = v]
    BY <2>1 DEF n
  <2> HIDE DEF v
  <2>5. /\ call' \in [Callers -> CallType] /\ call'[c] = v
        /\ \A d \in Callers \ {c} : call'[d] = call[d]
    BY <2>3, <2>4 DEF SyncInv, Typed
  <2>6. Typed'
    BY <1>1, <1>3, <1>5, <2>2, <2>5 DEF SyncInv, Typed, db, flags, n
  <2>7. CallInv(c)'
    BY <1>5, <2>2, <2>3, <2>5 DEF CallInv, Critical, SafeOps
  <2>8. \A d \in Callers \ {c} : CallInv(d)'
    BY <1>1, <1>3, <1>5, <2>5 DEF SyncInv, CallInv, db, flags
  <2> QED BY <1>3, <1>5, <2>6, <2>7, <2>8 DEF SyncInv, HaltInv
<1> QED BY <1>4, <1>5 DEF RescanTrigger

-----------------------------------------------------------------------------
(* Every step of every call and task keeps the invariant. *)
LEMMA SyncInductive ==
  ASSUME Ops \subseteq SafeOps
  PROVE  Spec => []SyncInv
<1>1. SyncInv /\ [Next]_vars => SyncInv'
  <2> SUFFICES ASSUME SyncInv, [Next]_vars PROVE SyncInv'
    OBVIOUS
  <2>1. CASE UNCHANGED vars
    <3>1. UNCHANGED <<lock, transition, inflight, active, intent, reg, sessions, tasks, keygen, owed,
                      call, calls, halt>>
      BY <2>1 DEF vars, flags, registry, db
    <3> QED BY <3>1 DEF SyncInv, Typed, CallInv, TaskInv, HaltInv, Running, IsSyncRunning, HasActiveWork
  <2>2. CASE \E c \in Callers, o \in Ops : Invoke(c, o)
    BY <2>2, InvokeStep
  <2>3. CASE \E c \in Callers : CallStep(c)
    BY <2>3, CallStepInv
  <2>4. CASE \E t \in Ids : TaskStep(t)
    BY <2>4, TaskEndsStep, RescanGuardDropStep, RescanTriggerStep DEF TaskStep
  <2> QED BY <2>1, <2>2, <2>3, <2>4 DEF Next
<1> QED BY <1>1, InitInv, PTL DEF Spec

LEMMA InvOneOwner == SyncInv => OneOwner
<1> SUFFICES ASSUME SyncInv PROVE OneOwner
  OBVIOUS
<1>1. \A c \in Writers : /\ c \in Callers /\ lock = {c} /\ Running = {}
  BY DEF Writers, At, SyncInv, CallInv, Critical
<1>2. \A t \in Running, u \in Running : t = u
  BY DEF SyncInv, TaskInv
<1>3. CASE Writers = {}
  <2>1. Cardinality(Writers) = 0
    BY <1>3, FS_EmptySet
  <2>2. CASE Running = {}
    BY <1>1, <2>1, <2>2, FS_EmptySet DEF OneOwner
  <2>3. CASE Running # {}
    <3>1. PICK t : Running = {t}
      BY <1>2, <2>3
    <3> QED BY <1>1, <2>1, <3>1, FS_Singleton DEF OneOwner
  <2> QED BY <2>2, <2>3
<1>4. CASE Writers # {}
  <2>1. PICK c : Writers = {c}
    BY <1>1, <1>4
  <2>2. Running = {}
    BY <1>1, <1>4
  <2>3. Cardinality(Running) = 0 /\ Cardinality(Writers) = 1
    BY <2>1, <2>2, FS_Singleton, FS_EmptySet
  <2>4. \A d \in Writers : d \in lock
    BY <1>1
  <2> QED BY <2>3, <2>4 DEF OneOwner
<1> QED BY <1>3, <1>4

(* docs/sync-engine.md: a wallet database never has two owners.  Whatever    *)
(* starts, stops, switches, rescans, imports and transport restarts          *)
(* interleave, one engine task, background engine, rewind or key import      *)
(* works on it at a time, and the last three under the operation lock.       *)
THEOREM OwnerUnique ==
  ASSUME Ops \subseteq SafeOps
  PROVE  Spec => []OneOwner
BY SyncInductive, InvOneOwner, PTL

(* cancel_sync_session keeps a timed-out task registered: an engine that     *)
(* runs is always the task of the session in SYNC_SESSIONS, so no later call *)
(* overlooks it.                                                             *)
THEOREM EngineAlwaysFound ==
  ASSUME Ops \subseteq SafeOps
  PROVE  Spec => []TaskRegistered
<1>1. SyncInv => TaskRegistered
  BY DEF SyncInv, TaskInv, TaskRegistered
<1> QED BY <1>1, SyncInductive, PTL

(* acquire_exclusive_key_import: no engine, background or other, runs with   *)
(* the account keys of before an import, and an ordinary sync never runs     *)
(* while an imported key's history is owed.                                  *)
THEOREM KeysNeverStale ==
  ASSUME Ops \subseteq SafeOps
  PROVE  Spec => []NoStaleKeySnapshot
<1>1. SyncInv => NoStaleKeySnapshot
  BY DEF SyncInv, TaskInv, CallInv, NoStaleKeySnapshot, At
<1> QED BY <1>1, SyncInductive, PTL

(* An explicit stop wins over every transport restart planned before it: the *)
(* claim of the intent generation fails, for any number of queued restarts.  *)
THEOREM StopStaysInForce ==
  ASSUME Ops \subseteq SafeOps
  PROVE  Spec => []StopWins
<1>1. SyncInv => StopWins
  BY RestMeansNone DEF SyncInv, HaltInv, StopWins
<1> QED BY <1>1, SyncInductive, PTL

(* Sessions, tasks and calls keep to their tables; no step reads a session   *)
(* or a task that was never created.                                         *)
THEOREM ControlTyped ==
  ASSUME Ops \subseteq SafeOps
  PROVE  Spec => []TypeOK
<1>1. SyncInv => TypeOK
  BY TypedIsTypeOK DEF SyncInv
<1> QED BY <1>1, SyncInductive, PTL

-----------------------------------------------------------------------------
(***************************************************************************)
(* That the files of Vault stay usable, for every set of wallets, phrases  *)
(* and reader threads and any number of changes and failing steps.         *)
(*                                                                         *)
(* The inductive invariant says, for each program point of an operation,   *)
(* which files are under which passphrase.  Listed: what the registry or   *)
(* the process lists has its secret, and the wallet being created or       *)
(* deleted is not listed yet or not listed any more.  Settled: between     *)
(* passphrase changes the registry's key, its hash, the passphrase in      *)
(* memory and every listed file agree.  Halfway: inside a change, a file   *)
(* is under the old passphrase or under the new one and then in the list   *)
(* that the rollback walks, which is why the rollback ends with all of     *)
(* them under the old one.  Both hold until a change is cut short, which   *)
(* torn records.  Handles: a thread whose cache is of the current epoch    *)
(* holds, or is about to insert, handles of the verified passphrase only.  *)
(***************************************************************************)

SomePhrase == Phrases \cup {NoPhrase}
SomeWallet == Wallets \cup {NoWallet}
OpPcs == {"", "secret", "register", "active", "files", "wallets", "tables", "rollback",
          "hash", "insert", "finish"}

ListingType == [key : SomePhrase, hash : SomePhrase, rows : SUBSET Wallets, active : SomeWallet,
                sealed : SomePhrase]
FileType == [key : SomePhrase, tables : SomePhrase, sealed : SomePhrase, secret : BOOLEAN]
MemType == [phrase : SomePhrase, loaded : BOOLEAN, wallets : SUBSET Wallets, active : SomeWallet]
OpType == [kind : {"none", "create", "delete", "change"}, pc : OpPcs, w : SomeWallet,
           old : SomePhrase, new : SomePhrase, todo : SUBSET Wallets, done : Seq(Wallets)]
CacheType == [epoch : Nat, entries : [Wallets -> SomePhrase]]
ReadType == [pc : {"rest", "sync", "look", "open", "insert"}, phrase : SomePhrase,
             w : SomeWallet, key : SomePhrase]

VaultTypes ==
    /\ keystore \in BOOLEAN
    /\ listing \in ListingType
    /\ files \in [Wallets -> FileType]
    /\ mem \in MemType
    /\ op \in OpType
    /\ epoch \in Nat
    /\ cache \in [Readers -> CacheType]
    /\ reader \in [Readers -> ReadType]
    /\ \A r \in Readers : reader[r].pc # "rest" => reader[r].w \in Wallets

\* The wallet an operation creates or deletes is in no list while it works.
Listed ==
    /\ mem.wallets \subseteq listing.rows
    /\ op.kind \in {"create", "delete"} => op.w \in Wallets /\ op.w \notin listing.rows
    /\ op.kind = "create" /\ op.pc = "register" => files[op.w].secret
    /\ op.kind = "change" /\ op.pc = "tables" => op.w \in Wallets
    /\ \A w \in listing.rows : files[w].secret

\* The file of w and the rows in it are under the passphrase p.
Under(w, p) == files[w].key = p /\ files[w].tables = p
\* A rollback would take w back.
Done(w) == \E i \in 1..Len(op.done) : op.done[i] = w

\* At rest everything is under the verified passphrase.
Settled ==
    op.kind # "change" =>
        /\ listing.hash \in Phrases /\ listing.key = listing.hash
        /\ mem.phrase \in {NoPhrase, listing.hash}
        /\ \A w \in listing.rows : Under(w, listing.hash)
        /\ op.kind \in {"create", "delete"} => Under(op.w, listing.hash)

\* How far a change has come, by its program point.
Halfway ==
    op.kind = "change" =>
        /\ op.old \in Phrases /\ op.new \in Phrases /\ mem.phrase = op.old
        /\ op.todo \subseteq listing.rows
        /\ op.pc \in {"wallets", "tables", "rollback"} =>
             listing.key = op.old /\ listing.hash = op.old
        /\ op.pc = "hash" => listing.key = op.new /\ listing.hash = op.old
        /\ op.pc = "insert" => listing.key = op.new
        /\ op.pc = "finish" => listing.key = op.new /\ listing.hash = op.new
        /\ op.pc = "wallets" =>
             \A w \in listing.rows : IF w \in op.todo THEN Under(w, op.old) ELSE Under(w, op.new) /\ Done(w)
        /\ op.pc = "tables" =>
             /\ op.w \in op.todo /\ files[op.w].key = op.new /\ files[op.w].tables = op.old
             /\ \A w \in listing.rows \ {op.w} :
                  IF w \in op.todo THEN Under(w, op.old) ELSE Under(w, op.new) /\ Done(w)
        /\ op.pc = "rollback" =>
             \A w \in listing.rows : Under(w, op.old) \/ (Under(w, op.new) /\ Done(w))
        /\ op.pc \in {"hash", "insert", "finish"} =>
             \A w \in listing.rows : Under(w, op.new) /\ Done(w)
        /\ op.pc \in {"wallets", "tables", "rollback", "hash", "insert", "finish"}

PhraseInv == "change" \notin torn => Settled /\ Halfway

\* The wallets a reader past its look-up may be opening: delete_wallet keeps the
\* file of the one it removes until the caches are invalidated.
Kept == mem.wallets \cup (IF op.kind = "delete" THEN {op.w} ELSE {})

\* A cache of the current epoch holds keys of the verified passphrase only.
Handles ==
    /\ \A r \in Readers : cache[r].epoch <= epoch
    /\ op.kind # "change" /\ torn \cap {"change", "rollback"} = {} =>
         \A r \in Readers : cache[r].epoch = epoch =>
           /\ reader[r].pc \in {"open", "insert"} => reader[r].w \in Kept
           /\ reader[r].pc = "insert" => reader[r].key = listing.hash
           /\ \A w \in Wallets : cache[r].entries[w] \in {NoPhrase, listing.hash}

VaultInv == VaultTypes /\ Listed /\ PhraseInv /\ Handles

-----------------------------------------------------------------------------
LEMMA VaultConstants ==
  /\ FirstPhrase \in Phrases /\ FirstPhrase \in SomePhrase
  /\ NoPhrase \notin Phrases /\ NoPhrase \in SomePhrase
  /\ NoWallet \notin Wallets /\ NoWallet \in SomeWallet
BY VaultAssumption DEF SomePhrase, SomeWallet

LEMMA ConstantsTyped ==
  /\ NoFile \in FileType /\ NoRead \in ReadType /\ Locked \in MemType
  /\ NoOp \in OpType /\ NoOp.kind = "none"
  /\ [epoch |-> 0, entries |-> [w \in Wallets |-> NoPhrase]] \in CacheType
<1>1. NoFile \in FileType
  BY VaultConstants DEF NoFile, FileType
<1>2. NoRead \in ReadType
  BY VaultConstants DEF NoRead, ReadType
<1>3. Locked \in MemType
  BY VaultConstants DEF Locked, MemType
<1>4. NoOp \in OpType /\ NoOp.kind = "none"
  BY VaultConstants DEF NoOp, OpType, OpPcs
<1>5. [epoch |-> 0, entries |-> [w \in Wallets |-> NoPhrase]] \in CacheType
  BY VaultConstants DEF CacheType
<1> QED BY <1>1, <1>2, <1>3, <1>4, <1>5

LEMMA LoadedFields ==
  ASSUME listing \in ListingType, NEW m \in MemType
  PROVE  /\ LoadedFrom(m) \in MemType /\ LoadedFrom(m).phrase = m.phrase
         /\ LoadedFrom(m).wallets = listing.rows
BY DEF LoadedFrom, ListingType, MemType

LEMMA VaultInitInv == VaultInit => VaultInv
<1> SUFFICES ASSUME VaultInit PROVE VaultInv
  OBVIOUS
<1>1. VaultTypes
  <2>1. listing \in ListingType
    BY VaultConstants DEF VaultInit, ListingType
  <2>2. mem \in MemType
    BY VaultConstants DEF VaultInit, Locked, MemType
  <2> QED BY <2>1, <2>2, ConstantsTyped DEF VaultInit, VaultTypes, NoRead
<1>2. Listed
  BY DEF VaultInit, Listed, Locked, NoOp
<1>3. PhraseInv
  BY VaultConstants DEF VaultInit, PhraseInv, Settled, Halfway, Locked, NoOp
<1>4. Handles
  BY DEF VaultInit, Handles, NoRead
<1> QED BY <1>1, <1>2, <1>3, <1>4 DEF VaultInv

(* Raising the epoch makes every cache stale. *)
LEMMA EpochRaised ==
  ASSUME VaultInv, cache' = cache, epoch' = epoch + 1
  PROVE  Handles'
<1>1. \A r \in Readers : cache[r].epoch \in Nat /\ cache[r].epoch <= epoch
  BY DEF VaultInv, VaultTypes, Handles, CacheType
<1> QED BY <1>1 DEF VaultInv, VaultTypes, Handles

(* A change under way, or one that failed, is asked nothing of the caches. *)
LEMMA HandlesExcused ==
  ASSUME VaultInv, UNCHANGED <<epoch, cache>>,
         op'.kind = "change" \/ torn' \cap {"change", "rollback"} # {}
  PROVE  Handles'
BY DEF VaultInv, Handles

LEMMA HandlesStay ==
  ASSUME VaultInv, UNCHANGED <<epoch, cache, reader, torn>>, op.kind # "change",
         listing'.hash = listing.hash, Kept \subseteq Kept'
  PROVE  Handles'
BY DEF VaultInv, Handles

\* What the files of listed wallets keep.
SameFiles == \A w \in Wallets : files[w] # NoFile =>
               /\ files'[w].key = files[w].key /\ files'[w].tables = files[w].tables
               /\ files'[w].secret = files[w].secret

LEMMA NotMissing ==
  ASSUME VaultInv, NEW w \in Wallets
  PROVE  /\ files[w].secret => files[w] # NoFile
         /\ \A p \in Phrases : Under(w, p) => files[w] # NoFile
BY VaultConstants DEF NoFile, Under

-----------------------------------------------------------------------------
LEMMA UnlockStep == ASSUME VaultInv, NEW p \in Phrases, Unlock(p) PROVE VaultInv'
<1>1. /\ Verified(p) /\ mem' = LoadedFrom([mem EXCEPT !.phrase = p]) /\ mem.phrase = NoPhrase
      /\ epoch' = epoch + 1 /\ UNCHANGED <<keystore, listing, files, op, cache, reader, torn>>
  BY DEF Unlock, Unlocked, onDisk
<1>2. /\ mem' \in MemType /\ mem'.phrase = p /\ mem'.wallets = listing.rows
  <2> DEFINE m == [mem EXCEPT !.phrase = p]
  <2>1. m \in MemType /\ m.phrase = p
    BY DEF VaultInv, VaultTypes, MemType, SomePhrase
  <2> HIDE DEF m
  <2> QED BY <1>1, <2>1, LoadedFields DEF VaultInv, VaultTypes, m
<1>3. VaultTypes'
  BY <1>1, <1>2 DEF VaultInv, VaultTypes
<1>4. Listed'
  BY <1>1, <1>2 DEF VaultInv, Listed
<1>5. PhraseInv'
  BY <1>1, <1>2, VaultConstants DEF VaultInv, PhraseInv, Settled, Halfway, Verified, Under, Done
<1>6. Handles'
  BY <1>1, EpochRaised
<1> QED BY <1>3, <1>4, <1>5, <1>6 DEF VaultInv

LEMMA CrashStep == ASSUME VaultInv, Crash PROVE VaultInv'
<1>1. /\ mem' = Locked /\ op' = NoOp /\ epoch' = 0
      /\ cache' = [r \in Readers |-> [epoch |-> 0, entries |-> [w \in Wallets |-> NoPhrase]]]
      /\ reader' = [r \in Readers |-> NoRead]
      /\ torn' = IF Idle THEN torn ELSE torn \cup {op.kind}
      /\ UNCHANGED <<keystore, listing, files>>
  BY DEF Crash, onDisk
<1>2. VaultTypes'
  BY <1>1, ConstantsTyped DEF VaultInv, VaultTypes, NoRead
<1>3. Listed'
  BY <1>1 DEF VaultInv, Listed, Locked, NoOp
<1>4. "change" \notin torn' => "change" \notin torn /\ op.kind # "change"
  BY <1>1 DEF Idle
<1>5. PhraseInv'
  BY <1>1, <1>4 DEF VaultInv, PhraseInv, Settled, Halfway, Locked, NoOp, Under
<1>6. Handles'
  BY <1>1 DEF Handles, NoRead
<1> QED BY <1>2, <1>3, <1>5, <1>6 DEF VaultInv

-----------------------------------------------------------------------------
(* Creating a wallet *)

LEMMA CreateFileStep == ASSUME VaultInv, NEW w \in Wallets, CreateFile(w) PROVE VaultInv'
<1>1. /\ op.kind = "none" /\ mem.phrase # NoPhrase /\ files[w] = NoFile
      /\ mem' = IF mem.loaded THEN mem ELSE LoadedFrom(mem)
      /\ op' = [NoOp EXCEPT !.kind = "create", !.pc = "secret", !.w = w]
      /\ UNCHANGED <<keystore, listing, epoch, cache, reader, torn>>
  BY DEF CreateFile, Idle, Unlocked, caches
<1>2. PICK s \in SealedOnce(NoFile, mem.phrase) :
        files' = [files EXCEPT ![w] = [key |-> mem.phrase, tables |-> mem.phrase, sealed |-> s,
                                       secret |-> FALSE]]
  BY DEF CreateFile
<1>3. /\ mem' \in MemType /\ mem'.phrase = mem.phrase /\ mem.wallets \subseteq mem'.wallets
      /\ mem'.wallets \subseteq listing.rows
  BY <1>1, LoadedFields DEF VaultInv, VaultTypes, Listed
<1>4. op' \in OpType /\ op'.kind = "create" /\ op'.pc = "secret" /\ op'.w = w
  BY <1>1, ConstantsTyped DEF OpType, OpPcs, SomeWallet
<1>5. /\ files' \in [Wallets -> FileType] /\ \A x \in Wallets \ {w} : files'[x] = files[x]
      /\ files'[w].key = mem.phrase /\ files'[w].tables = mem.phrase
  <2>1. s \in SomePhrase /\ mem.phrase \in SomePhrase
    BY DEF SealedOnce, NoFile, VaultInv, VaultTypes, MemType, SomePhrase
  <2>2. [key |-> mem.phrase, tables |-> mem.phrase, sealed |-> s, secret |-> FALSE] \in FileType
    BY <2>1 DEF FileType
  <2> QED BY <1>2, <2>2 DEF VaultInv, VaultTypes
<1>6. w \notin listing.rows
  BY <1>1, NotMissing DEF VaultInv, Listed
<1>7. VaultTypes'
  BY <1>1, <1>3, <1>4, <1>5 DEF VaultInv, VaultTypes
<1>8. Listed'
  <2>1. listing.rows \subseteq Wallets
    BY DEF VaultInv, VaultTypes, ListingType
  <2> QED BY <1>1, <1>3, <1>4, <1>5, <1>6, <2>1 DEF VaultInv, Listed
<1>9. PhraseInv'
  <2>1. listing.rows \subseteq Wallets
    BY DEF VaultInv, VaultTypes, ListingType
  <2> QED BY <1>1, <1>3, <1>4, <1>5, <1>6, <2>1 DEF VaultInv, PhraseInv, Settled, Halfway, Under
<1>10. Handles'
  BY <1>1, <1>3, <1>4, HandlesStay DEF Kept
<1> QED BY <1>7, <1>8, <1>9, <1>10 DEF VaultInv

LEMMA CreateSecretStep == ASSUME VaultInv, CreateSecret PROVE VaultInv'
<1>1. /\ op.kind = "create" /\ files' = [files EXCEPT ![op.w].secret = TRUE]
      /\ op' = [op EXCEPT !.pc = "register"]
      /\ UNCHANGED <<keystore, listing, mem, epoch, cache, reader, torn>>
  BY DEF CreateSecret, caches
<1>2. op' \in OpType /\ op'.kind = "create" /\ op'.pc = "register" /\ op'.w = op.w
  BY <1>1 DEF VaultInv, VaultTypes, OpType, OpPcs
<1>3. op.w \in Wallets
  BY <1>1 DEF VaultInv, Listed
<1>4. /\ files' \in [Wallets -> FileType] /\ files'[op.w].secret
      /\ \A x \in Wallets : files'[x].key = files[x].key /\ files'[x].tables = files[x].tables
      /\ \A x \in Wallets : files[x].secret => files'[x].secret
  BY <1>1, <1>3 DEF VaultInv, VaultTypes, FileType
<1>5. listing.rows \subseteq Wallets
  BY DEF VaultInv, VaultTypes, ListingType
<1>6. VaultTypes'
  BY <1>1, <1>2, <1>4 DEF VaultInv, VaultTypes
<1>7. Listed'
  BY <1>1, <1>2, <1>4, <1>5 DEF VaultInv, Listed
<1>8. PhraseInv'
  BY <1>1, <1>2, <1>3, <1>4, <1>5 DEF VaultInv, PhraseInv, Settled, Halfway, Under
<1>9. Handles'
  BY <1>1, <1>2, HandlesStay DEF Kept
<1> QED BY <1>6, <1>7, <1>8, <1>9 DEF VaultInv

LEMMA RegisterStep == ASSUME VaultInv, Register PROVE VaultInv'
<1>1. /\ op.kind = "create" /\ op.pc = "register" /\ op' = NoOp
      /\ listing' = [listing EXCEPT !.rows = @ \cup {op.w}, !.active = op.w]
      /\ mem' = [mem EXCEPT !.wallets = @ \cup {op.w}, !.active = op.w]
      /\ UNCHANGED <<keystore, files, epoch, cache, reader, torn>>
  BY DEF Register, caches
<1>2. op.w \in Wallets /\ op.w \in SomeWallet /\ files[op.w].secret
  BY <1>1 DEF VaultInv, Listed, SomeWallet
<1>3. /\ listing' \in ListingType /\ listing'.rows = listing.rows \cup {op.w}
      /\ listing'.hash = listing.hash /\ listing'.key = listing.key
  BY <1>1, <1>2 DEF VaultInv, VaultTypes, ListingType
<1>4. /\ mem' \in MemType /\ mem'.wallets = mem.wallets \cup {op.w} /\ mem'.phrase = mem.phrase
  BY <1>1, <1>2 DEF VaultInv, VaultTypes, MemType
<1>5. op'.kind = "none" /\ op' \in OpType
  BY <1>1, ConstantsTyped
<1>6. VaultTypes'
  BY <1>1, <1>3, <1>4, <1>5 DEF VaultInv, VaultTypes
<1>7. Listed'
  BY <1>1, <1>2, <1>3, <1>4, <1>5 DEF VaultInv, Listed
<1>8. PhraseInv'
  BY <1>1, <1>3, <1>4, <1>5 DEF VaultInv, PhraseInv, Settled, Halfway, Under
<1>9. Handles'
  BY <1>1, <1>3, <1>4, <1>5, HandlesStay DEF Kept
<1> QED BY <1>6, <1>7, <1>8, <1>9 DEF VaultInv

LEMMA FilesRemovedStep == ASSUME VaultInv, CreateFails \/ DeleteFiles PROVE VaultInv'
<1>1. /\ op.kind \in {"create", "delete"} /\ op' = NoOp /\ epoch' = epoch + 1
      /\ files' = [files EXCEPT ![op.w] = NoFile]
      /\ UNCHANGED <<keystore, listing, mem, cache, reader, torn>>
  BY DEF CreateFails, DeleteFiles
<1>2. op.w \in Wallets /\ op.w \notin listing.rows /\ listing.rows \subseteq Wallets
  BY <1>1 DEF VaultInv, Listed, VaultTypes, ListingType
<1>3. files' \in [Wallets -> FileType] /\ \A x \in listing.rows : files'[x] = files[x]
  BY <1>1, <1>2, ConstantsTyped DEF VaultInv, VaultTypes
<1>4. op'.kind = "none" /\ op' \in OpType
  BY <1>1, ConstantsTyped
<1>5. VaultTypes'
  BY <1>1, <1>3, <1>4 DEF VaultInv, VaultTypes
<1>6. Listed'
  BY <1>1, <1>3, <1>4 DEF VaultInv, Listed
<1>7. PhraseInv'
  BY <1>1, <1>3, <1>4 DEF VaultInv, PhraseInv, Settled, Halfway, Under
<1>8. Handles'
  BY <1>1, EpochRaised
<1> QED BY <1>5, <1>6, <1>7, <1>8 DEF VaultInv

-----------------------------------------------------------------------------
(* Deleting a wallet *)

LEMMA DeleteRowStep == ASSUME VaultInv, NEW w \in Wallets, DeleteRow(w) PROVE VaultInv'
<1> DEFINE m == IF mem.loaded THEN mem ELSE LoadedFrom(mem)
<1>1. /\ op.kind = "none" /\ w \in (IF mem.loaded THEN mem.wallets ELSE listing.rows)
      /\ listing' = [listing EXCEPT !.rows = @ \ {w}]
      /\ mem' = [m EXCEPT !.wallets = @ \ {w}]
      /\ op' = [NoOp EXCEPT !.kind = "delete", !.pc = "active", !.w = w]
      /\ UNCHANGED <<keystore, files, epoch, cache, reader, torn>>
  BY DEF DeleteRow, Idle, caches
<1>2. /\ m \in MemType /\ m.phrase = mem.phrase /\ mem.wallets \subseteq m.wallets
      /\ m.wallets \subseteq listing.rows
  BY LoadedFields DEF VaultInv, VaultTypes, Listed
<1> HIDE DEF m
<1>3. w \in listing.rows
  BY <1>1 DEF VaultInv, Listed
<1>4. mem' \in MemType /\ mem'.phrase = mem.phrase /\ mem'.wallets = m.wallets \ {w}
  BY <1>1, <1>2 DEF MemType
<1>5. op' \in OpType /\ op'.kind = "delete" /\ op'.pc = "active" /\ op'.w = w
  BY <1>1, ConstantsTyped DEF OpType, OpPcs, SomeWallet
<1>6. /\ listing' \in ListingType /\ listing'.rows = listing.rows \ {w}
      /\ listing'.hash = listing.hash /\ listing'.key = listing.key
  BY <1>1 DEF VaultInv, VaultTypes, ListingType
<1>7. VaultTypes'
  BY <1>1, <1>4, <1>5, <1>6 DEF VaultInv, VaultTypes
<1>8. Listed'
  BY <1>1, <1>2, <1>4, <1>5, <1>6 DEF VaultInv, Listed
<1>9. PhraseInv'
  BY <1>1, <1>3, <1>4, <1>5, <1>6 DEF VaultInv, PhraseInv, Settled, Halfway, Under
<1>10. Kept \subseteq Kept'
  BY <1>1, <1>2, <1>4, <1>5 DEF Kept
<1>11. Handles'
  BY <1>1, <1>6, <1>10, HandlesStay
<1> QED BY <1>7, <1>8, <1>9, <1>11 DEF VaultInv

LEMMA DeleteActiveStep == ASSUME VaultInv, DeleteActive PROVE VaultInv'
<1>1. /\ op.kind = "delete" /\ op' = [op EXCEPT !.pc = "files"]
      /\ UNCHANGED <<keystore, files, epoch, cache, reader, torn>>
  BY DEF DeleteActive, caches
<1>2. /\ listing' \in ListingType /\ listing'.rows = listing.rows
      /\ listing'.hash = listing.hash /\ listing'.key = listing.key
      /\ mem' \in MemType /\ mem'.phrase = mem.phrase /\ mem'.wallets = mem.wallets
  <2>1. CASE UNCHANGED <<listing, mem>>
    BY <2>1 DEF VaultInv, VaultTypes
  <2>2. CASE \E next \in mem.wallets :
              listing' = [listing EXCEPT !.active = next] /\ mem' = [mem EXCEPT !.active = next]
    <3>1. PICK next \in mem.wallets :
              listing' = [listing EXCEPT !.active = next] /\ mem' = [mem EXCEPT !.active = next]
      BY <2>2
    <3>2. next \in SomeWallet
      BY DEF VaultInv, VaultTypes, MemType, SomeWallet
    <3> QED BY <3>1, <3>2 DEF VaultInv, VaultTypes, MemType, ListingType
  <2> QED BY <2>1, <2>2 DEF DeleteActive
<1>3. op' \in OpType /\ op'.kind = "delete" /\ op'.pc = "files" /\ op'.w = op.w
  BY <1>1 DEF VaultInv, VaultTypes, OpType, OpPcs
<1>4. VaultTypes'
  BY <1>1, <1>2, <1>3 DEF VaultInv, VaultTypes
<1>5. Listed'
  BY <1>1, <1>2, <1>3 DEF VaultInv, Listed
<1>6. PhraseInv'
  BY <1>1, <1>2, <1>3 DEF VaultInv, PhraseInv, Settled, Halfway, Under
<1>7. Handles'
  BY <1>1, <1>2, <1>3, HandlesStay DEF Kept
<1> QED BY <1>4, <1>5, <1>6, <1>7 DEF VaultInv

-----------------------------------------------------------------------------
(* Changing the passphrase *)

\* Fields of an operation under change.
LEMMA RowsTyped == VaultInv => listing.rows \subseteq Wallets /\ mem.wallets \subseteq Wallets
BY DEF VaultInv, VaultTypes, ListingType, MemType

LEMMA ChangeStartStep ==
  ASSUME VaultInv, NEW old \in Phrases, NEW new \in Phrases, ChangeStart(old, new)
  PROVE  VaultInv'
<1>1. /\ op.kind = "none" /\ Verified(old) /\ mem' = LoadedFrom([mem EXCEPT !.phrase = old])
      /\ epoch' = epoch + 1
      /\ op' = [NoOp EXCEPT !.kind = "change", !.pc = "wallets", !.old = old, !.new = new,
                            !.todo = listing.rows]
      /\ UNCHANGED <<keystore, listing, files, cache, reader, torn>>
  BY DEF ChangeStart, Idle, onDisk
<1>2. /\ mem' \in MemType /\ mem'.phrase = old /\ mem'.wallets = listing.rows
  <2> DEFINE m == [mem EXCEPT !.phrase = old]
  <2>1. m \in MemType /\ m.phrase = old
    BY DEF VaultInv, VaultTypes, MemType, SomePhrase
  <2> HIDE DEF m
  <2> QED BY <1>1, <2>1, LoadedFields DEF VaultInv, VaultTypes, m
<1>3. /\ op' \in OpType /\ op'.kind = "change" /\ op'.pc = "wallets" /\ op'.old = old /\ op'.new = new
      /\ op'.todo = listing.rows
  BY <1>1, ConstantsTyped, RowsTyped DEF OpType, OpPcs, SomePhrase
<1>4. VaultTypes'
  BY <1>1, <1>2, <1>3 DEF VaultInv, VaultTypes
<1>5. Listed'
  BY <1>1, <1>2, <1>3 DEF VaultInv, Listed
<1>6. PhraseInv'
  <2>1. SUFFICES ASSUME "change" \notin torn PROVE Settled' /\ Halfway'
    BY <1>1 DEF PhraseInv
  <2>2. listing.hash = old /\ listing.key = old /\ \A w \in listing.rows : Under(w, old)
    BY <1>1, <2>1, VaultConstants DEF VaultInv, PhraseInv, Settled, Verified
  <2> QED BY <1>1, <1>2, <1>3, <2>2 DEF Settled, Halfway, Under
<1>7. Handles'
  BY <1>1, EpochRaised
<1> QED BY <1>4, <1>5, <1>6, <1>7 DEF VaultInv

(* An operation that gives up and leaves files half changed says so. *)
LEMMA AbandonStep ==
  ASSUME VaultInv, Abandon, files' \in [Wallets -> FileType],
         \A w \in Wallets : files'[w].secret = files[w].secret,
         UNCHANGED <<keystore, listing, mem, epoch, cache, reader>>
  PROVE  VaultInv'
<1>1. op'.kind = "none" /\ op' \in OpType /\ "change" \in torn'
  BY ConstantsTyped DEF Abandon
<1>2. VaultTypes'
  BY <1>1 DEF VaultInv, VaultTypes
<1>3. Listed'
  BY <1>1, RowsTyped DEF VaultInv, Listed
<1>4. Handles'
  BY <1>1, HandlesExcused
<1> QED BY <1>1, <1>2, <1>3, <1>4 DEF VaultInv, PhraseInv

LEMMA RekeyWalletStep == ASSUME VaultInv, NEW w \in Wallets, RekeyWallet(w) PROVE VaultInv'
<1>1. /\ op.kind = "change" /\ op.pc = "wallets" /\ w \in op.todo
      /\ UNCHANGED <<keystore, listing, mem, epoch, cache, reader>>
  BY DEF RekeyWallet, Changing, caches
<1>2. CASE /\ files' = [files EXCEPT ![w].key = op.new]
           /\ op' = [op EXCEPT !.pc = "tables", !.w = w] /\ UNCHANGED torn
  <2>1. /\ op' \in OpType /\ op'.kind = "change" /\ op'.pc = "tables" /\ op'.w = w
        /\ op'.old = op.old /\ op'.new = op.new /\ op'.todo = op.todo /\ op'.done = op.done
    BY <1>1, <1>2 DEF VaultInv, VaultTypes, OpType, OpPcs, SomeWallet
  <2>2. /\ files' \in [Wallets -> FileType] /\ \A x \in Wallets \ {w} : files'[x] = files[x]
        /\ files'[w].key = op.new /\ files'[w].tables = files[w].tables
        /\ files'[w].secret = files[w].secret
    BY <1>2 DEF VaultInv, VaultTypes, FileType, OpType
  <2>3. VaultTypes'
    BY <1>1, <2>1, <2>2 DEF VaultInv, VaultTypes
  <2>4. Listed'
    BY <1>1, <2>1, <2>2, RowsTyped DEF VaultInv, Listed
  <2>5. PhraseInv'
    BY <1>1, <1>2, <2>1, <2>2, RowsTyped DEF VaultInv, PhraseInv, Settled, Halfway, Under, Done
  <2>6. Handles'
    BY <1>1, <2>1, HandlesExcused
  <2> QED BY <2>3, <2>4, <2>5, <2>6 DEF VaultInv
<1>3. CASE op' = [op EXCEPT !.pc = "rollback"] /\ UNCHANGED <<files, torn>>
  <2>1. /\ op' \in OpType /\ op'.kind = "change" /\ op'.pc = "rollback"
        /\ op'.old = op.old /\ op'.new = op.new /\ op'.todo = op.todo /\ op'.done = op.done
    BY <1>1, <1>3 DEF VaultInv, VaultTypes, OpType, OpPcs
  <2>2. VaultTypes' /\ Listed'
    BY <1>1, <1>3, <2>1 DEF VaultInv, VaultTypes, Listed
  <2>3. PhraseInv'
    BY <1>1, <1>3, <2>1 DEF VaultInv, PhraseInv, Settled, Halfway, Under, Done
  <2>4. Handles'
    BY <1>1, <2>1, HandlesExcused
  <2> QED BY <2>2, <2>3, <2>4 DEF VaultInv
<1>4. CASE Abandon /\ UNCHANGED files
  BY <1>1, <1>4, AbandonStep DEF VaultInv, VaultTypes
<1> QED BY <1>2, <1>3, <1>4 DEF RekeyWallet

LEMMA ReencryptTablesStep == ASSUME VaultInv, ReencryptTables PROVE VaultInv'
<1>1. /\ op.kind = "change" /\ op.pc = "tables"
      /\ UNCHANGED <<keystore, listing, mem, epoch, cache, reader>>
  BY DEF ReencryptTables, Changing, caches
<1>2. CASE Abandon /\ UNCHANGED files
  BY <1>1, <1>2, AbandonStep DEF VaultInv, VaultTypes
<1>3. CASE /\ \E s \in Resealed(files[op.w], op.new) :
                files' = [files EXCEPT ![op.w].tables = op.new, ![op.w].sealed = s]
           /\ op' = [op EXCEPT !.pc = "wallets", !.todo = @ \ {op.w}, !.done = Append(@, op.w)]
           /\ UNCHANGED torn
  <2>1. PICK s \in Resealed(files[op.w], op.new) :
                files' = [files EXCEPT ![op.w].tables = op.new, ![op.w].sealed = s]
    BY <1>3
  <2>2. op.w \in Wallets
    BY <1>1 DEF VaultInv, Listed
  <2>11. s \in SomePhrase
    BY <2>2 DEF Resealed, VaultInv, VaultTypes, FileType, OpType
  <2>12. /\ files' \in [Wallets -> FileType] /\ \A x \in Wallets \ {op.w} : files'[x] = files[x]
        /\ files'[op.w].key = files[op.w].key /\ files'[op.w].tables = op.new
        /\ files'[op.w].secret = files[op.w].secret
    <3> DEFINE v == [files[op.w] EXCEPT !.tables = op.new, !.sealed = s]
    <3>1. /\ v \in FileType /\ v.key = files[op.w].key /\ v.tables = op.new
          /\ v.secret = files[op.w].secret
      BY <2>2, <2>11 DEF VaultInv, VaultTypes, FileType, OpType
    <3>2. files' = [files EXCEPT ![op.w] = v]
      BY <2>1, <2>2 DEF VaultInv, VaultTypes, FileType
    <3> HIDE DEF v
    <3> QED BY <2>2, <3>1, <3>2 DEF VaultInv, VaultTypes
  <2>13. /\ op.done \in Seq(Wallets) /\ Append(op.done, op.w) \in Seq(Wallets)
    BY <2>2 DEF VaultInv, VaultTypes, OpType
  <2>14. /\ op' \in OpType /\ op'.kind = "change" /\ op'.pc = "wallets"
        /\ op'.old = op.old /\ op'.new = op.new /\ op'.todo = op.todo \ {op.w}
        /\ op'.done = Append(op.done, op.w)
    BY <1>1, <1>3, <2>13 DEF VaultInv, VaultTypes, OpType, OpPcs
  <2>15. Done(op.w)' /\ \A x \in Wallets : Done(x) => Done(x)'
    <3>1. /\ Len(op'.done) = Len(op.done) + 1 /\ op'.done[Len(op.done) + 1] = op.w
          /\ \A i \in 1..Len(op.done) : op'.done[i] = op.done[i]
          /\ Len(op.done) \in Nat
      BY <2>13, <2>14
    <3>2. op'.w = op.w
      BY <1>3 DEF VaultInv, VaultTypes, OpType
    <3>3. Done(op.w)'
      BY <3>1, <3>2 DEF Done
    <3>4. ASSUME NEW x \in Wallets, Done(x) PROVE Done(x)'
      BY <3>1, <3>4 DEF Done
    <3> QED BY <3>3, <3>4
  <2>16. VaultTypes'
    BY <1>1, <2>12, <2>14 DEF VaultInv, VaultTypes
  <2>17. Listed'
    BY <1>1, <2>2, <2>12, <2>14, RowsTyped DEF VaultInv, Listed
  <2>18. op'.w = op.w
    BY <1>3 DEF VaultInv, VaultTypes, OpType
  <2>19. PhraseInv'
    BY <1>1, <1>3, <2>12, <2>14, <2>15, <2>18, RowsTyped
       DEF VaultInv, PhraseInv, Settled, Halfway, Under
  <2>20. Handles'
    BY <1>1, <2>14, HandlesExcused
  <2> QED BY <2>16, <2>17, <2>19, <2>20 DEF VaultInv
<1>4. CASE /\ op' = [op EXCEPT !.pc = "rollback"]
           /\ \/ files' = [files EXCEPT ![op.w].key = op.old] /\ UNCHANGED torn
              \/ torn' = torn \cup {"change"} /\ UNCHANGED files
  <2>1. /\ op' \in OpType /\ op'.kind = "change" /\ op'.pc = "rollback" /\ op'.w = op.w
        /\ op'.old = op.old /\ op'.new = op.new /\ op'.todo = op.todo /\ op'.done = op.done
    BY <1>1, <1>4 DEF VaultInv, VaultTypes, OpType, OpPcs
  <2>2. op.w \in Wallets
    BY <1>1 DEF VaultInv, Listed
  <2>3. /\ files' \in [Wallets -> FileType] /\ \A x \in Wallets \ {op.w} : files'[x] = files[x]
        /\ files'[op.w].tables = files[op.w].tables /\ files'[op.w].secret = files[op.w].secret
        /\ "change" \notin torn' => files'[op.w].key = op.old /\ torn' = torn
    <3>1. CASE files' = [files EXCEPT ![op.w].key = op.old] /\ UNCHANGED torn
      BY <2>2, <3>1 DEF VaultInv, VaultTypes, FileType, OpType
    <3>2. CASE torn' = torn \cup {"change"} /\ UNCHANGED files
      BY <2>2, <3>2 DEF VaultInv, VaultTypes
    <3> QED BY <1>4, <3>1, <3>2
  <2>4. VaultTypes'
    BY <1>1, <2>1, <2>3 DEF VaultInv, VaultTypes
  <2>5. Listed'
    BY <1>1, <2>1, <2>2, <2>3, RowsTyped DEF VaultInv, Listed
  <2>6. PhraseInv'
    BY <1>1, <2>1, <2>3, RowsTyped DEF VaultInv, PhraseInv, Settled, Halfway, Under, Done
  <2>7. Handles'
    BY <1>1, <2>1, HandlesExcused
  <2> QED BY <2>4, <2>5, <2>6, <2>7 DEF VaultInv
<1> QED BY <1>2, <1>3, <1>4 DEF ReencryptTables

LEMMA RollbackWalletStep == ASSUME VaultInv, RollbackWallet PROVE VaultInv'
<1> DEFINE n == Len(op.done)
           w == op.done[n]
<1>1. /\ op.kind = "change" /\ op.pc = "rollback" /\ op.done # <<>>
      /\ UNCHANGED <<keystore, listing, mem, epoch, cache, reader>>
  BY DEF RollbackWallet, Changing, caches
<1>2. /\ op.done \in Seq(Wallets) /\ n \in Nat /\ n > 0 /\ w \in Wallets
  BY <1>1 DEF VaultInv, VaultTypes, OpType
<1>3. CASE Abandon /\ files' \in {files, [files EXCEPT ![w].key = op.old]}
  <2>1. files' \in [Wallets -> FileType] /\ \A x \in Wallets : files'[x].secret = files[x].secret
    <3>1. CASE files' = files
      BY <3>1 DEF VaultInv, VaultTypes
    <3>2. CASE files' = [files EXCEPT ![w].key = op.old]
      <4> HIDE DEF w
      <4> QED BY <1>2, <3>2 DEF VaultInv, VaultTypes, FileType, OpType
    <3> QED BY <1>3, <3>1, <3>2
  <2> QED BY <1>1, <1>3, <2>1, AbandonStep
<1>4. CASE /\ \E f \in RolledBack(files[w]) : files' = [files EXCEPT ![w] = f]
           /\ op' = [op EXCEPT !.done = SubSeq(@, 1, Len(@) - 1)]
           /\ UNCHANGED torn
  <2>1. PICK s \in Resealed(files[w], op.old) :
          files' = [files EXCEPT ![w] = [files[w] EXCEPT !.key = op.old, !.tables = op.old, !.sealed = s]]
    BY <1>4 DEF RolledBack
  <2> DEFINE v == [files[w] EXCEPT !.key = op.old, !.tables = op.old, !.sealed = s]
  <2>2. /\ v \in FileType /\ v.key = op.old /\ v.tables = op.old /\ v.secret = files[w].secret
    <3>1. files[w] \in FileType /\ op.old \in SomePhrase
      BY <1>2 DEF VaultInv, VaultTypes, OpType
    <3>2. s \in SomePhrase
      BY <3>1 DEF Resealed, FileType
    <3> QED BY <3>1, <3>2 DEF FileType
  <2>3. /\ files' \in [Wallets -> FileType] /\ files'[w] = v
        /\ \A x \in Wallets \ {w} : files'[x] = files[x]
    <3> HIDE DEF v, w
    <3>1. files' = [files EXCEPT ![w] = v]
      BY <2>1 DEF v
    <3> QED BY <1>2, <2>2, <3>1 DEF VaultInv, VaultTypes
  <2> DEFINE rest == SubSeq(op.done, 1, n - 1)
  <2>4. /\ rest \in Seq(Wallets) /\ Len(rest) = n - 1
        /\ \A i \in 1..(n - 1) : rest[i] = op.done[i]
    BY <1>2
  <2> HIDE DEF rest, v
  <2>5. /\ op' \in OpType /\ op'.kind = "change" /\ op'.pc = "rollback"
        /\ op'.old = op.old /\ op'.new = op.new /\ op'.todo = op.todo /\ op'.done = rest
    <3>1. op' = [op EXCEPT !.done = rest]
      BY <1>4 DEF rest
    <3> QED BY <1>1, <2>4, <3>1 DEF VaultInv, VaultTypes, OpType
  <2>6. \A x \in Wallets \ {w} : Done(x) => Done(x)'
    BY <1>2, <2>4, <2>5 DEF Done
  <2> HIDE DEF w
  <2>7. VaultTypes'
    BY <1>1, <2>3, <2>5 DEF VaultInv, VaultTypes
  <2>8. Listed'
    BY <1>1, <2>2, <2>3, <2>5, RowsTyped DEF VaultInv, Listed
  <2>9. PhraseInv'
    BY <1>1, <1>4, <2>2, <2>3, <2>5, <2>6, RowsTyped DEF VaultInv, PhraseInv, Settled, Halfway, Under
  <2>10. Handles'
    BY <1>1, <2>5, HandlesExcused
  <2> QED BY <2>7, <2>8, <2>9, <2>10 DEF VaultInv
<1> QED BY <1>3, <1>4 DEF RollbackWallet

LEMMA RollbackDoneStep == ASSUME VaultInv, RollbackDone PROVE VaultInv'
<1>1. /\ op.kind = "change" /\ op.pc = "rollback" /\ op.done = <<>> /\ op' = NoOp
      /\ torn' = torn \cup {"rollback"}
      /\ UNCHANGED <<keystore, listing, files, mem, epoch, cache, reader>>
  BY DEF RollbackDone, Changing, caches, onDisk
<1>2. op'.kind = "none" /\ op' \in OpType
  BY <1>1, ConstantsTyped
<1>3. VaultTypes' /\ Listed'
  BY <1>1, <1>2 DEF VaultInv, VaultTypes, Listed
<1>4. \A x : ~Done(x)
  BY <1>1 DEF Done
<1>5. PhraseInv'
  BY <1>1, <1>2, <1>4 DEF VaultInv, PhraseInv, Settled, Halfway, Under
<1>6. Handles'
  BY <1>1, HandlesExcused
<1> QED BY <1>3, <1>5, <1>6 DEF VaultInv

\* The named fields of the registry stay.
SameListing(fields) ==
    /\ "rows" \in fields => listing'.rows = listing.rows
    /\ "key" \in fields => listing'.key = listing.key
    /\ "hash" \in fields => listing'.hash = listing.hash

LEMMA RegistryKey ==
  ASSUME listing \in ListingType, NEW p \in SomePhrase, listing' = [listing EXCEPT !.key = p]
  PROVE  listing' \in ListingType /\ listing'.key = p /\ SameListing({"rows", "hash"})
BY DEF ListingType, SameListing

LEMMA RegistryHash ==
  ASSUME listing \in ListingType, NEW p \in SomePhrase, listing' = [listing EXCEPT !.hash = p]
  PROVE  listing' \in ListingType /\ listing'.hash = p /\ SameListing({"rows", "key"})
BY DEF ListingType, SameListing

\* The steps on the registry: its key, its hash, its sealed key.
LEMMA RegistryStep == ASSUME VaultInv, RekeyRegistry \/ ClearHash \/ InsertHash PROVE VaultInv'
<1>1. /\ op.kind = "change" /\ op.pc \in {"wallets", "hash", "insert"}
      /\ op.pc = "wallets" => op.todo = {}
      /\ UNCHANGED <<keystore, files, mem, epoch, cache, reader>>
  BY DEF RekeyRegistry, ClearHash, InsertHash, Changing, caches
<1>2. PICK pc \in {"hash", "insert", "finish", "rollback"} : op' = [op EXCEPT !.pc = pc]
  BY DEF RekeyRegistry, ClearHash, InsertHash
<1>3. /\ op' \in OpType /\ op'.kind = "change" /\ op'.pc = pc
      /\ op'.old = op.old /\ op'.new = op.new /\ op'.todo = op.todo /\ op'.done = op.done
  BY <1>1, <1>2 DEF VaultInv, VaultTypes, OpType, OpPcs
<1>4. op.old \in SomePhrase /\ op.new \in SomePhrase /\ NoPhrase \in SomePhrase
  BY VaultConstants DEF VaultInv, VaultTypes, OpType
<1>5. /\ listing' \in ListingType /\ listing'.rows = listing.rows
      /\ torn \subseteq torn'
      /\ \/ op.pc = "wallets" /\ pc = "hash" /\ listing'.key = op.new /\ listing'.hash = listing.hash
         \/ op.pc = "wallets" /\ pc = "rollback" /\ listing'.key = listing.key /\ listing'.hash = listing.hash
         \/ op.pc = "hash" /\ pc = "insert" /\ listing'.key = listing.key
         \/ op.pc = "hash" /\ pc = "rollback" /\ listing'.key = op.old /\ listing'.hash = listing.hash
         \/ op.pc = "insert" /\ pc = "finish" /\ listing'.key = listing.key /\ listing'.hash = op.new
         \/ "change" \in torn'
  <2>1. op'.pc = pc /\ listing \in ListingType
    BY <1>3 DEF VaultInv, VaultTypes
  <2>2. CASE RekeyRegistry
    <3>1. CASE listing' = [listing EXCEPT !.key = op.new] /\ op' = [op EXCEPT !.pc = "hash"]
      <4>1. listing' \in ListingType /\ listing'.key = op.new /\ SameListing({"rows", "hash"})
        BY <1>4, <2>1, <3>1, RegistryKey
      <4>2. pc = "hash" /\ op.pc = "wallets" /\ torn' = torn
        BY <1>3, <2>2, <3>1 DEF RekeyRegistry, Changing, VaultInv, VaultTypes, OpType
      <4> QED BY <4>1, <4>2 DEF SameListing
    <3>2. CASE op' = [op EXCEPT !.pc = "rollback"] /\ UNCHANGED listing
      <4>1. pc = "rollback" /\ op.pc = "wallets" /\ torn' = torn
        BY <1>3, <2>2, <3>2 DEF RekeyRegistry, Changing, VaultInv, VaultTypes, OpType
      <4> QED BY <2>1, <3>2, <4>1
    <3> QED BY <2>2, <3>1, <3>2 DEF RekeyRegistry
  <2>3. CASE ClearHash
    <3>1. CASE listing' = [listing EXCEPT !.hash = NoPhrase] /\ op' = [op EXCEPT !.pc = "insert"]
      <4>1. listing' \in ListingType /\ SameListing({"rows", "key"})
        BY <1>4, <2>1, <3>1, RegistryHash
      <4>2. pc = "insert" /\ op.pc = "hash" /\ torn' = torn
        BY <1>3, <2>3, <3>1 DEF ClearHash, Changing, VaultInv, VaultTypes, OpType
      <4> QED BY <4>1, <4>2 DEF SameListing
    <3>2. CASE listing' = [listing EXCEPT !.key = op.old] /\ op' = [op EXCEPT !.pc = "rollback"]
      <4>1. listing' \in ListingType /\ listing'.key = op.old /\ SameListing({"rows", "hash"})
        BY <1>4, <2>1, <3>2, RegistryKey
      <4>2. pc = "rollback" /\ op.pc = "hash" /\ torn' = torn
        BY <1>3, <2>3, <3>2 DEF ClearHash, Changing, VaultInv, VaultTypes, OpType
      <4> QED BY <4>1, <4>2 DEF SameListing
    <3> QED BY <2>3, <3>1, <3>2 DEF ClearHash
  <2>4. CASE InsertHash
    <3>1. CASE /\ listing' = [listing EXCEPT !.hash = op.new] /\ op' = [op EXCEPT !.pc = "finish"]
               /\ torn' = torn
      <4>1. listing' \in ListingType /\ listing'.hash = op.new /\ SameListing({"rows", "key"})
        BY <1>4, <2>1, <3>1, RegistryHash
      <4>2. pc = "finish" /\ op.pc = "insert"
        BY <1>3, <2>4, <3>1 DEF InsertHash, Changing, VaultInv, VaultTypes, OpType
      <4> QED BY <3>1, <4>1, <4>2 DEF SameListing
    <3>2. CASE listing' = [listing EXCEPT !.key = op.old] /\ torn' = torn \cup {"change"}
      <4>1. listing' \in ListingType /\ SameListing({"rows", "hash"})
        BY <1>4, <2>1, <3>2, RegistryKey
      <4> QED BY <3>2, <4>1 DEF SameListing
    <3> QED BY <2>4, <3>1, <3>2 DEF InsertHash
  <2> QED BY <2>2, <2>3, <2>4
<1>6. VaultTypes'
  BY <1>1, <1>3, <1>5 DEF VaultInv, VaultTypes
<1>7. Listed'
  BY <1>1, <1>3, <1>5 DEF VaultInv, Listed
<1>8. PhraseInv'
  BY <1>1, <1>3, <1>5 DEF VaultInv, PhraseInv, Settled, Halfway, Under, Done
<1>9. Handles'
  BY <1>1, <1>3, HandlesExcused
<1> QED BY <1>6, <1>7, <1>8, <1>9 DEF VaultInv

LEMMA ChangeFinishStep == ASSUME VaultInv, ChangeFinish PROVE VaultInv'
<1>1. /\ op.kind = "change" /\ op.pc = "finish" /\ op' = NoOp /\ epoch' = epoch + 1
      /\ mem' = LoadedFrom([mem EXCEPT !.phrase = op.new])
      /\ UNCHANGED <<keystore, files, cache, reader, torn>>
  BY DEF ChangeFinish, Changing
<1>2. PICK s \in Resealed(listing, op.new) : listing' = [listing EXCEPT !.sealed = s]
  BY DEF ChangeFinish
<1>3. op.new \in SomePhrase /\ s \in SomePhrase
  BY DEF VaultInv, VaultTypes, OpType, Resealed, ListingType
<1>4. /\ listing' \in ListingType /\ listing'.rows = listing.rows
      /\ listing'.hash = listing.hash /\ listing'.key = listing.key
  BY <1>2, <1>3 DEF VaultInv, VaultTypes, ListingType
<1>5. mem' \in MemType /\ mem'.phrase = op.new /\ mem'.wallets = listing.rows
  <2> DEFINE m == [mem EXCEPT !.phrase = op.new]
  <2>1. m \in MemType /\ m.phrase = op.new
    BY <1>3 DEF VaultInv, VaultTypes, MemType
  <2> HIDE DEF m
  <2> QED BY <1>1, <2>1, LoadedFields DEF VaultInv, VaultTypes, m
<1>6. op'.kind = "none" /\ op' \in OpType
  BY <1>1, ConstantsTyped
<1>7. VaultTypes'
  BY <1>1, <1>4, <1>5, <1>6 DEF VaultInv, VaultTypes
<1>8. Listed'
  BY <1>1, <1>4, <1>5, <1>6 DEF VaultInv, Listed
<1>9. PhraseInv'
  BY <1>1, <1>4, <1>5, <1>6 DEF VaultInv, PhraseInv, Settled, Halfway, Under
<1>10. Handles'
  BY <1>1, EpochRaised
<1> QED BY <1>7, <1>8, <1>9, <1>10 DEF VaultInv

LEMMA ResealStep == ASSUME VaultInv, Reseal PROVE VaultInv'
<1>1. /\ op.kind = "none" /\ mem.phrase # NoPhrase
      /\ listing' = [listing EXCEPT !.sealed = mem.phrase]
      /\ files' = [w \in Wallets |-> IF w \in listing.rows
                                     THEN [files[w] EXCEPT !.sealed = files[w].key] ELSE files[w]]
      /\ mem' = IF mem.loaded THEN mem ELSE LoadedFrom(mem)
      /\ UNCHANGED <<keystore, op, epoch, cache, reader, torn>>
  BY DEF Reseal, Idle, Unlocked, caches
<1>2. /\ mem' \in MemType /\ mem'.phrase = mem.phrase /\ mem.wallets \subseteq mem'.wallets
      /\ mem'.wallets \subseteq listing.rows
  BY <1>1, LoadedFields DEF VaultInv, VaultTypes, Listed
<1>3. /\ listing' \in ListingType /\ listing'.rows = listing.rows
      /\ listing'.hash = listing.hash /\ listing'.key = listing.key
  BY <1>1 DEF VaultInv, VaultTypes, ListingType, MemType
<1>4. /\ files' \in [Wallets -> FileType]
      /\ \A w \in Wallets : /\ files'[w].key = files[w].key /\ files'[w].tables = files[w].tables
                            /\ files'[w].secret = files[w].secret
  BY <1>1 DEF VaultInv, VaultTypes, FileType
<1>5. VaultTypes'
  BY <1>1, <1>2, <1>3, <1>4 DEF VaultInv, VaultTypes
<1>6. Listed'
  BY <1>1, <1>2, <1>3, <1>4, RowsTyped DEF VaultInv, Listed
<1>7. PhraseInv'
  BY <1>1, <1>2, <1>3, <1>4, RowsTyped DEF VaultInv, PhraseInv, Settled, Halfway, Under
<1>8. Handles'
  BY <1>1, <1>2, <1>3, HandlesStay DEF Kept
<1> QED BY <1>5, <1>6, <1>7, <1>8 DEF VaultInv

-----------------------------------------------------------------------------
(* The reader threads *)

LEMMA ReaderMoved ==
  ASSUME VaultInv, NEW r \in Readers, NEW v \in ReadType, v.pc # "rest" => v.w \in Wallets,
         reader' = [reader EXCEPT ![r] = v]
  PROVE  /\ reader' \in [Readers -> ReadType] /\ reader'[r] = v
         /\ \A x \in Readers \ {r} : reader'[x] = reader[x]
         /\ \A x \in Readers : reader'[x].pc # "rest" => reader'[x].w \in Wallets
BY DEF VaultInv, VaultTypes

\* Steps that change no file and no cache of the current epoch but by dropping it.
LEMMA ReadPhraseStep ==
  ASSUME VaultInv, NEW r \in Readers, NEW w \in Wallets, ReadPhrase(r, w) PROVE VaultInv'
<1> DEFINE v == [NoRead EXCEPT !.pc = "sync", !.phrase = mem.phrase, !.w = w]
<1>1. /\ reader' = [reader EXCEPT ![r] = v]
      /\ UNCHANGED <<keystore, listing, mem, op, epoch, torn, files, cache>>
  BY DEF ReadPhrase, readOnly
<1>2. v \in ReadType /\ v.pc = "sync" /\ v.w = w
  BY ConstantsTyped DEF ReadType, VaultInv, VaultTypes, MemType, SomeWallet
<1> HIDE DEF v
<1>3. VaultTypes'
  BY <1>1, <1>2, ReaderMoved DEF VaultInv, VaultTypes
<1>4. Listed' /\ PhraseInv'
  BY <1>1 DEF VaultInv, Listed, PhraseInv, Settled, Halfway, Under, Done
<1>5. Handles'
  BY <1>1, <1>2, ReaderMoved DEF VaultInv, Handles, Kept
<1> QED BY <1>3, <1>4, <1>5 DEF VaultInv

LEMMA SyncEpochStep == ASSUME VaultInv, NEW r \in Readers, SyncEpoch(r) PROVE VaultInv'
<1> DEFINE v == [reader[r] EXCEPT !.pc = "look"]
           c == Fresh(cache[r])
<1>1. /\ reader[r].pc = "sync" /\ reader' = [reader EXCEPT ![r] = v]
      /\ cache' = [cache EXCEPT ![r] = c]
      /\ UNCHANGED <<keystore, listing, mem, op, epoch, torn, files>>
  BY DEF SyncEpoch, readOnly, VaultInv, VaultTypes
<1>2. v \in ReadType /\ v.pc = "look" /\ v.w \in Wallets
  BY <1>1 DEF ReadType, VaultInv, VaultTypes
<1>3. /\ c \in CacheType /\ c.epoch = epoch
      /\ \/ cache[r].epoch = epoch /\ c.entries = cache[r].entries
         \/ \A w \in Wallets : c.entries[w] = NoPhrase
  BY VaultConstants DEF Fresh, CacheType, VaultInv, VaultTypes
<1> HIDE DEF v, c
<1>4. /\ cache' \in [Readers -> CacheType] /\ cache'[r] = c
      /\ \A x \in Readers \ {r} : cache'[x] = cache[x]
  BY <1>1, <1>3 DEF VaultInv, VaultTypes
<1>5. VaultTypes'
  BY <1>1, <1>2, <1>4, ReaderMoved DEF VaultInv, VaultTypes
<1>6. Listed' /\ PhraseInv'
  BY <1>1 DEF VaultInv, Listed, PhraseInv, Settled, Halfway, Under, Done
<1>7. Handles'
  <2>1. reader'[r].pc = "look" /\ \A x \in Readers \ {r} : reader'[x] = reader[x]
    BY <1>1, <1>2, ReaderMoved
  <2>2. epoch <= epoch
    BY DEF VaultInv, VaultTypes
  <2> QED BY <1>1, <1>3, <1>4, <2>1, <2>2 DEF VaultInv, Handles, Kept
<1> QED BY <1>5, <1>6, <1>7 DEF VaultInv

LEMMA LookUpStep == ASSUME VaultInv, NEW r \in Readers, LookUp(r) PROVE VaultInv'
<1> DEFINE v == IF reader[r].w \in mem.wallets /\ cache[r].entries[reader[r].w] = NoPhrase
                THEN [reader[r] EXCEPT !.pc = "open"] ELSE NoRead
<1>1. /\ reader[r].pc = "look" /\ reader' = [reader EXCEPT ![r] = v]
      /\ UNCHANGED <<keystore, listing, mem, op, epoch, torn, files, cache>>
  BY DEF LookUp, readOnly, VaultInv, VaultTypes
<1>2. /\ v \in ReadType
      /\ v.pc # "rest" => v.w \in Wallets
      /\ v.pc \in {"open", "insert"} => v.w \in mem.wallets
      /\ v.pc # "insert"
  <2>1. CASE v = NoRead
    BY <2>1, ConstantsTyped DEF NoRead
  <2>2. CASE v = [reader[r] EXCEPT !.pc = "open"] /\ reader[r].w \in mem.wallets
    <3>1. reader[r] \in ReadType /\ reader[r].w \in Wallets
      BY <1>1 DEF VaultInv, VaultTypes
    <3>2. v \in ReadType /\ v.pc = "open" /\ v.w = reader[r].w
      BY <2>2, <3>1 DEF ReadType
    <3> QED BY <2>2, <3>1, <3>2
  <2> QED BY <2>1, <2>2
<1> HIDE DEF v
<1>3. VaultTypes'
  <2>1. /\ reader' \in [Readers -> ReadType]
        /\ \A x \in Readers : reader'[x].pc # "rest" => reader'[x].w \in Wallets
    BY <1>1, <1>2, ReaderMoved
  <2> QED BY <1>1, <2>1 DEF VaultInv, VaultTypes
<1>4. Listed' /\ PhraseInv'
  BY <1>1 DEF VaultInv, Listed, PhraseInv, Settled, Halfway, Under, Done
<1>5. Handles'
  BY <1>1, <1>2, ReaderMoved DEF VaultInv, Handles, Kept
<1> QED BY <1>3, <1>4, <1>5 DEF VaultInv

\* A file that exists keeps its key, its tables and its secret when it is opened.
LEMMA FilesOpened ==
  ASSUME VaultInv, SameFiles, UNCHANGED <<listing, mem, op, torn>>
  PROVE  Listed' /\ PhraseInv'
<1>1. \A w \in listing.rows : w \in Wallets /\ files[w] # NoFile
  BY NotMissing, RowsTyped DEF VaultInv, Listed
<1>2. Listed'
  BY <1>1, NotMissing DEF VaultInv, Listed, SameFiles
<1>3. Settled /\ "change" \notin torn => Settled'
  BY <1>1, NotMissing DEF VaultInv, Listed, Settled, SameFiles, Under
<1>4. Halfway => Halfway'
  <2>1. \A w \in listing.rows : /\ files'[w].key = files[w].key /\ files'[w].tables = files[w].tables
    BY <1>1 DEF SameFiles
  <2> QED BY <2>1 DEF Halfway, Under, Done
<1> QED BY <1>2, <1>3, <1>4 DEF VaultInv, PhraseInv

LEMMA OpenFileStep == ASSUME VaultInv, NEW r \in Readers, OpenFile(r) PROVE VaultInv'
<1> DEFINE w == reader[r].w
           p == reader[r].phrase
<1>1. reader[r].pc = "open" /\ UNCHANGED <<keystore, listing, mem, op, epoch, torn, cache>>
  BY DEF OpenFile, readOnly
<1>2. /\ w \in Wallets /\ p \in SomePhrase /\ files[w] \in FileType /\ reader[r] \in ReadType
  BY <1>1 DEF VaultInv, VaultTypes, ReadType
<1> DEFINE Ends(v) == /\ v.pc = "rest" \/ (v.pc = "insert" /\ v.w = w)
                      /\ v.pc = "insert" => v.key = IF files[w] = NoFile THEN p ELSE files[w].key
<1>3. PICK v \in ReadType : reader' = [reader EXCEPT ![r] = v] /\ Ends(v)
  <2>1. CASE reader' = [reader EXCEPT ![r] = NoRead]
    <3>1. NoRead \in ReadType /\ NoRead.pc = "rest" /\ Ends(NoRead)
      BY ConstantsTyped DEF NoRead
    <3> HIDE DEF Ends
    <3> QED BY <2>1, <3>1
  <2>2. ASSUME NEW k \in SomePhrase, k = IF files[w] = NoFile THEN p ELSE files[w].key,
               reader' = [reader EXCEPT ![r].pc = "insert", ![r].key = k]
        PROVE  \E v \in ReadType : reader' = [reader EXCEPT ![r] = v] /\ Ends(v)
    <3> DEFINE u == [reader[r] EXCEPT !.pc = "insert", !.key = k]
    <3>1. u \in ReadType /\ u.pc = "insert" /\ u.w = w /\ u.key = k
      BY <1>2 DEF ReadType
    <3>2. reader' = [reader EXCEPT ![r] = u]
      BY <2>2 DEF VaultInv, VaultTypes
    <3> HIDE DEF u
    <3> QED BY <2>2, <3>1, <3>2
  <2> QED BY <1>2, <2>1, <2>2 DEF OpenFile, FileType
<1>4. SameFiles /\ files' \in [Wallets -> FileType]
  <2>1. CASE UNCHANGED files
    BY <2>1 DEF SameFiles, VaultInv, VaultTypes
  <2>2. ASSUME NEW s \in SealedOnce(NoFile, p), files[w] = NoFile,
               files' = [files EXCEPT ![w] = [key |-> p, tables |-> p, sealed |-> s, secret |-> FALSE]]
        PROVE  SameFiles /\ files' \in [Wallets -> FileType]
    <3>1. s \in SomePhrase
      BY <1>2, VaultConstants DEF SealedOnce, NoFile
    <3> DEFINE f == [key |-> p, tables |-> p, sealed |-> s, secret |-> FALSE]
    <3>2. f \in FileType
      BY <1>2, <3>1 DEF FileType
    <3> HIDE DEF f
    <3>3. files' = [files EXCEPT ![w] = f]
      BY <2>2 DEF f
    <3> QED BY <1>2, <2>2, <3>2, <3>3 DEF SameFiles, VaultInv, VaultTypes
  <2>3. ASSUME NEW s \in SealedOnce(files[w], files[w].key), files' = [files EXCEPT ![w].sealed = s]
        PROVE  SameFiles /\ files' \in [Wallets -> FileType]
    <3>1. s \in SomePhrase
      BY <1>2, VaultConstants DEF SealedOnce, FileType
    <3> DEFINE f == [files[w] EXCEPT !.sealed = s]
    <3>2. /\ f \in FileType /\ f.key = files[w].key /\ f.tables = files[w].tables
          /\ f.secret = files[w].secret
      BY <1>2, <3>1 DEF FileType
    <3>3. files' = [files EXCEPT ![w] = f]
      BY <1>2, <2>3 DEF VaultInv, VaultTypes
    <3> HIDE DEF f
    <3> QED BY <1>2, <3>2, <3>3 DEF SameFiles, VaultInv, VaultTypes
  <2> QED BY <2>1, <2>2, <2>3 DEF OpenFile
<1> HIDE DEF w, p
<1>5. VaultTypes'
  BY <1>1, <1>2, <1>3, <1>4, ReaderMoved DEF VaultInv, VaultTypes
<1>6. Listed' /\ PhraseInv'
  BY <1>1, <1>4, FilesOpened
<1>7. Handles'
  <2>1. /\ reader'[r] = v /\ \A x \in Readers \ {r} : reader'[x] = reader[x]
    BY <1>2, <1>3, ReaderMoved
  <2>2. ASSUME op.kind # "change", torn \cap {"change", "rollback"} = {}, cache[r].epoch = epoch,
               v.pc = "insert"
        PROVE  v.w \in Kept /\ v.key = listing.hash
    <3>1. w \in Kept
      BY <1>1, <2>2 DEF VaultInv, Handles, w
    <3>2. w \in listing.rows \/ (op.kind = "delete" /\ w = op.w)
      <4>1. mem.wallets \subseteq listing.rows
        BY DEF VaultInv, Listed
      <4> QED BY <3>1, <4>1 DEF Kept
    <3>3. listing.hash \in Phrases /\ Under(w, listing.hash)
      BY <2>2, <3>2 DEF VaultInv, PhraseInv, Settled
    <3>4. files[w] # NoFile
      BY <1>2, <3>3, NotMissing
    <3> QED BY <1>3, <2>2, <3>1, <3>3, <3>4 DEF Under
  <2> QED BY <1>1, <1>3, <2>1, <2>2 DEF VaultInv, Handles, Kept
<1> QED BY <1>5, <1>6, <1>7 DEF VaultInv

LEMMA InsertHandleStep == ASSUME VaultInv, NEW r \in Readers, InsertHandle(r) PROVE VaultInv'
<1> DEFINE w == reader[r].w
           k == reader[r].key
           c == [cache[r] EXCEPT !.entries = [cache[r].entries EXCEPT ![w] = k]]
<1>1. /\ reader[r].pc = "insert" /\ reader' = [reader EXCEPT ![r] = NoRead]
      /\ cache' = [cache EXCEPT ![r].entries[w] = k]
      /\ UNCHANGED <<keystore, listing, mem, op, epoch, torn, files>>
  BY DEF InsertHandle, readOnly
<1>2. w \in Wallets /\ k \in SomePhrase /\ cache[r] \in CacheType /\ cache[r].entries \in [Wallets -> SomePhrase]
  BY <1>1 DEF VaultInv, VaultTypes, ReadType, CacheType
<1>3. /\ c \in CacheType /\ c.epoch = cache[r].epoch /\ c.entries[w] = k
      /\ \A x \in Wallets \ {w} : c.entries[x] = cache[r].entries[x]
  <2> DEFINE e == [cache[r].entries EXCEPT ![w] = k]
  <2>1. /\ e \in [Wallets -> SomePhrase] /\ e[w] = k
        /\ \A x \in Wallets \ {w} : e[x] = cache[r].entries[x]
    BY <1>2
  <2> HIDE DEF e, w, k
  <2>2. [cache[r] EXCEPT !.entries = e] \in CacheType /\ [cache[r] EXCEPT !.entries = e].epoch = cache[r].epoch
        /\ [cache[r] EXCEPT !.entries = e].entries = e
    BY <1>2, <2>1 DEF CacheType
  <2> QED BY <2>1, <2>2 DEF e
<1>4. cache' = [cache EXCEPT ![r] = c]
  BY <1>1, <1>2 DEF VaultInv, VaultTypes, CacheType
<1> HIDE DEF c
<1>5. /\ cache' \in [Readers -> CacheType] /\ cache'[r] = c
      /\ \A x \in Readers \ {r} : cache'[x] = cache[x]
  BY <1>3, <1>4 DEF VaultInv, VaultTypes
<1>6. /\ reader'[r] = NoRead /\ NoRead.pc = "rest" /\ NoRead \in ReadType
      /\ \A x \in Readers \ {r} : reader'[x] = reader[x]
  BY <1>1, ConstantsTyped DEF VaultInv, VaultTypes, NoRead
<1>7. VaultTypes'
  BY <1>1, <1>5, <1>6, ReaderMoved DEF VaultInv, VaultTypes
<1>8. Listed' /\ PhraseInv'
  BY <1>1 DEF VaultInv, Listed, PhraseInv, Settled, Halfway, Under, Done
<1>9. Handles'
  BY <1>1, <1>2, <1>3, <1>5, <1>6 DEF VaultInv, Handles, Kept
<1> QED BY <1>7, <1>8, <1>9 DEF VaultInv

-----------------------------------------------------------------------------
LEMMA VaultInductive == VaultSpec => []VaultInv
<1>1. ASSUME VaultInv, [VaultNext]_vaultVars PROVE VaultInv'
  <2>1. CASE UNCHANGED vaultVars
    BY <1>1, <2>1 DEF vaultVars, VaultInv, VaultTypes, Listed, PhraseInv, Settled, Halfway, Under, Done,
                      Handles, Kept
  <2>2. CASE VaultNext
    BY <1>1, <2>2, UnlockStep, CrashStep, CreateFileStep, CreateSecretStep, RegisterStep,
       FilesRemovedStep, DeleteRowStep, DeleteActiveStep, ChangeStartStep, RekeyWalletStep,
       ReencryptTablesStep, RollbackWalletStep, RollbackDoneStep, RegistryStep, ChangeFinishStep,
       ResealStep, ReadPhraseStep, SyncEpochStep, LookUpStep, OpenFileStep, InsertHandleStep
    DEF VaultNext, Read
  <2> QED BY <1>1, <2>1, <2>2
<1> QED BY <1>1, VaultInitInv, PTL DEF VaultSpec

\* A wallet that the registry or the process lists has its file with its secret,
\* whatever creation, deletion or passphrase change a crash interrupted.
THEOREM WalletsComplete == VaultSpec => []ListedComplete
<1>1. VaultInv => ListedComplete
  BY DEF VaultInv, Listed, ListedComplete
<1> QED BY <1>1, VaultInductive, PTL

\* Unless a passphrase change was cut short, one passphrase verifies against the
\* registry, opens it and opens every listed wallet: rollback_wallets takes back
\* exactly what change_app_passphrase had rekeyed.
THEOREM PassphraseUnique == VaultSpec => []OnePassphrase
<1>1. VaultInv => OnePassphrase
  BY DEF VaultInv, PhraseInv, Settled, Under, OnePassphrase, RegistryOpens, KeyFits, WalletOpens
<1> QED BY <1>1, VaultInductive, PTL

\* Outside passphrase changes and unless one failed, the handle a reader's cache
\* would return is keyed like the file of its wallet: every operation that rekeys
\* or removes files raises the cache epoch after it.
THEOREM CachesCurrent == VaultSpec => []HandlesCurrent
<1>1. ASSUME VaultInv PROVE HandlesCurrent
  <2>1. mem.wallets \subseteq listing.rows /\ listing.rows \subseteq Wallets
    BY <1>1, RowsTyped DEF VaultInv, Listed
  <2> QED BY <1>1, <2>1 DEF VaultInv, PhraseInv, Settled, Under, Handles, HandlesCurrent
<1> QED BY <1>1, VaultInductive, PTL
=============================================================================

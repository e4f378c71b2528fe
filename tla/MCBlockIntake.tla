--------------------------- MODULE MCBlockIntake ----------------------------
(***************************************************************************)
(* TLC instance of BlockIntake and, side by side with it, of the transport *)
(* its servers are reached through.  The download sees the transport only  *)
(* as streams that fail, so each is explored while the other rests.  The   *)
(* actions are listed one by one so that TLC counts the steps of each.     *)
(***************************************************************************)
EXTENDS BlockIntake, Transport

CONSTANTS Mirror, q1, q2

VARIABLE part   \* the one that is explored

InIntake == part = "intake"
InTransport == part = "transport"
OnlyIntake == UNCHANGED <<part, transportVars>>
OnlyTransport == UNCHANGED <<part, vars>>

\* One initial state of a part at rest stands for all.
ClientInit ==
    /\ Init /\ TransportInit
    /\ part \in {"intake", "transport"}
    /\ InIntake => stored = "Tor"
    /\ InTransport => serves = [s \in Sources |-> 1]
ClientNext ==
    \/ InIntake /\ Switch /\ OnlyIntake
    \/ InIntake /\ PoolProbed /\ OnlyIntake
    \/ InIntake /\ Cancelled /\ OnlyIntake
    \/ InIntake /\ PrefixStep /\ OnlyIntake
    \/ InIntake /\ PrefixDone /\ OnlyIntake
    \/ InIntake /\ RestOrder /\ OnlyIntake
    \/ InIntake /\ RestTry /\ OnlyIntake
    \/ InIntake /\ RestBlock /\ OnlyIntake
    \/ InIntake /\ RestError /\ OnlyIntake
    \/ InIntake /\ RestRound /\ OnlyIntake
    \/ InIntake /\ RestComplete /\ OnlyIntake
    \/ InIntake /\ RestFails /\ OnlyIntake
    \/ InIntake /\ Assign /\ OnlyIntake
    \/ InIntake /\ AssignDone /\ OnlyIntake
    \/ InIntake /\ Flush /\ OnlyIntake
    \/ InIntake /\ FlushDone /\ OnlyIntake
    \/ InIntake /\ Leave /\ OnlyIntake
    \/ InIntake /\ OnChunk /\ OnlyIntake
    \/ InIntake /\ OnComplete /\ OnlyIntake
    \/ InIntake /\ OnFailed /\ OnlyIntake
    \/ InIntake /\ (\E s \in Sources : WorkerReceive(s)) /\ OnlyIntake
    \/ InIntake /\ (\E s \in Sources : WorkerSend(s)) /\ OnlyIntake
    \/ InIntake /\ (\E s \in Sources : WorkerEnd(s)) /\ OnlyIntake
    \/ InTransport /\ LoadTunnel /\ OnlyTransport
    \/ InTransport /\ SetBridges /\ OnlyTransport
    \/ InTransport /\ (\E mode \in Modes : SelectBegin(mode)) /\ OnlyTransport
    \/ InTransport /\ SelectEnd /\ OnlyTransport
    \/ InTransport /\ ShutdownBegin /\ OnlyTransport
    \/ InTransport /\ ShutdownLock /\ OnlyTransport
    \/ InTransport /\ ShutdownEnd /\ OnlyTransport
    \/ InTransport /\ (\E q \in Requests, kind \in Kinds : ReadTunnel(q, kind)) /\ OnlyTransport
    \/ InTransport /\ (\E q \in Requests : BootstrapSelect(q)) /\ OnlyTransport
    \/ InTransport /\ (\E q \in Requests : Capture(q)) /\ OnlyTransport
    \/ InTransport /\ (\E q \in Requests : Enter(q)) /\ OnlyTransport
    \/ InTransport /\ (\E q \in Requests : Initialize(q)) /\ OnlyTransport
    \/ InTransport /\ (\E q \in Requests : Reuse(q)) /\ OnlyTransport
    \/ InTransport /\ (\E q \in Requests : Publish(q)) /\ OnlyTransport
    \/ InTransport /\ (\E q \in Requests : BuildFails(q)) /\ OnlyTransport
    \/ InTransport /\ (\E q \in Requests : Dial(q)) /\ OnlyTransport
    \/ InTransport /\ (\E q \in Requests : BootstrapEnd(q)) /\ OnlyTransport
    \/ InTransport /\ (\E q \in Requests : PoolProbe(q)) /\ OnlyTransport
    \/ InTransport /\ (\E q \in Requests : Connected(q)) /\ OnlyTransport
    \/ InTransport /\ (\E q \in Requests : DialFails(q)) /\ OnlyTransport
    \/ InTransport /\ (\E q \in Requests : Close(q)) /\ OnlyTransport

\* Fairness is the download's: Settles is about the behaviours that run it, and
\* nothing is promised of a transport the user may switch for ever.
ClientSpec == ClientInit /\ [][ClientNext]_<<part, vars, transportVars>> /\ Fairness
=============================================================================

----------------------------- MODULE Lifecycle -----------------------------
(***************************************************************************)
(* main (main.py): build the BACnet application, load the points, start    *)
(* the MQTT tasks that are configured, serve HTTP, and in a finally cancel *)
(* and await the bridge, then cancel and await the gateway.  Each task is  *)
(* an instance of BrokerTask.                                              *)
(***************************************************************************)
EXTENDS Naturals

VARIABLES
  main,                         \* where main is
  bridgeOn, gatewayOn,          \* configured by the environment
  bSt, bSub, bSwallowed,        \* the bridge task
  gSt, gSub, gSwallowed         \* the gateway task

bridgeVars == <<bSt, bSub, bSwallowed>>
gatewayVars == <<gSt, gSub, gSwallowed>>
vars == <<main, bridgeOn, gatewayOn, bridgeVars, gatewayVars>>

\* The poll loop builds payloads outside its try; nothing awaits a BACnet device.
Bridge == INSTANCE BrokerTask
  WITH SubTask <- {"running"}, SubMayFail <- TRUE, Reads <- FALSE,
       st <- bSt, sub <- bSub, swallowed <- bSwallowed

\* The telemetry loop, if it is configured, catches what a tick raises;
\* client_read_property can be asked.
Gateway == INSTANCE BrokerTask
  WITH SubTask <- {"none", "running"}, SubMayFail <- FALSE, Reads <- TRUE,
       st <- gSt, sub <- gSub, swallowed <- gSwallowed

Init ==
  /\ main = "starting"
  /\ bridgeOn \in BOOLEAN /\ gatewayOn \in BOOLEAN
  /\ Bridge!Init
  /\ Gateway!Init

config == <<bridgeOn, gatewayOn>>

\* An exception of from_args or of the loader is logged, and main returns.
StartupFails ==
  /\ main = "starting"
  /\ main' = "exited"
  /\ UNCHANGED <<config, bridgeVars, gatewayVars>>

StartupSucceeds ==
  /\ main = "starting"
  /\ main' = "serving"
  /\ UNCHANGED <<config, bridgeVars, gatewayVars>>

\* serve() returns, or raises: the finally runs in both cases.
ServeEnds ==
  /\ main = "serving"
  /\ main' = IF bridgeOn THEN "stop bridge" ELSE IF gatewayOn THEN "stop gateway" ELSE "exited"
  /\ UNCHANGED <<config, bridgeVars, gatewayVars>>

CancelBridge ==
  /\ main = "stop bridge"
  /\ main' = "join bridge"
  /\ Bridge!Cancel
  /\ UNCHANGED <<config, gatewayVars>>

\* Mutant of Joined: the task is cancelled and not awaited.
JoinedAtOnce(state) == TRUE

\* `await task` returns, with CancelledError or without.
Joined(state) == state = "done"

JoinBridge ==
  /\ main = "join bridge"
  /\ Joined(bSt)
  /\ main' = IF gatewayOn THEN "stop gateway" ELSE "exited"
  /\ UNCHANGED <<config, bridgeVars, gatewayVars>>

CancelGateway ==
  /\ main = "stop gateway"
  /\ main' = "join gateway"
  /\ Gateway!Cancel
  /\ UNCHANGED <<config, bridgeVars>>

JoinGateway ==
  /\ main = "join gateway"
  /\ Joined(gSt)
  /\ main' = "exited"
  /\ UNCHANGED <<config, bridgeVars, gatewayVars>>

TasksStarted == main \notin {"starting", "exited"}

BridgeProceeds ==
  /\ TasksStarted /\ bridgeOn
  /\ Bridge!Proceed
  /\ UNCHANGED <<main, config, gatewayVars>>

GatewayProceeds ==
  /\ TasksStarted /\ gatewayOn
  /\ Gateway!Proceed
  /\ UNCHANGED <<main, config, bridgeVars>>

Finally == CancelBridge \/ JoinBridge \/ CancelGateway \/ JoinGateway

Next ==
  \/ StartupFails
  \/ StartupSucceeds
  \/ ServeEnds
  \/ Finally
  \/ BridgeProceeds
  \/ GatewayProceeds

Spec == Init /\ [][Next]_vars

\* The event loop runs main and the tasks' clean-up when they are ready.  Nothing
\* makes serve() end, a broker answer or a session fail.
FairSpec ==
  /\ Spec
  /\ WF_vars(Finally)
  /\ WF_vars(BridgeProceeds /\ Bridge!Progress)
  /\ WF_vars(GatewayProceeds /\ Gateway!Progress)

-----------------------------------------------------------------------------
(* Properties *)

TypeOK ==
  /\ main \in {"starting", "serving", "stop bridge", "join bridge", "stop gateway",
               "join gateway", "exited"}
  /\ config \in BOOLEAN \X BOOLEAN
  /\ bSt \in Bridge!States /\ gSt \in Gateway!States
  /\ bSub \in {"none", "running", "failed"} /\ gSub \in {"none", "running"}
  /\ bSwallowed \in BOOLEAN /\ gSwallowed \in BOOLEAN

\* main does not return while a task it started is running: no publish or BACnet
\* request happens after "exited" (main.py:109-121).
NoOrphanTask ==
  main = "exited" => (bridgeOn => bSt \in {"new", "done"}) /\ (gatewayOn => gSt \in {"new", "done"})

\* A sub-task does not outlive the session it belongs to (mqtt_bridge.py:290-295,
\* mqtt_rpc_gateway.py:364-370).
SubTaskInSession ==
  /\ bSub # "none" => bSt \in {"up", "closing on error", "closing on cancel"}
  /\ gSub # "none" => gSt \in {"up", "reading", "closing on error", "closing on cancel"}

\* Wherever in its session a task is cancelled, main then awaits it only when it is over
\* or in its last await, that of its sub-task in the finally, unless it has swallowed the
\* cancellation (main.py:110-120, mqtt_bridge.py:290-300, mqtt_rpc_gateway.py:364-380).
JoinsAtLastAwait ==
  /\ main = "join bridge" => bSwallowed \/ bSt \in {"done", "closing on cancel"}
  /\ main = "join gateway" => gSwallowed \/ gSt \in {"done", "closing on cancel"}

\* The steps that the end of main waits for are possible: those of its finally, ...
FinallyReady ==
  \/ main \in {"stop bridge", "stop gateway"}
  \/ main = "join bridge" /\ bSt = "done"
  \/ main = "join gateway" /\ gSt = "done"
  => ENABLED <<Finally>>_vars

\* ... and those of the tasks' own.
ClosingReady ==
  /\ main = "join bridge" /\ bSt = "closing on cancel"
     => ENABLED <<BridgeProceeds /\ Bridge!Progress>>_vars
  /\ main = "join gateway" /\ gSt = "closing on cancel"
     => ENABLED <<GatewayProceeds /\ Gateway!Progress>>_vars

\* Once serve() has ended, main exits, unless a task has swallowed its cancellation:
\* in bacnet_read, in the finally of a failing session, or by the poll loop's exception.
\* On the way the steps it waits for are always possible: it waits for no broker, device
\* or timer (main.py:110-120, mqtt_bridge.py:290-295, mqtt_rpc_gateway.py:364-370).
ExitsUnlessSwallowed ==
  /\ []FinallyReady /\ []ClosingReady
  /\ main = "stop bridge" \/ main = "stop gateway" ~>
       main = "exited" \/ bSwallowed \/ gSwallowed

=============================================================================

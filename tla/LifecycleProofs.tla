-------------------------- MODULE LifecycleProofs --------------------------
(***************************************************************************)
(* main leaves no task running and sessions leave no sub-task running,     *)
(* wherever the tasks are when they are cancelled; and main exits, if the  *)
(* steps it waits for are possible when FinallyReady and ClosingReady say  *)
(* they are.  Its composition of the two tasks leaves each a BrokerTask.   *)
(***************************************************************************)
EXTENDS Lifecycle, TLAPS

\* A task that is configured is new or over when main is not between start and exit;
\* it is over once main has awaited it.
Joins ==
  /\ main = "starting" => bSt = "new" /\ gSt = "new"
  /\ bridgeOn /\ main \in {"stop gateway", "join gateway"} => bSt = "done"
  /\ gatewayOn /\ main = "exited" => gSt \in {"new", "done"}
  /\ bridgeOn /\ main = "exited" => bSt \in {"new", "done"}
  /\ main \in {"stop bridge", "join bridge"} => bridgeOn
  /\ main \in {"stop gateway", "join gateway"} => gatewayOn

IInv == TypeOK /\ Joins /\ SubTaskInSession /\ JoinsAtLastAwait

LEMMA InitIInv == Init => IInv
BY DEF Init, Bridge!Init, Gateway!Init, IInv, TypeOK, Joins, SubTaskInSession, JoinsAtLastAwait, config,
   Bridge!States, Gateway!States

\* What a task does by itself: its types and its sub-task stay, and "done" is final.
LEMMA BridgeKeeps ==
  ASSUME TypeOK, SubTaskInSession, Bridge!Proceed \/ Bridge!Cancel
  PROVE  /\ bSt' \in Bridge!States /\ bSub' \in {"none", "running", "failed"}
         /\ bSwallowed' \in BOOLEAN
         /\ bSub' # "none" => bSt' \in {"up", "closing on error", "closing on cancel"}
         /\ bSt = "done" => bSt' = "done"
         /\ bSwallowed => bSwallowed'
         /\ bSt = "closing on cancel" => bSwallowed' \/ bSt' \in {"done", "closing on cancel"}
<1> USE DEF TypeOK, SubTaskInSession, Bridge!States
<1>1. CASE Bridge!Start \/ Bridge!Connect \/ Bridge!SetUp \/ Bridge!SubFails
  BY <1>1 DEF Bridge!Start, Bridge!Connect, Bridge!SetUp, Bridge!SubFails
<1>2. CASE Bridge!Read \/ Bridge!ReadReturns \/ Bridge!SessionFails
  BY <1>2 DEF Bridge!Read, Bridge!ReadReturns, Bridge!SessionFails
<1>3. CASE Bridge!FinishClosing \/ Bridge!BackoffEnds
  BY <1>3 DEF Bridge!FinishClosing, Bridge!SubEnded, Bridge!BackoffEnds
<1>4. CASE Bridge!Cancel
  BY <1>4 DEF Bridge!Cancel, Bridge!CancelInBackoff, Bridge!SubEnded, Bridge!taskVars
<1> QED
  BY <1>1, <1>2, <1>3, <1>4 DEF Bridge!Proceed

LEMMA GatewayKeeps ==
  ASSUME TypeOK, SubTaskInSession, Gateway!Proceed \/ Gateway!Cancel
  PROVE  /\ gSt' \in Gateway!States /\ gSub' \in {"none", "running"}
         /\ gSwallowed' \in BOOLEAN
         /\ gSub' # "none" => gSt' \in {"up", "reading", "closing on error", "closing on cancel"}
         /\ gSt = "done" => gSt' = "done"
         /\ gSwallowed => gSwallowed'
         /\ gSt = "closing on cancel" => gSwallowed' \/ gSt' \in {"done", "closing on cancel"}
<1> USE DEF TypeOK, SubTaskInSession, Gateway!States
<1>1. CASE Gateway!Start \/ Gateway!Connect \/ Gateway!SetUp \/ Gateway!SubFails
  BY <1>1 DEF Gateway!Start, Gateway!Connect, Gateway!SetUp, Gateway!SubFails
<1>2. CASE Gateway!Read \/ Gateway!ReadReturns \/ Gateway!SessionFails
  BY <1>2 DEF Gateway!Read, Gateway!ReadReturns, Gateway!SessionFails
<1>3. CASE Gateway!FinishClosing \/ Gateway!BackoffEnds
  BY <1>3 DEF Gateway!FinishClosing, Gateway!SubEnded, Gateway!BackoffEnds
<1>4. CASE Gateway!Cancel
  BY <1>4 DEF Gateway!Cancel, Gateway!CancelInBackoff, Gateway!SubEnded, Gateway!taskVars
<1> QED
  BY <1>1, <1>2, <1>3, <1>4 DEF Gateway!Proceed

\* task.cancel() ends a task at once or leaves it in its last await, unless it is
\* swallowed (mqtt_bridge.py:290-300, mqtt_rpc_gateway.py:364-380).
LEMMA BridgeCancelled ==
  ASSUME TypeOK, Bridge!Cancel
  PROVE  bSwallowed' \/ bSt' \in {"done", "closing on cancel"}
BY DEF TypeOK, Bridge!States, Bridge!Cancel, Bridge!CancelInBackoff, Bridge!SubEnded, Bridge!taskVars

LEMMA GatewayCancelled ==
  ASSUME TypeOK, Gateway!Cancel
  PROVE  gSwallowed' \/ gSt' \in {"done", "closing on cancel"}
BY DEF TypeOK, Gateway!States, Gateway!Cancel, Gateway!CancelInBackoff, Gateway!SubEnded, Gateway!taskVars

LEMMA NextIInv == IInv /\ [Next]_vars => IInv'
<1> SUFFICES ASSUME IInv, [Next]_vars PROVE IInv'
  OBVIOUS
<1> USE DEF IInv, Joins, JoinsAtLastAwait, config
<1>1. CASE UNCHANGED vars
  BY <1>1 DEF vars, TypeOK, SubTaskInSession, bridgeVars, gatewayVars
<1>2. CASE StartupFails \/ StartupSucceeds \/ ServeEnds
  <2>1. /\ main' \in {"serving", "stop bridge", "stop gateway", "exited"}
        /\ UNCHANGED <<config, bridgeVars, gatewayVars>>
    BY <1>2 DEF StartupFails, StartupSucceeds, ServeEnds
  <2>2. TypeOK' /\ SubTaskInSession'
    BY <2>1 DEF TypeOK, SubTaskInSession, bridgeVars, gatewayVars
  <2>3. Joins' /\ JoinsAtLastAwait'
    BY <1>2, <2>1 DEF StartupFails, StartupSucceeds, ServeEnds, bridgeVars, gatewayVars
  <2> QED
    BY <2>2, <2>3
<1>3. CASE JoinBridge \/ JoinGateway
  BY <1>3 DEF JoinBridge, JoinGateway, Joined, TypeOK, SubTaskInSession, bridgeVars, gatewayVars
<1>4. CASE CancelBridge
  BY <1>4, BridgeKeeps, BridgeCancelled DEF CancelBridge, TypeOK, SubTaskInSession, gatewayVars
<1>5. CASE CancelGateway
  BY <1>5, GatewayKeeps, GatewayCancelled DEF CancelGateway, TypeOK, SubTaskInSession, bridgeVars
<1>6. CASE BridgeProceeds
  BY <1>6, BridgeKeeps DEF BridgeProceeds, TasksStarted, TypeOK, SubTaskInSession, gatewayVars
<1>7. CASE GatewayProceeds
  BY <1>7, GatewayKeeps DEF GatewayProceeds, TasksStarted, TypeOK, SubTaskInSession, bridgeVars
<1> QED
  BY <1>1, <1>2, <1>3, <1>4, <1>5, <1>6, <1>7 DEF Next, Finally

-----------------------------------------------------------------------------
(* Theorems *)

\* The invariant on which the theorems rest.
THEOREM LifecycleInvariant == Spec => []IInv
  BY InitIInv, NextIInv, PTL DEF Spec

\* The variables of main and of the two tasks have their types (main.py:49-121).
THEOREM LifecycleTypes == Spec => []TypeOK
<1>1. IInv => TypeOK
  BY DEF IInv
<1> QED
  BY <1>1, LifecycleInvariant, PTL

\* main does not return while a task it started is running (main.py:109-121).
THEOREM NeverOrphanTask == Spec => []NoOrphanTask
<1>1. IInv => NoOrphanTask
  BY DEF IInv, Joins, NoOrphanTask
<1> QED
  BY <1>1, LifecycleInvariant, PTL

\* A sub-task does not outlive its session (mqtt_bridge.py:290-295,
\* mqtt_rpc_gateway.py:364-370).
THEOREM SubTasksEndWithSession == Spec => []SubTaskInSession
<1>1. IInv => SubTaskInSession
  BY DEF IInv
<1> QED
  BY <1>1, LifecycleInvariant, PTL

\* A task that main awaits is over or in its last await, unless it has swallowed the
\* cancellation (main.py:110-120).
THEOREM AlwaysJoinsAtLastAwait == Spec => []JoinsAtLastAwait
<1>1. IInv => JoinsAtLastAwait
  BY DEF IInv
<1> QED
  BY <1>1, LifecycleInvariant, PTL

\* main's steps, those of its finally among them, are to each task a step of its own, a
\* cancellation or nothing: what holds of every BrokerTask holds of both, and no step of
\* one task moves the other (main.py:71-92, 110-120).
THEOREM MainComposesTasks == Spec => Bridge!Spec /\ Gateway!Spec
<1>1. Init => Bridge!Init /\ Gateway!Init
  BY DEF Init
<1>2. [Next]_vars => [Bridge!Next]_(Bridge!taskVars)
  BY DEF Next, Finally, StartupFails, StartupSucceeds, ServeEnds, CancelBridge, JoinBridge,
         CancelGateway, JoinGateway, BridgeProceeds, GatewayProceeds, Bridge!Next, vars,
         bridgeVars, Bridge!taskVars
<1>3. [Next]_vars => [Gateway!Next]_(Gateway!taskVars)
  BY DEF Next, Finally, StartupFails, StartupSucceeds, ServeEnds, CancelBridge, JoinBridge,
         CancelGateway, JoinGateway, BridgeProceeds, GatewayProceeds, Gateway!Next, vars,
         gatewayVars, Gateway!taskVars
<1> QED
  BY <1>1, <1>2, <1>3, PTL DEF Spec, Bridge!Spec, Gateway!Spec

-----------------------------------------------------------------------------
(* The end of main.  What is left to TLC is that a step is possible where  *)
(* FinallyReady and ClosingReady say so: the run of Lifecycle checks both  *)
(* in every state, as parts of ExitsUnlessSwallowed.                       *)

StopBridge == main = "stop bridge"
BridgeCloses == main = "join bridge" /\ bSt = "closing on cancel"
BridgeOver == main = "join bridge" /\ bSt = "done"
StopGateway == main = "stop gateway"
GatewayCloses == main = "join gateway" /\ gSt = "closing on cancel"
GatewayOver == main = "join gateway" /\ gSt = "done"
Ended == main = "exited" \/ bSwallowed \/ gSwallowed

BridgeClosing == BridgeProceeds /\ Bridge!Progress
GatewayClosing == GatewayProceeds /\ Gateway!Progress

\* From one stage of the finally main only gets to the next one (main.py:109-120).
LEMMA Stages ==
  ASSUME IInv, [Next]_vars
  PROVE  /\ StopBridge => StopBridge' \/ BridgeCloses' \/ BridgeOver' \/ Ended'
         /\ BridgeCloses => BridgeCloses' \/ BridgeOver' \/ Ended'
         /\ BridgeOver => BridgeOver' \/ StopGateway' \/ Ended'
         /\ StopGateway => StopGateway' \/ GatewayCloses' \/ GatewayOver' \/ Ended'
         /\ GatewayCloses => GatewayCloses' \/ GatewayOver' \/ Ended'
         /\ GatewayOver => GatewayOver' \/ Ended'
<1> USE DEF StopBridge, BridgeCloses, BridgeOver, StopGateway, GatewayCloses, GatewayOver, Ended
<1>1. CASE UNCHANGED vars
  BY <1>1 DEF vars, bridgeVars, gatewayVars
<1>2. CASE StartupFails \/ StartupSucceeds \/ ServeEnds
  BY <1>2 DEF StartupFails, StartupSucceeds, ServeEnds
<1>3. CASE CancelBridge
  BY <1>3, BridgeCancelled DEF CancelBridge, IInv
<1>4. CASE CancelGateway
  BY <1>4, GatewayCancelled DEF CancelGateway, IInv
<1>5. CASE JoinBridge \/ JoinGateway
  BY <1>5 DEF JoinBridge, JoinGateway, Joined
<1>6. CASE BridgeProceeds
  BY <1>6, BridgeKeeps DEF BridgeProceeds, gatewayVars, IInv
<1>7. CASE GatewayProceeds
  BY <1>7, GatewayKeeps DEF GatewayProceeds, bridgeVars, IInv
<1> QED
  BY <1>1, <1>2, <1>3, <1>4, <1>5, <1>6, <1>7 DEF Next, Finally

\* The step a stage waits for ends it (main.py:110-120, mqtt_bridge.py:290-295,
\* mqtt_rpc_gateway.py:364-370).
LEMMA StageEnds ==
  ASSUME IInv
  PROVE  /\ StopBridge /\ <<Finally>>_vars => BridgeCloses' \/ BridgeOver' \/ Ended'
         /\ BridgeCloses /\ <<BridgeClosing>>_vars => BridgeOver' \/ Ended'
         /\ BridgeOver /\ <<Finally>>_vars => StopGateway' \/ Ended'
         /\ StopGateway /\ <<Finally>>_vars => GatewayCloses' \/ GatewayOver' \/ Ended'
         /\ GatewayCloses /\ <<GatewayClosing>>_vars => GatewayOver' \/ Ended'
         /\ GatewayOver /\ <<Finally>>_vars => Ended'
<1> USE DEF StopBridge, BridgeCloses, BridgeOver, StopGateway, GatewayCloses, GatewayOver, Ended
<1>1. ASSUME Finally
      PROVE  /\ StopBridge => BridgeCloses' \/ BridgeOver' \/ Ended'
             /\ BridgeOver => StopGateway' \/ Ended'
             /\ StopGateway => GatewayCloses' \/ GatewayOver' \/ Ended'
             /\ GatewayOver => Ended'
  BY <1>1, BridgeCancelled, GatewayCancelled
     DEF Finally, CancelBridge, JoinBridge, CancelGateway, JoinGateway, IInv
<1>2. BridgeCloses /\ BridgeClosing => BridgeOver' \/ Ended'
  BY DEF BridgeClosing, BridgeProceeds, Bridge!Progress, Bridge!FinishClosing, Bridge!ReadReturns
<1>3. GatewayCloses /\ GatewayClosing => GatewayOver' \/ Ended'
  BY DEF GatewayClosing, GatewayProceeds, Gateway!Progress, Gateway!FinishClosing, Gateway!ReadReturns
<1> QED
  BY <1>1, <1>2, <1>3

\* Once serve() has ended, main exits unless a cancellation has been swallowed, if the
\* steps of its finally and of the tasks' own are possible in the states that wait for
\* them (main.py:109-121).
THEOREM ShutdownEnds ==
  FairSpec /\ []FinallyReady /\ []ClosingReady => ExitsUnlessSwallowed
<1>1. FairSpec => Spec /\ WF_vars(Finally) /\ WF_vars(BridgeClosing) /\ WF_vars(GatewayClosing)
  BY PTL DEF FairSpec, BridgeClosing, GatewayClosing
<1>2. FinallyReady =>
        (StopBridge \/ BridgeOver \/ StopGateway \/ GatewayOver => ENABLED <<Finally>>_vars)
  BY DEF FinallyReady, StopBridge, BridgeOver, StopGateway, GatewayOver
<1>3. ClosingReady => /\ BridgeCloses => ENABLED <<BridgeClosing>>_vars
                      /\ GatewayCloses => ENABLED <<GatewayClosing>>_vars
  BY DEF ClosingReady, BridgeCloses, GatewayCloses, BridgeClosing, GatewayClosing
<1>4. FairSpec /\ []FinallyReady => (StopBridge ~> BridgeCloses \/ BridgeOver \/ Ended)
  BY <1>1, <1>2, Stages, StageEnds, LifecycleInvariant, PTL DEF Spec
<1>5. FairSpec /\ []ClosingReady => (BridgeCloses ~> BridgeOver \/ Ended)
  BY <1>1, <1>3, Stages, StageEnds, LifecycleInvariant, PTL DEF Spec
<1>6. FairSpec /\ []FinallyReady => (BridgeOver ~> StopGateway \/ Ended)
  BY <1>1, <1>2, Stages, StageEnds, LifecycleInvariant, PTL DEF Spec
<1>7. FairSpec /\ []FinallyReady => (StopGateway ~> GatewayCloses \/ GatewayOver \/ Ended)
  BY <1>1, <1>2, Stages, StageEnds, LifecycleInvariant, PTL DEF Spec
<1>8. FairSpec /\ []ClosingReady => (GatewayCloses ~> GatewayOver \/ Ended)
  BY <1>1, <1>3, Stages, StageEnds, LifecycleInvariant, PTL DEF Spec
<1>9. FairSpec /\ []FinallyReady => (GatewayOver ~> Ended)
  BY <1>1, <1>2, Stages, StageEnds, LifecycleInvariant, PTL DEF Spec
<1>10. FairSpec /\ []FinallyReady /\ []ClosingReady => (StopBridge \/ StopGateway ~> Ended)
  BY <1>4, <1>5, <1>6, <1>7, <1>8, <1>9, PTL
<1> QED
  BY <1>10 DEF ExitsUnlessSwallowed, StopBridge, StopGateway, Ended

=============================================================================

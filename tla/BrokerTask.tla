----------------------------- MODULE BrokerTask -----------------------------
(***************************************************************************)
(* What the two MQTT tasks have in common (run_mqtt_bridge in              *)
(* mqtt_bridge.py, run_mqtt_rpc_gateway in mqtt_rpc_gateway.py): connect,  *)
(* serve a session with a sub-task beside it, clean up in a finally, sleep *)
(* and connect again after an error, end when cancelled.  It says where    *)
(* the task is suspended, as that decides what a cancellation does.        *)
(***************************************************************************)

CONSTANTS
  SubTask,      \* what sub a session may start with: {"none"}, {"running"} or both
  SubMayFail,   \* the sub-task can end with an exception
  Reads         \* the session can be suspended inside bacnet_read

VARIABLES
  st,           \* where the task is
  sub,          \* its sub-task
  swallowed     \* a cancellation was turned into something else

taskVars == <<st, sub, swallowed>>

(* "closing" is the await of the cancelled sub-task in the finally, with   *)
(* the exception that is under way.                                        *)
States == {"new", "connecting", "setup", "up", "reading", "closing on error",
           "closing on cancel", "backoff", "done"}

Init == st = "new" /\ sub = "none" /\ swallowed = FALSE

\* Not configured or aiomqtt missing: the coroutine returns.
Start ==
  /\ st = "new"
  /\ st' \in {"connecting", "done"}
  /\ UNCHANGED <<sub, swallowed>>

Connect ==
  /\ st = "connecting"
  /\ st' \in {"setup", "backoff"}
  /\ UNCHANGED <<sub, swallowed>>

\* The first publishes and the subscription, before the sub-task exists.
SetUp ==
  /\ st = "setup"
  /\ \/ st' = "up" /\ sub' \in SubTask
     \/ st' = "backoff" /\ UNCHANGED sub
  /\ UNCHANGED swallowed

SubFails ==
  /\ SubMayFail
  /\ sub = "running"
  /\ st \in {"up", "reading"}
  /\ sub' = "failed"
  /\ UNCHANGED <<st, swallowed>>

Read ==
  /\ Reads
  /\ st = "up"
  /\ st' = "reading"
  /\ UNCHANGED <<sub, swallowed>>

ReadReturns ==
  /\ st = "reading"
  /\ st' = "up"
  /\ UNCHANGED <<sub, swallowed>>

SessionFails ==
  /\ st = "up"
  /\ st' = IF sub = "none" THEN "backoff" ELSE "closing on error"
  /\ UNCHANGED <<sub, swallowed>>

\* Mutants of SubEnded: the finally does not wait for the sub-task; it takes every
\* sub-task to have failed.
SubLeft == UNCHANGED sub
SubFailed == sub' = "failed"

SubEnded == sub' = "none"

\* The sub-task's own exception takes the place of the one under way: of a
\* cancellation, too.
FinishClosing ==
  /\ st \in {"closing on error", "closing on cancel"}
  /\ st' = IF st = "closing on cancel" /\ sub # "failed" THEN "done" ELSE "backoff"
  /\ swallowed' = (swallowed \/ (st = "closing on cancel" /\ sub = "failed"))
  /\ SubEnded

BackoffEnds ==
  /\ st = "backoff"
  /\ st' = "connecting"
  /\ UNCHANGED <<sub, swallowed>>

\* Mutant of CancelInBackoff: the sleep is inside the loop's try.
CancelInBackoffRetries == st' = "connecting" /\ UNCHANGED <<sub, swallowed>>

\* CancelledError from the sleep leaves the except clause and the loop.
CancelInBackoff == st' = "done" /\ UNCHANGED <<sub, swallowed>>

\* task.cancel(), by main: CancelledError at the await where the task is.
Cancel ==
  \/ st \in {"new", "connecting", "setup"} /\ st' = "done" /\ UNCHANGED <<sub, swallowed>>
  \/ st = "up" /\ sub = "none" /\ st' = "done" /\ UNCHANGED <<sub, swallowed>>
  \/ st = "up" /\ sub # "none" /\ st' = "closing on cancel" /\ UNCHANGED <<sub, swallowed>>
  \/ st = "reading" /\ st' = "up" /\ swallowed' = TRUE /\ UNCHANGED sub
  \/ st = "closing on error" /\ st' = "backoff" /\ SubEnded /\ swallowed' = TRUE
  \/ st = "backoff" /\ CancelInBackoff
  \/ st = "done" /\ UNCHANGED taskVars

\* What the task does by itself.
Proceed ==
  \/ Start
  \/ Connect
  \/ SetUp
  \/ SubFails
  \/ Read
  \/ ReadReturns
  \/ SessionFails
  \/ FinishClosing
  \/ BackoffEnds

Next == Proceed \/ Cancel

Spec == Init /\ [][Next]_taskVars

\* The finally and a BACnet read come to an end: awaited sub-tasks are cancelled, and
\* bacpypes3 times requests out.
Progress == FinishClosing \/ ReadReturns

=============================================================================

----------------------------- MODULE MqttBridge -----------------------------
(***************************************************************************)
(* run_mqtt_bridge and its poll loop (mqtt_bridge.py): two asyncio tasks   *)
(* that share one client.  The first announces the bridge, subscribes, and *)
(* applies the /set messages of aiomqtt's queue; the second publishes the  *)
(* state of every point each interval.  Both build a payload and hand it   *)
(* to the client without giving up the event loop in between, and await    *)
(* the publish afterwards.  Points also change under them: by BACnet       *)
(* writes and the RPC of the loop, and by the threads that run HTTP        *)
(* methods.                                                                *)
(*                                                                         *)
(* A state is known by its age: how many times its point had changed.      *)
(* Topic parsing is left out; a message is a point to set or "other".      *)
(***************************************************************************)
EXTENDS Integers, Sequences

CONSTANTS
  Points,         \* the names of point_map
  Commandable,    \* the points that server_update_points skips
  MaxChanges,     \* bound: changes of one point
  MaxSets,        \* bound: messages received
  MaxSessions     \* bound: successful connections

ASSUME BridgeAssumption ==
  /\ Commandable \subseteq Points
  /\ "other" \notin Points
  /\ MaxChanges \in Nat /\ MaxSets \in Nat /\ MaxSessions \in Nat

VARIABLES
  pc,           \* where run_mqtt_bridge is
  poll,         \* where the session's poll task is
  todo,         \* points the poll round has still to publish
  draft,        \* draft[w]: the payload task w has built, or nothing
  link,         \* the TCP connection of the client is up
  session,      \* connections made so far
  queue,        \* messages in the queue of aiomqtt
  received,     \* messages received so far
  changes,      \* changes[p]: how often p has changed
  shown,        \* shown[p]: age of the state the broker was last sent
  bridgeState,  \* the retained {prefix}/bridge/state
  cancelled     \* main has called cancel() on the task

vars == <<pc, poll, todo, draft, link, session, queue, received, changes, shown, bridgeState,
          cancelled>>

Publishers == {"handler", "poll"}
Payloads == [point : Points, age : 0 .. MaxChanges]

Init ==
  /\ pc = "new"
  /\ poll = "none" /\ todo = {}
  /\ draft = [w \in Publishers |-> {}]
  /\ link = FALSE /\ session = 0
  /\ queue = <<>> /\ received = 0
  /\ changes = [p \in Points |-> 0]
  /\ shown = [p \in Points |-> 0]
  /\ bridgeState = "none"
  /\ cancelled = FALSE

SettingUp == {"announce", "describe", "subscribe"}
Serving == {"waiting", "sending", "publishing"}
Closing == {"closing on error", "closing on cancel"}

\* Between building a payload and handing it over a task does not give up the loop.
LoopFree == \A w \in Publishers : draft[w] = {}

State(p) == [point |-> p, age |-> changes[p]]

-----------------------------------------------------------------------------
(* Broker, network and the other writers of the points *)

Arrive(message) ==
  /\ link /\ pc \in Serving
  /\ received < MaxSets
  /\ received' = received + 1
  /\ queue' = Append(queue, message)
  /\ UNCHANGED <<pc, poll, todo, draft, link, session, changes, shown, bridgeState, cancelled>>

LinkDrops ==
  /\ link
  /\ link' = FALSE
  /\ UNCHANGED <<pc, poll, todo, draft, session, queue, received, changes, shown, bridgeState,
                 cancelled>>

\* Another writer, possibly a thread: at any time.
OtherWrite(p) ==
  /\ changes[p] < MaxChanges
  /\ changes' = [changes EXCEPT ![p] = @ + 1]
  /\ UNCHANGED <<pc, poll, todo, draft, link, session, queue, received, shown, bridgeState,
                 cancelled>>

-----------------------------------------------------------------------------
(* The session *)

points == <<changes, shown>>

\* Not enabled, no broker URL, or no aiomqtt: the coroutine returns.
Start ==
  /\ pc = "new"
  /\ pc' \in {"connecting", "stopped"}
  /\ UNCHANGED <<poll, todo, draft, link, session, queue, received, points, bridgeState, cancelled>>

\* A new client has a new queue.
ConnectSucceeds ==
  /\ pc = "connecting"
  /\ LoopFree
  /\ session < MaxSessions
  /\ session' = session + 1
  /\ link' = TRUE
  /\ queue' = <<>>
  /\ pc' = "announce"
  /\ UNCHANGED <<poll, todo, draft, received, points, bridgeState, cancelled>>

Announce ==
  /\ pc = "announce"
  /\ link
  /\ bridgeState' = "online"
  /\ pc' = "describe"
  /\ UNCHANGED <<poll, todo, draft, link, session, queue, received, points, cancelled>>

\* bridge/info and bridge/devices, retained too; their content does not change.
Describe ==
  /\ pc = "describe"
  /\ link
  /\ pc' = "subscribe"
  /\ UNCHANGED <<poll, todo, draft, link, session, queue, received, points, bridgeState, cancelled>>

\* The subscription, and the creation of the poll task, which sleeps first.
Subscribe ==
  /\ pc = "subscribe"
  /\ link
  /\ pc' = "waiting"
  /\ poll' = "sleeping"
  /\ UNCHANGED <<todo, draft, link, session, queue, received, points, bridgeState, cancelled>>

\* The connection is refused, or a step of the set-up raises.
SetUpFails ==
  /\ pc \in {"connecting"} \cup SettingUp
  /\ pc' = "backoff"
  /\ link' = FALSE
  /\ UNCHANGED <<poll, todo, draft, session, queue, received, points, bridgeState, cancelled>>

\* The message iterator raises once the queue is empty.
NoticeDisconnection ==
  /\ pc = "waiting"
  /\ LoopFree
  /\ queue = <<>>
  /\ ~link
  /\ pc' = "closing on error"
  /\ UNCHANGED <<poll, todo, draft, link, session, queue, received, points, bridgeState, cancelled>>

\* Mutant of LeavePoll: the finally cancels the poll task and does not await it.
ForgetPoll == UNCHANGED <<poll, todo>>

LeavePoll == poll' = "none" /\ todo' = {}

\* The cancelled poll task has ended.  If it had ended by an exception, that one is
\* raised here instead of the CancelledError under way.
FinishClosing ==
  /\ pc \in Closing
  /\ LeavePoll
  /\ link' = FALSE
  /\ pc' = IF pc = "closing on cancel" /\ poll # "failed" THEN "stopped" ELSE "backoff"
  /\ UNCHANGED <<draft, session, queue, received, points, bridgeState, cancelled>>

Reconnect ==
  /\ pc = "backoff"
  /\ pc' = "connecting"
  /\ UNCHANGED <<poll, todo, draft, link, session, queue, received, points, bridgeState, cancelled>>

-----------------------------------------------------------------------------
(* /set messages *)

Take ==
  /\ pc = "waiting"
  /\ LoopFree
  /\ queue # <<>>
  /\ queue' = Tail(queue)
  /\ UNCHANGED <<poll, todo, link, session, received, shown, bridgeState, cancelled>>

\* Not a /set topic of a known point, or a payload that is no value for it.
Ignore ==
  /\ Take
  /\ Head(queue) = "other"
  /\ UNCHANGED <<pc, draft, changes>>

\* server_update_points skips a commandable point and leaves an equal value; the
\* state is published all the same.
Apply ==
  /\ Take
  /\ Head(queue) # "other"
  /\ \/ UNCHANGED changes
     \/ /\ Head(queue) \notin Commandable
        /\ changes[Head(queue)] < MaxChanges
        /\ changes' = [changes EXCEPT ![Head(queue)] = @ + 1]
  /\ draft' = [draft EXCEPT !["handler"] =
                 {[point |-> Head(queue), age |-> changes'[Head(queue)]]}]
  /\ pc' = "sending"

\* What the broker gets of a payload: nothing if the connection breaks under it.
Delivered(payload) == shown' = [shown EXCEPT ![payload.point] = payload.age]

HandOver(w) ==
  /\ draft' = [draft EXCEPT ![w] = {}]
  /\ \E payload \in draft[w] :
       \/ link /\ Delivered(payload) /\ UNCHANGED link
       \/ UNCHANGED shown /\ link' = FALSE
  /\ UNCHANGED <<session, queue, received, changes, bridgeState, cancelled>>

SendSet ==
  /\ pc = "sending"
  /\ HandOver("handler")
  /\ pc' = "publishing"
  /\ UNCHANGED <<poll, todo>>

\* Mutant of AfterPublish: the failure is not caught.
FailWithPublish == pc' \in IF link THEN {"waiting"} ELSE {"closing on error"}

AfterPublish == pc' = "waiting"

\* The publish returns, raises at once or times out: exceptions are logged.
SetPublished ==
  /\ pc = "publishing"
  /\ LoopFree
  /\ AfterPublish
  /\ UNCHANGED <<poll, todo, draft, link, session, queue, received, points, bridgeState, cancelled>>

-----------------------------------------------------------------------------
(* The poll task *)

\* Mutant of PollRound: commandable points are left to their BACnet clients.
PlainPoints == Points \ Commandable

PollRound == Points

PollWakes ==
  /\ poll = "sleeping"
  /\ pc \in Serving
  /\ poll' = "round" /\ todo' = PollRound
  /\ UNCHANGED <<pc, draft, link, session, queue, received, points, bridgeState, cancelled>>

\* Mutant of MayBuild: the payload is built before an await, not after it.
MayBuildAnyTime == pc \in Serving

MayBuild == pc \in Serving /\ LoopFree

PollBuilds(p) ==
  /\ poll = "round"
  /\ MayBuild
  /\ p \in todo
  /\ todo' = todo \ {p}
  /\ draft' = [draft EXCEPT !["poll"] = {State(p)}]
  /\ poll' = "sending"
  /\ UNCHANGED <<pc, link, session, queue, received, points, bridgeState, cancelled>>

\* build_state_payload is called outside the try.
PollFails ==
  /\ poll = "round"
  /\ MayBuild
  /\ poll' = "failed" /\ todo' = {}
  /\ UNCHANGED <<pc, draft, link, session, queue, received, points, bridgeState, cancelled>>

PollSends ==
  /\ poll = "sending"
  /\ HandOver("poll")
  /\ poll' = "publishing"
  /\ UNCHANGED <<pc, todo>>

\* Mutant of AfterPollPublish: a failed publish ends the loop.
GiveUpOffline == IF link THEN {"round"} ELSE {"returned"}

AfterPollPublish == {"round"}

PollPublished ==
  /\ poll = "publishing"
  /\ pc \in Serving
  /\ LoopFree
  /\ poll' \in AfterPollPublish
  /\ UNCHANGED <<pc, todo, draft, link, session, queue, received, points, bridgeState, cancelled>>

PollSleeps ==
  /\ poll = "round"
  /\ pc \in Serving
  /\ LoopFree
  /\ todo = {}
  /\ poll' = "sleeping"
  /\ UNCHANGED <<pc, todo, draft, link, session, queue, received, points, bridgeState, cancelled>>

-----------------------------------------------------------------------------
(* main cancels the task: CancelledError at the await where it is *)

Cancel ==
  /\ ~cancelled
  /\ LoopFree
  /\ cancelled' = TRUE
  /\ \/ pc \in Serving /\ pc' = "closing on cancel" /\ UNCHANGED <<poll, todo, link>>
     \* The finally takes it for the poll task's own.
     \/ pc = "closing on error" /\ pc' = "backoff" /\ LeavePoll /\ link' = FALSE
     \/ /\ pc \notin Serving \cup Closing \cup {"stopped"}
        /\ pc' = "stopped" /\ link' = FALSE /\ UNCHANGED <<poll, todo>>
  /\ UNCHANGED <<draft, session, queue, received, points, bridgeState>>

Environment ==
  \/ \E message \in Points \cup {"other"} : Arrive(message)
  \/ LinkDrops
  \/ \E p \in Points : OtherWrite(p)
  \/ Cancel

Handle ==
  \/ Start
  \/ ConnectSucceeds
  \/ Announce
  \/ Describe
  \/ Subscribe
  \/ SetUpFails
  \/ NoticeDisconnection
  \/ FinishClosing
  \/ Reconnect
  \/ Ignore
  \/ Apply
  \/ SendSet
  \/ SetPublished

Poll ==
  \/ PollWakes
  \/ \E p \in Points : PollBuilds(p)
  \/ PollFails
  \/ PollSends
  \/ PollPublished
  \/ PollSleeps

Next == Environment \/ Handle \/ Poll

Spec == Init /\ [][Next]_vars

\* The event loop runs each task that is ready; a publish ends by itself or by
\* aiomqtt's timeout.
FairSpec == Spec /\ WF_vars(Handle) /\ WF_vars(Poll)

-----------------------------------------------------------------------------
(* Properties *)

TypeOK ==
  /\ pc \in {"new", "connecting", "backoff", "stopped"} \cup SettingUp \cup Serving \cup Closing
  /\ poll \in {"none", "sleeping", "round", "sending", "publishing", "failed"}
  /\ todo \subseteq Points
  /\ draft \in [Publishers -> SUBSET Payloads]
  /\ link \in BOOLEAN
  /\ session \in 0 .. MaxSessions
  /\ queue \in Seq(Points \cup {"other"})
  /\ received \in 0 .. MaxSets
  /\ changes \in [Points -> 0 .. MaxChanges]
  /\ shown \in [Points -> 0 .. MaxChanges]
  /\ bridgeState \in {"none", "online", "offline"}
  /\ cancelled \in BOOLEAN

\* Two tasks publish to the topic of a point, and threads write the point between
\* the reading of it and the sending: still no subscriber sees an older state after
\* a newer one (mqtt_bridge.py:280-287, 308-315: no await between read and send).
StatesNeverGoBack == [][\A p \in Points : shown'[p] >= shown[p]]_vars

PollAlive == link /\ pc \in Serving /\ poll # "failed"
RoundsGoOn == []<>(poll = "sleeping") /\ []<>(poll = "round")

\* While the session lasts and the poll task lives, its rounds follow one another, and a
\* point that has stopped changing is shown as it is, whichever publishes of it failed
\* (mqtt_bridge.py:304-317).
CurrentStateShown ==
  <>[]PollAlive => RoundsGoOn /\ \A p \in Points : <>[](shown[p] = changes[p])

\* A received /set message is not dropped because the publish of another failed: a
\* session is left with messages in its queue only to stop (mqtt_bridge.py:273-289).
NoSetDropped ==
  [][(pc \in Serving /\ queue # <<>> /\ ~cancelled') => pc' \in Serving]_vars

\* docs/mqtt.md:22 says of {prefix}/bridge/state "online/offline (retained)", and
\* mqtt_bridge.py:246 that "we publish offline on disconnect".
OfflineWhenStopped == pc = "stopped" => bridgeState # "online"

\* The bridge is the task that main cancels and awaits: where it is suspended, what
\* its poll task does, and whether it has swallowed the cancellation.
Stage ==
  IF pc \in SettingUp THEN "setup"
  ELSE IF pc \in Serving THEN "up"
  ELSE IF pc = "stopped" THEN "done"
  ELSE pc

PollStage == IF poll \in {"none", "failed"} THEN poll ELSE "running"

Swallowed == cancelled /\ pc \notin {"closing on cancel", "stopped"}

Task == INSTANCE BrokerTask
  WITH SubTask <- {"running"}, SubMayFail <- TRUE, Reads <- FALSE,
       st <- Stage, sub <- PollStage, swallowed <- Swallowed

TaskSpec == Task!Spec

=============================================================================

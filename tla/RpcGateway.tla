----------------------------- MODULE RpcGateway -----------------------------
(***************************************************************************)
(* run_mqtt_rpc_gateway (mqtt_rpc_gateway.py): one asyncio task that       *)
(* connects to the broker, publishes its manifest, subscribes to the       *)
(* command topic, and then serves the commands of aiomqtt's queue one at a *)
(* time: parse, dispatch, publish the ack with QoS 1.  Any error ends the  *)
(* session; the task sleeps and connects again with a new client, whose    *)
(* queue is empty.                                                         *)
(*                                                                         *)
(* Commands are numbered as aiomqtt receives them, so that the client's    *)
(* queue is the interval taken+1 .. received.  The broker, the link, the   *)
(* BACnet device asked and aiomqtt itself are modelled by what the gateway *)
(* sees of them.  The periodic status publication is left out: nothing     *)
(* depends on it.                                                          *)
(***************************************************************************)
EXTENDS Integers, Sequences

CONSTANTS
  MaxMessages,    \* bound: commands received
  MaxSessions     \* bound: successful connections

ASSUME GatewayAssumption == MaxMessages \in Nat /\ MaxSessions \in Nat

Serials == 1 .. MaxMessages

(* What the gateway tells apart in a command:                              *)
(*   malformed  parse_mqtt_command_payload reports an error                *)
(*   refused    unknown method or parameters that do not validate          *)
(*   local      a server_* method, run to its end on the event loop        *)
(*   read       client_read_property: awaits the network in bacnet_read    *)
(*   scan       a client_* method that returns whatever answered, nothing  *)
(*              included: who-is, router and multiple read, supervisory    *)
(*              check, and discovery, which returns no objects when the    *)
(*              object list cannot be read (client_utils.py:501-515, 534)  *)
(*   remote     another client_* method: write, priority array             *)
Contents == {"malformed", "refused", "local", "read", "scan", "remote"}

VARIABLES
  pc,          \* where the task is suspended
  link,        \* the TCP connection of the client is up
  subscribed,  \* the broker forwards commands to it
  manifest,    \* the retained capability manifest is at the broker
  session,     \* connections made so far
  received,    \* commands received so far
  taken,       \* commands taken from the queue, or dropped with it
  content,     \* content[s]: what command s is
  arrivedIn,   \* arrivedIn[s]: session in which s was received
  effects,     \* commands that were carried out
  reply,       \* status of the ack being published
  acks,        \* acks the broker has got, in order
  cancelled    \* main has called cancel() on the task

vars == <<pc, link, subscribed, manifest, session, received, taken, content, arrivedIn,
          effects, reply, acks, cancelled>>

arrivals == <<received, content, arrivedIn>>

Init ==
  /\ pc = "connecting"
  /\ link = FALSE /\ subscribed = FALSE /\ manifest = FALSE
  /\ session = 0
  /\ received = 0 /\ taken = 0
  /\ content = [s \in Serials |-> "none"]
  /\ arrivedIn = [s \in Serials |-> 0]
  /\ effects = {}
  /\ reply = "error"
  /\ acks = <<>>
  /\ cancelled = FALSE

Handling == {"dispatching", "acking", "puback"}     \* a command is being served
Down == {"backoff", "connecting", "stopped"}        \* there is no client

-----------------------------------------------------------------------------
(* Broker and network *)

Arrive(kind) ==
  /\ link /\ subscribed
  /\ received < MaxMessages
  /\ received' = received + 1
  /\ content' = [content EXCEPT ![received'] = kind]
  /\ arrivedIn' = [arrivedIn EXCEPT ![received'] = session]
  /\ UNCHANGED <<pc, link, subscribed, manifest, session, taken, effects, reply, acks, cancelled>>

Unlink == link' = FALSE /\ subscribed' = FALSE

LinkDrops ==
  /\ link
  /\ Unlink
  /\ UNCHANGED <<pc, manifest, session, arrivals, taken, effects, reply, acks, cancelled>>

\* The device serves the request the gateway waits for.
DeviceServes ==
  /\ pc = "dispatching"
  /\ taken \notin effects
  /\ effects' = effects \cup {taken}
  /\ UNCHANGED <<pc, link, subscribed, manifest, session, arrivals, taken, reply, acks, cancelled>>

-----------------------------------------------------------------------------
(* The session *)

\* The exception leaves `async with`, whose exit disconnects; asyncio.sleep follows.
EndSession ==
  /\ pc' = "backoff"
  /\ Unlink

\* Mutant of DropQueue: one client, and one queue, for all sessions.
KeepQueue == UNCHANGED taken

\* A new client has a new queue.
DropQueue == taken' = received

ConnectSucceeds ==
  /\ pc = "connecting"
  /\ session < MaxSessions
  /\ session' = session + 1
  /\ link' = TRUE
  /\ DropQueue
  /\ pc' = "manifest"
  /\ UNCHANGED <<subscribed, manifest, arrivals, effects, reply, acks, cancelled>>

ConnectFails ==
  /\ pc = "connecting"
  /\ EndSession
  /\ UNCHANGED <<manifest, session, arrivals, taken, effects, reply, acks, cancelled>>

PublishManifest ==
  /\ pc = "manifest"
  /\ link
  /\ manifest' = TRUE
  /\ pc' = "subscribe"
  /\ UNCHANGED <<link, subscribed, session, arrivals, taken, effects, reply, acks, cancelled>>

Subscribe ==
  /\ pc = "subscribe"
  /\ link
  /\ subscribed' = TRUE
  /\ pc' = "waiting"
  /\ UNCHANGED <<link, manifest, session, arrivals, taken, effects, reply, acks, cancelled>>

\* A publish or subscribe of the set-up fails or is not acknowledged in time.
SetUpFails ==
  /\ pc \in {"manifest", "subscribe"}
  /\ EndSession
  /\ UNCHANGED <<manifest, session, arrivals, taken, effects, reply, acks, cancelled>>

\* The message iterator raises once the queue is empty.
NoticeDisconnection ==
  /\ pc = "waiting"
  /\ taken = received
  /\ ~link
  /\ EndSession
  /\ UNCHANGED <<manifest, session, arrivals, taken, effects, reply, acks, cancelled>>

Reconnect ==
  /\ pc = "backoff"
  /\ pc' = "connecting"
  /\ UNCHANGED <<link, subscribed, manifest, session, arrivals, taken, effects, reply, acks,
                 cancelled>>

-----------------------------------------------------------------------------
(* One command.  A queued command is served even if the link is down. *)

Take ==
  /\ pc = "waiting"
  /\ taken < received
  /\ taken' = taken + 1
  /\ UNCHANGED <<link, subscribed, manifest, session, arrivals, acks, cancelled>>

\* Mutant of AfterRejection: a malformed command is logged and passed over.
AfterRejectionSilent == pc' = IF content[taken'] = "malformed" THEN "waiting" ELSE "acking"

AfterRejection == pc' = "acking"

Reject ==
  /\ Take
  /\ content[taken'] \in {"malformed", "refused"}
  /\ reply' = "error"
  /\ AfterRejection
  /\ UNCHANGED effects

\* No await between taking the command and publishing its ack.
RunLocal ==
  /\ Take
  /\ content[taken'] = "local"
  /\ \/ reply' = "ok" /\ effects' = effects \cup {taken'}
     \/ reply' = "error" /\ UNCHANGED effects
  /\ pc' = "acking"

AskDevice ==
  /\ Take
  /\ content[taken'] \in {"read", "scan", "remote"}
  /\ pc' = "dispatching"
  /\ UNCHANGED <<effects, reply>>

\* Mutants of Replies: success is reported without awaiting the device; a timeout has
\* a status of its own.
RepliesEarly == {"ok", "error"}
RepliesTimeout == {"ok", "error", "timeout"}

\* A confirmed request returns only when served, a scan also when nothing answered or the
\* device refused; an error, a timeout or a failed conversion is possible either way.
Replies == IF taken \in effects \/ content[taken] = "scan" THEN {"ok", "error"} ELSE {"error"}

DispatchReturns ==
  /\ pc = "dispatching"
  /\ reply' \in Replies
  /\ pc' = "acking"
  /\ UNCHANGED <<link, subscribed, manifest, session, arrivals, taken, effects, acks, cancelled>>

Ack == [serial |-> taken, status |-> reply]

PublishAck ==
  /\ pc = "acking"
  /\ link
  /\ acks' = Append(acks, Ack)
  /\ pc' = "puback"
  /\ UNCHANGED <<link, subscribed, manifest, session, arrivals, taken, effects, reply, cancelled>>

\* The packet is lost with the connection.
AckLost ==
  /\ pc = "acking"
  /\ link
  /\ Unlink
  /\ pc' = "puback"
  /\ UNCHANGED <<manifest, session, arrivals, taken, effects, reply, acks, cancelled>>

\* Mutant of AfterFailedPublish: the failure is logged and the loop goes on.
ContinueSession == pc' = "waiting" /\ UNCHANGED <<link, subscribed>>

\* Mutant of AfterFailedPublish: the coroutine returns.
StopSession == pc' = "stopped" /\ Unlink

AfterFailedPublish == EndSession

PublishFails ==
  /\ pc = "acking"
  /\ ~link
  /\ AfterFailedPublish
  /\ UNCHANGED <<manifest, session, arrivals, taken, effects, reply, acks, cancelled>>

PubackArrives ==
  /\ pc = "puback"
  /\ link
  /\ pc' = "waiting"
  /\ UNCHANGED <<link, subscribed, manifest, session, arrivals, taken, effects, reply, acks,
                 cancelled>>

\* Mutant of AfterTimeout: the ack is published again.
PublishAgain == pc' = "acking" /\ UNCHANGED <<link, subscribed>>

AfterTimeout == EndSession

\* The PUBACK does not come in aiomqtt's timeout, the link being up or not.
PubackTimesOut ==
  /\ pc = "puback"
  /\ AfterTimeout
  /\ UNCHANGED <<manifest, session, arrivals, taken, effects, reply, acks, cancelled>>

-----------------------------------------------------------------------------
(* main cancels the task at its shutdown: CancelledError at the current await *)

\* bacnet_read catches BaseException: the cancellation becomes an error result.
CancelSwallowed ==
  /\ pc = "dispatching"
  /\ content[taken] = "read"
  /\ ~cancelled
  /\ cancelled' = TRUE
  /\ reply' = "error"
  /\ pc' = "acking"
  /\ UNCHANGED <<link, subscribed, manifest, session, arrivals, taken, effects, acks>>

CancelStops ==
  /\ pc # "stopped"
  /\ ~(pc = "dispatching" /\ content[taken] = "read")
  /\ ~cancelled
  /\ cancelled' = TRUE
  /\ pc' = "stopped"
  /\ Unlink
  /\ UNCHANGED <<manifest, session, arrivals, taken, effects, reply, acks>>

Environment ==
  \/ \E kind \in Contents : Arrive(kind)
  \/ LinkDrops
  \/ DeviceServes
  \/ CancelSwallowed
  \/ CancelStops

Serve ==
  \/ Reject
  \/ RunLocal
  \/ AskDevice
  \/ DispatchReturns
  \/ PublishAck
  \/ AckLost
  \/ PublishFails
  \/ PubackArrives
  \/ PubackTimesOut

Connect ==
  \/ ConnectSucceeds
  \/ ConnectFails
  \/ PublishManifest
  \/ Subscribe
  \/ SetUpFails
  \/ NoticeDisconnection
  \/ Reconnect

Next == Environment \/ Serve \/ Connect

Spec == Init /\ [][Next]_vars

\* The task runs whenever it can: the event loop is fair, a BACnet request ends by
\* an answer or by its APDU timeout, and a publish by its PUBACK or by aiomqtt's
\* timeout.  Nothing is assumed of the network.
FairSpec == Spec /\ WF_vars(Serve) /\ WF_vars(Connect)

-----------------------------------------------------------------------------
(* Properties *)

Acks == [serial : Serials, status : {"ok", "error"}]

TypeOK ==
  /\ pc \in Handling \cup Down \cup {"manifest", "subscribe", "waiting"}
  /\ link \in BOOLEAN /\ subscribed \in BOOLEAN /\ manifest \in BOOLEAN
  /\ session \in 0 .. MaxSessions
  /\ received \in 0 .. MaxMessages
  /\ taken \in 0 .. received
  /\ content \in [Serials -> Contents \cup {"none"}]
  /\ arrivedIn \in [Serials -> 0 .. MaxSessions]
  /\ effects \subseteq Serials
  /\ reply \in {"ok", "error"}
  /\ acks \in Seq(Acks)
  /\ cancelled \in BOOLEAN

Acked == {acks[i].serial : i \in DOMAIN acks}

\* Acks come in the order of the commands, one for each at the most, whatever
\* connections are lost between execution and acknowledgement
\* (mqtt_rpc_gateway.py:340-363).
AcksInOrder ==
  \A i, j \in DOMAIN acks : i < j => acks[i].serial < acks[j].serial

\* The "ok" of a read, a write, a priority array or a server method is the answer of a
\* command that was carried out, and a command refused by the parser or the validation has
\* no effect, cancelled requests included (mqtt_rpc_gateway.py:205-221, client_utils.py:
\* 253-256, 643-659, rpc_methods.py:389-392).  Scans are excepted, discovery among them:
\* their "ok" may report that nothing answered (client_utils.py:501-515, 534-540).
AcksTruthful ==
  /\ \A i \in DOMAIN acks :
       acks[i].status = "ok" => acks[i].serial \in effects \/ content[acks[i].serial] = "scan"
  /\ \A s \in effects : content[s] \notin {"none", "malformed", "refused"}

\* A command is served in the session it came in: what an earlier connection left
\* in its queue is not executed after a reconnection (mqtt_rpc_gateway.py:280-282).
ServedInItsSession == pc \in Handling => arrivedIn[taken] = session

\* A command that was taken and is no longer being served has its ack at the broker,
\* unless the session it came in is over: no path of the loop drops an ack and goes on
\* (mqtt_rpc_gateway.py:340-363).
UnackedOnlyIfSessionOver ==
  \A s \in 1 .. taken :
    \/ s \in Acked
    \/ s = taken /\ pc \in Handling
    \/ pc \in Down
    \/ arrivedIn[s] < session

\* Standing of a command as CommandLedger sees it.
StatusOf(s) ==
  IF s \in Acked
  THEN IF [serial |-> s, status |-> "ok"] \in {acks[i] : i \in DOMAIN acks} THEN "ok" ELSE "error"
  ELSE IF s > received THEN "absent"
  ELSE IF pc \in Down THEN "abandoned"
  ELSE IF s > taken THEN "queued"
  ELSE IF s = taken /\ pc \in Handling THEN "handling"
  ELSE "abandoned"

Ledger == INSTANCE CommandLedger WITH status <- [s \in Serials |-> StatusOf(s)]

\* The gateway implements the abstract ledger.
LedgerSpec == Ledger!Spec

\* A gateway with a command to serve is never at an await that need not end: the network
\* may do what it likes (mqtt_rpc_gateway.py:340-363).
ServeReady ==
  (pc = "waiting" /\ taken < received) \/ pc \in Handling => ENABLED <<Serve>>_vars

\* Every command received is answered, in spite of the commands before it in the
\* queue, or its session ends (mqtt_rpc_gateway.py:340-363).
EveryCommandAnswered ==
  /\ []ServeReady
  /\ \A s \in Serials :
       (s <= received /\ arrivedIn[s] = session) ~> (s \in Acked \/ pc \in Down)

\* client_utils.py:254 says the handler is for "unknown-property, reject, abort, etc.":
\* not for the cancellation by which main stops the task.
CancelStopsTask == cancelled ~> pc = "stopped"

\* The gateway as the task that main cancels and awaits.  Its telemetry loop, which is
\* left out here, is a sub-task; the task is seen from its first connection on.
Stage ==
  IF pc \in {"manifest", "subscribe"} THEN "setup"
  ELSE IF pc = "dispatching" /\ content[taken] = "read" THEN "reading"
  ELSE IF pc \in Handling \cup {"waiting"} THEN "up"
  ELSE IF pc = "stopped" THEN "done"
  ELSE pc

Swallowed == cancelled /\ pc # "stopped"

Task == INSTANCE BrokerTask
  WITH SubTask <- {"none", "running"}, SubMayFail <- FALSE, Reads <- TRUE,
       st <- Stage, sub <- "none", swallowed <- Swallowed

TaskSteps == [][Task!Next]_<<Stage, Swallowed>>

=============================================================================

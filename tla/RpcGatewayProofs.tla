-------------------------- MODULE RpcGatewayProofs --------------------------
(***************************************************************************)
(* For any number of commands and of sessions, and whatever the network    *)
(* and main do: acks are in order and truthful, a command is served in the *)
(* session it came in, and an ack is missing only if that session is over. *)
(***************************************************************************)
EXTENDS RpcGateway, TLAPS

-----------------------------------------------------------------------------
(* The inductive invariant *)

\* No client, no link.
DownUnlinked == pc \in Down => ~link /\ ~subscribed

\* The command being served is the last one taken, and of this session; those still
\* in the queue are of this session too.
QueueOfSession ==
  /\ pc \in Handling => taken >= 1 /\ arrivedIn[taken] = session
  /\ pc \notin Down => \A s \in taken + 1 .. received : arrivedIn[s] = session
  /\ \A s \in 1 .. received : arrivedIn[s] <= session

\* Acks are of commands taken; while one is served and unacknowledged, of earlier ones.
AcksOfTaken ==
  \A i \in DOMAIN acks :
    /\ acks[i].serial <= taken
    /\ pc \in {"dispatching", "acking"} => acks[i].serial < taken

\* A PUBACK can come only for an ack the broker has.
PubackAcked == pc = "puback" /\ link => taken \in Acked

\* What was carried out was taken, and could be.
EffectsTaken ==
  /\ \A s \in effects : s <= taken /\ content[s] \in {"local", "read", "scan", "remote"}
  /\ pc = "dispatching" => content[taken] \in {"read", "scan", "remote"}
  /\ pc = "acking" /\ reply = "ok" => taken \in effects \/ content[taken] = "scan"
  /\ \A i \in DOMAIN acks :
       acks[i].status = "ok" => acks[i].serial \in effects \/ content[acks[i].serial] = "scan"

IInv ==
  /\ TypeOK
  /\ DownUnlinked
  /\ QueueOfSession
  /\ AcksOfTaken
  /\ AcksInOrder
  /\ PubackAcked
  /\ EffectsTaken
  /\ UnackedOnlyIfSessionOver

LEMMA InitIInv == Init => IInv
<1> SUFFICES ASSUME Init PROVE IInv
  OBVIOUS
<1>1. TypeOK
  <2>1. content \in [Serials -> Contents \cup {"none"}] /\ acks \in Seq(Acks)
    BY DEF Init
  <2>2. arrivedIn \in [Serials -> 0 .. MaxSessions] /\ session \in 0 .. MaxSessions
    BY GatewayAssumption DEF Init
  <2>3. received \in 0 .. MaxMessages /\ taken \in 0 .. received
    BY GatewayAssumption DEF Init
  <2> QED
    BY <2>1, <2>2, <2>3 DEF Init, TypeOK, Down
<1>2. DOMAIN acks = {}
  BY DEF Init
<1> QED
  BY <1>1, <1>2 DEF Init, IInv, DownUnlinked, QueueOfSession, AcksOfTaken, AcksInOrder,
     PubackAcked, EffectsTaken, UnackedOnlyIfSessionOver, Down, Handling

\* Appending the ack of the command being served.
LEMMA AppendAck ==
  ASSUME TypeOK, taken \in Serials, acks' = Append(acks, Ack)
  PROVE  /\ acks' \in Seq(Acks)
         /\ DOMAIN acks' = 1 .. Len(acks) + 1
         /\ DOMAIN acks = 1 .. Len(acks)
         /\ \A i \in DOMAIN acks : acks'[i] = acks[i]
         /\ acks'[Len(acks) + 1] = [serial |-> taken, status |-> reply]
         /\ Acked' = Acked \cup {taken}
<1>1. acks \in Seq(Acks) /\ Ack \in Acks /\ Len(acks) \in Nat
  BY DEF TypeOK, Ack, Acks
<1>2. /\ acks' \in Seq(Acks)
      /\ DOMAIN acks' = 1 .. Len(acks) + 1
      /\ DOMAIN acks = 1 .. Len(acks)
      /\ \A i \in DOMAIN acks : acks'[i] = acks[i]
      /\ acks'[Len(acks) + 1] = [serial |-> taken, status |-> reply]
  BY <1>1 DEF Ack
<1>3. Acked' = {acks'[i].serial : i \in DOMAIN acks'}
  BY DEF Acked
<1>4. Acked' = Acked \cup {taken}
  BY <1>1, <1>2, <1>3 DEF Acked
<1> QED
  BY <1>2, <1>4

-----------------------------------------------------------------------------
(* Steps *)

LEMMA ArriveIInv == ASSUME IInv, NEW kind \in Contents, Arrive(kind) PROVE IInv'
<1>1. /\ link /\ subscribed /\ received < MaxMessages
      /\ received' = received + 1
      /\ content' = [content EXCEPT ![received'] = kind]
      /\ arrivedIn' = [arrivedIn EXCEPT ![received'] = session]
      /\ UNCHANGED <<pc, link, subscribed, manifest, session, taken, effects, reply, acks,
                     cancelled>>
  BY DEF Arrive
<1>2. TypeOK /\ received' \in Serials /\ received' \notin 1 .. received
  BY <1>1, GatewayAssumption DEF IInv, TypeOK, Serials
<1>3. /\ \A s \in Serials \ {received'} : content'[s] = content[s] /\ arrivedIn'[s] = arrivedIn[s]
      /\ content'[received'] = kind /\ arrivedIn'[received'] = session
  BY <1>1, <1>2 DEF TypeOK
<1>4. 1 .. received \subseteq Serials \ {received'} /\ 1 .. taken \subseteq Serials \ {received'}
  BY <1>1, <1>2, GatewayAssumption DEF TypeOK, Serials
<1>5. TypeOK'
  BY <1>1, <1>2, GatewayAssumption DEF TypeOK
<1>6. DownUnlinked' /\ AcksOfTaken' /\ AcksInOrder' /\ PubackAcked'
  BY <1>1 DEF IInv, DownUnlinked, AcksOfTaken, AcksInOrder, PubackAcked, Acked
<1>7. QueueOfSession'
  <2>1. pc \in Handling => taken >= 1 /\ arrivedIn'[taken] = session
    BY <1>3, <1>4, <1>2 DEF IInv, QueueOfSession, TypeOK
  <2>2. \A s \in 1 .. received' : arrivedIn'[s] <= session
    <3>1. \A s \in 1 .. received' : s \in 1 .. received \/ s = received'
      BY <1>1, <1>2 DEF TypeOK
    <3> QED
      BY <1>2, <1>3, <1>4, <3>1 DEF IInv, QueueOfSession, TypeOK
  <2>3. pc \notin Down => \A s \in taken + 1 .. received' : arrivedIn'[s] = session
    <3>1. \A s \in taken + 1 .. received' : s \in taken + 1 .. received \/ s = received'
      BY <1>1, <1>2 DEF TypeOK
    <3>2. taken + 1 .. received \subseteq 1 .. received
      BY <1>2 DEF TypeOK
    <3> QED
      BY <1>3, <1>4, <3>1, <3>2 DEF IInv, QueueOfSession
  <2> QED
    BY <1>1, <2>1, <2>2, <2>3 DEF QueueOfSession
<1>8. EffectsTaken'
  <2>1. \A s \in effects : s \in 1 .. taken
    BY <1>2 DEF IInv, EffectsTaken, TypeOK, Serials
  <2>2. pc \in {"dispatching", "acking"} => taken \in 1 .. taken
    BY <1>2 DEF IInv, QueueOfSession, TypeOK, Handling
  <2>3. \A i \in DOMAIN acks : acks[i].serial \in 1 .. taken
    <3>1. \A i \in DOMAIN acks : acks[i] \in Acks
      BY <1>2 DEF TypeOK
    <3> QED
      BY <1>2, <3>1 DEF IInv, AcksOfTaken, TypeOK, Acks, Serials
  <2>4. \A s \in 1 .. taken : content'[s] = content[s]
    BY <1>3, <1>4
  <2> QED
    BY <1>1, <2>1, <2>2, <2>3, <2>4 DEF IInv, EffectsTaken
<1>9. UnackedOnlyIfSessionOver'
  BY <1>1, <1>3, <1>4 DEF IInv, UnackedOnlyIfSessionOver, Acked
<1> QED
  BY <1>5, <1>6, <1>7, <1>8, <1>9 DEF IInv

\* Steps that end the session, stop the task or wait to reconnect: the commands stay
\* as they are.
LEMMA DownIInv ==
  ASSUME IInv, pc' \in Down, Unlink, cancelled' \in BOOLEAN,
         UNCHANGED <<manifest, session, arrivals, taken, effects, reply, acks>>
  PROVE  IInv'
<1>1. TypeOK'
  BY DEF IInv, TypeOK, Unlink, arrivals
<1>2. pc' \notin Handling /\ pc' \notin {"dispatching", "acking", "puback"}
  BY DEF Down, Handling
<1>3. DownUnlinked' /\ QueueOfSession' /\ PubackAcked'
  BY <1>2 DEF IInv, DownUnlinked, QueueOfSession, PubackAcked, Unlink, arrivals
<1>4. AcksOfTaken' /\ AcksInOrder'
  BY <1>2 DEF IInv, AcksOfTaken, AcksInOrder
<1>5. EffectsTaken'
  BY <1>2 DEF IInv, EffectsTaken, arrivals
<1>6. UnackedOnlyIfSessionOver'
  BY DEF UnackedOnlyIfSessionOver
<1> QED
  BY <1>1, <1>3, <1>4, <1>5, <1>6 DEF IInv

LEMMA EnvironmentIInv == IInv /\ Environment => IInv'
<1> SUFFICES ASSUME IInv, Environment PROVE IInv'
  OBVIOUS
<1>1. CASE LinkDrops
  <2>1. /\ link' = FALSE /\ subscribed' = FALSE
        /\ UNCHANGED <<pc, manifest, session, arrivals, taken, effects, reply, acks, cancelled>>
    BY <1>1 DEF LinkDrops, Unlink
  <2>2. TypeOK'
    BY <2>1 DEF IInv, TypeOK, arrivals
  <2> QED
    BY <2>1, <2>2 DEF IInv, DownUnlinked, QueueOfSession, AcksOfTaken, AcksInOrder, PubackAcked,
       EffectsTaken, UnackedOnlyIfSessionOver, Acked, arrivals
<1>2. CASE DeviceServes
  <2>1. /\ pc = "dispatching" /\ effects' = effects \cup {taken}
        /\ UNCHANGED <<pc, link, subscribed, manifest, session, arrivals, taken, reply, acks,
                       cancelled>>
    BY <1>2 DEF DeviceServes
  <2>2. taken \in Serials /\ content[taken] \in {"read", "scan", "remote"}
    BY <2>1, GatewayAssumption DEF IInv, TypeOK, QueueOfSession, EffectsTaken, Handling, Serials
  <2>3. TypeOK'
    BY <2>1, <2>2 DEF IInv, TypeOK, arrivals
  <2>4. EffectsTaken'
    BY <2>1, <2>2 DEF IInv, TypeOK, EffectsTaken, arrivals, Serials
  <2> QED
    BY <2>1, <2>3, <2>4 DEF IInv, DownUnlinked, QueueOfSession, AcksOfTaken, AcksInOrder,
       PubackAcked, UnackedOnlyIfSessionOver, Acked, arrivals
<1>3. CASE CancelSwallowed
  <2>1. /\ pc = "dispatching" /\ pc' = "acking" /\ reply' = "error" /\ cancelled' = TRUE
        /\ UNCHANGED <<link, subscribed, manifest, session, arrivals, taken, effects, acks>>
    BY <1>3 DEF CancelSwallowed
  <2>2. TypeOK'
    BY <2>1 DEF IInv, TypeOK, arrivals, Handling
  <2> QED
    BY <2>1, <2>2 DEF IInv, DownUnlinked, QueueOfSession, AcksOfTaken, AcksInOrder, PubackAcked,
       EffectsTaken, UnackedOnlyIfSessionOver, Acked, arrivals, Handling, Down
<1>4. CASE CancelStops
  BY <1>4, DownIInv DEF CancelStops, Down
<1> QED
  BY <1>1, <1>2, <1>3, <1>4, ArriveIInv DEF Environment

\* Set-up steps of a session that is up: no command is in the queue's way.
LEMMA ConnectIInv == IInv /\ Connect => IInv'
<1> SUFFICES ASSUME IInv, Connect PROVE IInv'
  OBVIOUS
<1>1. CASE ConnectSucceeds
  <2>1. /\ pc = "connecting" /\ session < MaxSessions /\ session' = session + 1
        /\ link' = TRUE /\ taken' = received /\ pc' = "manifest"
        /\ UNCHANGED <<subscribed, manifest, arrivals, effects, reply, acks, cancelled>>
    BY <1>1 DEF ConnectSucceeds, DropQueue
  <2>2. TypeOK'
    BY <2>1, GatewayAssumption DEF IInv, TypeOK, arrivals
  <2>3. QueueOfSession'
    <3>1. \A s \in 1 .. received : arrivedIn[s] \in Nat /\ arrivedIn[s] <= session
      BY GatewayAssumption DEF IInv, TypeOK, QueueOfSession, Serials
    <3>2. received' + 1 .. received' = {} /\ session \in Nat
      BY <2>1, GatewayAssumption DEF IInv, TypeOK, arrivals
    <3> QED
      BY <2>1, <3>1, <3>2 DEF QueueOfSession, arrivals, Handling
  <2>4. AcksOfTaken' /\ AcksInOrder'
    <3>1. ASSUME NEW i \in DOMAIN acks PROVE acks[i].serial <= received
      <4>1. acks[i] \in Acks /\ acks[i].serial <= taken
        BY DEF IInv, TypeOK, AcksOfTaken
      <4> QED
        BY <4>1 DEF IInv, TypeOK, Acks, Serials
    <3> QED
      BY <2>1, <3>1 DEF IInv, AcksOfTaken, AcksInOrder
  <2>5. EffectsTaken'
    BY <2>1 DEF IInv, TypeOK, EffectsTaken, arrivals, Serials
  <2>6. UnackedOnlyIfSessionOver'
    <3>1. \A s \in 1 .. received : arrivedIn[s] < session'
      BY <2>1, GatewayAssumption DEF IInv, TypeOK, QueueOfSession, Serials
    <3> QED
      BY <2>1, <3>1 DEF UnackedOnlyIfSessionOver, arrivals
  <2>7. DownUnlinked' /\ PubackAcked'
    BY <2>1 DEF DownUnlinked, PubackAcked, Down
  <2> QED
    BY <2>2, <2>3, <2>4, <2>5, <2>6, <2>7 DEF IInv
<1>2. CASE PublishManifest \/ Subscribe
  <2>1. /\ pc \in {"manifest", "subscribe"} /\ pc' \in {"subscribe", "waiting"} /\ link
        /\ manifest' \in BOOLEAN /\ subscribed' \in BOOLEAN
        /\ UNCHANGED <<link, session, arrivals, taken, effects, reply, acks, cancelled>>
    BY <1>2 DEF PublishManifest, Subscribe, IInv, TypeOK
  <2>2. TypeOK'
    BY <2>1 DEF IInv, TypeOK, arrivals
  <2> QED
    BY <2>1, <2>2 DEF IInv, DownUnlinked, QueueOfSession, AcksOfTaken, AcksInOrder, PubackAcked,
       EffectsTaken, UnackedOnlyIfSessionOver, Acked, arrivals, Handling, Down
<1>3. CASE ConnectFails \/ SetUpFails \/ NoticeDisconnection
  BY <1>3, DownIInv DEF ConnectFails, SetUpFails, NoticeDisconnection, EndSession, Down, IInv,
     TypeOK
<1>4. CASE Reconnect
  <2>1. Unlink
    BY <1>4 DEF Reconnect, Unlink, IInv, TypeOK, DownUnlinked, Down
  <2> QED
    BY <1>4, <2>1, DownIInv DEF Reconnect, Down, IInv, TypeOK
<1> QED
  BY <1>1, <1>2, <1>3, <1>4 DEF Connect

\* Taking a command: what every way of serving it has in common.
LEMMA TakeIInv ==
  ASSUME IInv, Take, pc' \in {"dispatching", "acking"}, reply' \in {"ok", "error"},
         \/ effects' = effects
         \/ effects' = effects \cup {taken'} /\ content[taken'] = "local",
         pc' = "dispatching" => content[taken'] \in {"read", "scan", "remote"},
         pc' = "acking" /\ reply' = "ok" => taken' \in effects'
  PROVE  IInv'
<1>1. /\ pc = "waiting" /\ taken < received /\ taken' = taken + 1
      /\ UNCHANGED <<link, subscribed, manifest, session, arrivals, acks, cancelled>>
  BY DEF Take
<1>2. taken' \in Serials /\ taken' \in taken + 1 .. received /\ taken' \in 1 .. received
  BY <1>1, GatewayAssumption DEF IInv, TypeOK, Serials
<1>3. TypeOK'
  <2>1. effects' \subseteq Serials
    BY <1>2 DEF IInv, TypeOK
  <2>2. received \in Nat /\ taken \in Nat /\ received' = received
    BY <1>1, GatewayAssumption DEF IInv, TypeOK, arrivals
  <2>3. taken' \in 0 .. received'
    BY <1>1, <2>2
  <2> QED
    BY <1>1, <2>1, <2>3 DEF IInv, TypeOK, arrivals, Handling
<1>4. QueueOfSession'
  BY <1>1, <1>2 DEF IInv, TypeOK, QueueOfSession, arrivals, Handling, Down
<1>5. AcksOfTaken' /\ AcksInOrder'
  <2>1. ASSUME NEW i \in DOMAIN acks PROVE acks[i].serial < taken'
    <3>1. acks[i] \in Acks /\ acks[i].serial <= taken
      BY DEF IInv, TypeOK, AcksOfTaken
    <3> QED
      BY <1>1, <3>1 DEF IInv, TypeOK, Acks, Serials
  <2>2. taken' \in Nat /\ \A i \in DOMAIN acks : acks[i].serial \in Nat
    <3>1. \A i \in DOMAIN acks : acks[i] \in Acks
      BY DEF IInv, TypeOK
    <3> QED
      BY <1>2, <3>1 DEF Acks, Serials
  <2> QED
    BY <1>1, <2>1, <2>2 DEF IInv, AcksOfTaken, AcksInOrder
<1>6. EffectsTaken'
  <2>1. taken' \in Nat /\ \A s \in effects : s \in Nat /\ s <= taken'
    BY <1>1, <1>2 DEF IInv, TypeOK, EffectsTaken, Serials
  <2>2. \A s \in effects' : s <= taken' /\ content[s] \in {"local", "read", "scan", "remote"}
    BY <1>1, <2>1 DEF IInv, EffectsTaken, arrivals
  <2>3. \A i \in DOMAIN acks :
          acks[i].status = "ok" => acks[i].serial \in effects' \/ content[acks[i].serial] = "scan"
    BY DEF IInv, EffectsTaken
  <2> QED
    BY <1>1, <2>2, <2>3 DEF EffectsTaken, arrivals
<1>7. UnackedOnlyIfSessionOver'
  <2>1. \A s \in 1 .. taken' : s \in 1 .. taken \/ s = taken'
    BY <1>1 DEF IInv, TypeOK
  <2>2. \A s \in 1 .. taken : s \in Acked \/ arrivedIn[s] < session
    BY <1>1 DEF IInv, UnackedOnlyIfSessionOver, Handling, Down
  <2> QED
    BY <1>1, <2>1, <2>2 DEF UnackedOnlyIfSessionOver, Acked, arrivals, Handling
<1>8. DownUnlinked' /\ PubackAcked'
  BY DEF DownUnlinked, PubackAcked, Down
<1> QED
  BY <1>3, <1>4, <1>5, <1>6, <1>7, <1>8 DEF IInv

LEMMA ServeIInv == IInv /\ Serve => IInv'
<1> SUFFICES ASSUME IInv, Serve PROVE IInv'
  OBVIOUS
<1>1. CASE Reject
  BY <1>1, TakeIInv DEF Reject, AfterRejection
<1>2. CASE RunLocal
  <2>1. \/ reply' = "ok" /\ effects' = effects \cup {taken'}
        \/ reply' = "error" /\ effects' = effects
    BY <1>2 DEF RunLocal
  <2> QED
    BY <1>2, <2>1, TakeIInv DEF RunLocal
<1>3. CASE AskDevice
  BY <1>3, TakeIInv DEF AskDevice, IInv, TypeOK
<1>4. CASE DispatchReturns
  <2>1. /\ pc = "dispatching" /\ pc' = "acking" /\ reply' \in {"ok", "error"}
        /\ reply' = "ok" => taken \in effects \/ content[taken] = "scan"
        /\ UNCHANGED <<link, subscribed, manifest, session, arrivals, taken, effects, acks,
                       cancelled>>
    BY <1>4 DEF DispatchReturns, Replies
  <2>2. TypeOK'
    BY <2>1 DEF IInv, TypeOK, arrivals, Handling
  <2> QED
    BY <2>1, <2>2 DEF IInv, DownUnlinked, QueueOfSession, AcksOfTaken, AcksInOrder, PubackAcked,
       EffectsTaken, UnackedOnlyIfSessionOver, Acked, arrivals, Handling, Down
<1>5. CASE PublishAck
  <2>1. /\ pc = "acking" /\ link /\ pc' = "puback" /\ acks' = Append(acks, Ack)
        /\ UNCHANGED <<link, subscribed, manifest, session, arrivals, taken, effects, reply,
                       cancelled>>
    BY <1>5 DEF PublishAck
  <2>2. taken \in Serials
    BY <2>1, GatewayAssumption DEF IInv, TypeOK, QueueOfSession, Serials, Handling
  <2>3. /\ acks' \in Seq(Acks)
        /\ DOMAIN acks' = 1 .. Len(acks) + 1 /\ DOMAIN acks = 1 .. Len(acks)
        /\ \A i \in DOMAIN acks : acks'[i] = acks[i]
        /\ acks'[Len(acks) + 1] = [serial |-> taken, status |-> reply]
        /\ Acked' = Acked \cup {taken}
    BY <2>1, <2>2, AppendAck DEF IInv
  <2>4. Len(acks) \in Nat
    BY DEF IInv, TypeOK
  <2>5. \A i \in DOMAIN acks' : i \in DOMAIN acks \/ i = Len(acks) + 1
    BY <2>3, <2>4
  <2>6. TypeOK'
    BY <2>1, <2>3 DEF IInv, TypeOK, arrivals, Handling
  <2>7. \A i \in DOMAIN acks : acks[i].serial < taken
    BY <2>1 DEF IInv, AcksOfTaken
  <2>8. AcksOfTaken'
    BY <2>1, <2>2, <2>3, <2>5, <2>7 DEF IInv, AcksOfTaken, Serials
  <2>9. AcksInOrder'
    <3> SUFFICES ASSUME NEW i \in DOMAIN acks', NEW j \in DOMAIN acks', i < j
                 PROVE  acks'[i].serial < acks'[j].serial
      BY DEF AcksInOrder
    <3>1. i \in DOMAIN acks
      BY <2>3, <2>4
    <3>2. CASE j \in DOMAIN acks
      BY <2>3, <3>1, <3>2 DEF IInv, AcksInOrder
    <3>3. CASE j = Len(acks) + 1
      BY <2>3, <2>7, <3>1, <3>3
    <3> QED
      BY <2>5, <3>2, <3>3
  <2>10. EffectsTaken'
    BY <2>1, <2>3, <2>5 DEF IInv, EffectsTaken, arrivals
  <2>11. UnackedOnlyIfSessionOver'
    BY <2>1, <2>3 DEF IInv, UnackedOnlyIfSessionOver, arrivals, Handling, Down
  <2>12. DownUnlinked' /\ QueueOfSession' /\ PubackAcked'
    BY <2>1, <2>3 DEF IInv, DownUnlinked, QueueOfSession, PubackAcked, arrivals, Handling, Down
  <2> QED
    BY <2>6, <2>8, <2>9, <2>10, <2>11, <2>12 DEF IInv
<1>6. CASE AckLost
  <2>1. /\ pc = "acking" /\ pc' = "puback" /\ link' = FALSE /\ subscribed' = FALSE
        /\ UNCHANGED <<manifest, session, arrivals, taken, effects, reply, acks, cancelled>>
    BY <1>6 DEF AckLost, Unlink
  <2>2. TypeOK'
    BY <2>1 DEF IInv, TypeOK, arrivals, Handling
  <2> QED
    BY <2>1, <2>2 DEF IInv, DownUnlinked, QueueOfSession, AcksOfTaken, AcksInOrder, PubackAcked,
       EffectsTaken, UnackedOnlyIfSessionOver, Acked, arrivals, Handling, Down
<1>7. CASE PublishFails \/ PubackTimesOut
  BY <1>7, DownIInv DEF PublishFails, PubackTimesOut, AfterFailedPublish, AfterTimeout,
     EndSession, Down, IInv, TypeOK
<1>8. CASE PubackArrives
  <2>1. /\ pc = "puback" /\ link /\ pc' = "waiting"
        /\ UNCHANGED <<link, subscribed, manifest, session, arrivals, taken, effects, reply,
                       acks, cancelled>>
    BY <1>8 DEF PubackArrives
  <2>2. taken \in Acked
    BY <2>1 DEF IInv, PubackAcked
  <2>3. TypeOK'
    BY <2>1 DEF IInv, TypeOK, arrivals
  <2> QED
    BY <2>1, <2>2, <2>3 DEF IInv, DownUnlinked, QueueOfSession, AcksOfTaken, AcksInOrder,
       PubackAcked, EffectsTaken, UnackedOnlyIfSessionOver, Acked, arrivals, Handling, Down
<1> QED
  BY <1>1, <1>2, <1>3, <1>4, <1>5, <1>6, <1>7, <1>8 DEF Serve

LEMMA NextIInv == IInv /\ [Next]_vars => IInv'
<1>1. IInv /\ UNCHANGED vars => IInv'
  BY DEF vars, arrivals, IInv, TypeOK, DownUnlinked, QueueOfSession, AcksOfTaken, AcksInOrder,
     PubackAcked, EffectsTaken, UnackedOnlyIfSessionOver, Acked
<1> QED
  BY <1>1, EnvironmentIInv, ServeIInv, ConnectIInv DEF Next

-----------------------------------------------------------------------------
(* What the invariant gives *)

\* The inductive invariant holds in every reachable state.
THEOREM GatewayInvariant == Spec => []IInv
<1> QED
  BY InitIInv, NextIInv, PTL DEF Spec

\* The gateway's variables have their types: an ack says "ok" or "error" and no more
\* (mqtt_rpc_gateway.py:224-242, 340-363).
THEOREM GatewayTypes == Spec => []TypeOK
<1>1. IInv => TypeOK
  BY DEF IInv
<1> QED
  BY <1>1, GatewayInvariant, PTL

\* Acks come in the order of the commands, at most one each
\* (mqtt_rpc_gateway.py:340-363).
THEOREM AcksAlwaysInOrder == Spec => []AcksInOrder
BY GatewayInvariant, PTL DEF IInv

\* "ok" acks of reads, writes, priority arrays and server methods are of commands carried
\* out, and refused commands have no effect (mqtt_rpc_gateway.py:205-221); an "ok" of a
\* scan, discovery included, promises nothing (client_utils.py:501-515, 534-540).
THEOREM AcksAlwaysTruthful == Spec => []AcksTruthful
<1>1. IInv => AcksTruthful
  BY DEF IInv, EffectsTaken, AcksTruthful
<1> QED
  BY <1>1, GatewayInvariant, PTL

\* No command is served in a later session than its own (mqtt_rpc_gateway.py:280-282).
THEOREM AlwaysServedInItsSession == Spec => []ServedInItsSession
<1>1. IInv => ServedInItsSession
  BY DEF IInv, QueueOfSession, ServedInItsSession
<1> QED
  BY <1>1, GatewayInvariant, PTL

\* An ack is missing only if the command's session is over
\* (mqtt_rpc_gateway.py:340-380).
THEOREM AcksLostOnlyWithSession == Spec => []UnackedOnlyIfSessionOver
BY GatewayInvariant, PTL DEF IInv

-----------------------------------------------------------------------------
(* Refinement *)

\* The ledger's variable, as the gateway determines it.
Standing == [s \in Serials |-> StatusOf(s)]

\* Steps that move nothing the ledger sees.
LEMMA StandingKept ==
  ASSUME UNCHANGED <<acks, received, taken>>,
         pc' \in Down <=> pc \in Down,
         pc' \in Handling <=> pc \in Handling
  PROVE  Standing' = Standing
<1>1. \A s \in Serials : StatusOf(s)' = StatusOf(s)
  BY DEF StatusOf, Acked
<1> QED
  BY <1>1 DEF Standing

\* Steps that end the session, or stop the task: what is open is abandoned.
LEMMA StandingAbandoned ==
  ASSUME UNCHANGED <<acks, received, taken>>, pc' \in Down
  PROVE  Ledger!Abandon
<1>1. ASSUME NEW s \in Serials
      PROVE  StatusOf(s)' = IF StatusOf(s) \in {"queued", "handling"} THEN "abandoned"
                            ELSE StatusOf(s)
  <2>1. CASE s \in Acked
    BY <2>1 DEF StatusOf, Acked
  <2>2. CASE s \notin Acked
    BY <2>2 DEF StatusOf, Acked
  <2> QED
    BY <2>1, <2>2
<1>2. Standing' = [s \in Serials |-> IF Standing[s] \in {"queued", "handling"} THEN "abandoned"
                                     ELSE Standing[s]]
  BY <1>1 DEF Standing
<1> QED
  BY <1>2 DEF Ledger!Abandon, Ledger!Serials, Ledger!Open, Serials, Standing

\* A received command joins the queue under its number.
LEMMA StandingReceived ==
  ASSUME IInv, NEW kind \in Contents, Arrive(kind)
  PROVE  Ledger!Next
<1>1. /\ link /\ received < MaxMessages /\ received' = received + 1
      /\ UNCHANGED <<pc, taken, acks>>
  BY DEF Arrive
<1>2. received \in Nat /\ taken \in Nat /\ taken <= received /\ received + 1 \in Serials
  BY <1>1, GatewayAssumption DEF IInv, TypeOK, Serials
<1>3. PICK n \in Serials : n = received + 1
  BY <1>2
<1>4. pc \notin Down
  BY <1>1 DEF IInv, DownUnlinked
<1>5. \A s \in Acked : s <= taken
  BY DEF IInv, AcksOfTaken, Acked
<1>6. n \notin Acked /\ n > received /\ n > taken /\ n = received'
  BY <1>1, <1>2, <1>3, <1>5
<1>7. StatusOf(n) = "absent" /\ StatusOf(n)' = "queued"
  BY <1>1, <1>2, <1>4, <1>6 DEF StatusOf, Acked
<1>8. ASSUME NEW s \in Serials, s # n PROVE StatusOf(s)' = StatusOf(s)
  <2>1. s > received' <=> s > received
    BY <1>1, <1>2, <1>3, <1>8 DEF Serials
  <2> QED
    BY <1>1, <2>1 DEF StatusOf, Acked
<1>9. ASSUME NEW t \in Serials, t < n PROVE StatusOf(t) # "absent"
  <2>1. ~(t > received)
    BY <1>2, <1>3, <1>9 DEF Serials
  <2> QED
    BY <2>1 DEF StatusOf
<1>10. Standing' = [Standing EXCEPT ![n] = "queued"]
  BY <1>7, <1>8 DEF Standing
<1> QED
  BY <1>7, <1>9, <1>10 DEF Ledger!Next, Ledger!Receive, Ledger!Serials, Serials, Standing

\* A command that is taken was the oldest in the queue.
LEMMA StandingTaken ==
  ASSUME IInv, Take, pc' \in {"dispatching", "acking"}
  PROVE  Ledger!Next
<1>1. /\ pc = "waiting" /\ taken < received /\ taken' = taken + 1
      /\ UNCHANGED <<received, acks>>
  BY DEF Take, arrivals
<1>2. received \in Nat /\ taken \in Nat /\ taken + 1 \in Serials
  BY <1>1, GatewayAssumption DEF IInv, TypeOK, Serials
<1>3. PICK n \in Serials : n = taken + 1
  BY <1>2
<1>4. \A s \in Acked : s <= taken
  BY DEF IInv, AcksOfTaken, Acked
<1>5. n \notin Acked /\ ~(n > received) /\ n > taken /\ n = taken'
  BY <1>1, <1>2, <1>3, <1>4
<1>6. StatusOf(n) = "queued" /\ StatusOf(n)' = "handling"
  BY <1>1, <1>2, <1>3, <1>5 DEF StatusOf, Acked, Down, Handling
<1>7. ASSUME NEW s \in Serials, s # n PROVE StatusOf(s)' = StatusOf(s)
  <2>1. (s > taken' <=> s > taken) \/ s > received
    BY <1>1, <1>2, <1>3, <1>7 DEF Serials
  <2>2. s # taken'
    BY <1>5, <1>7
  <2> QED
    BY <1>1, <1>2, <1>7, <2>1, <2>2 DEF StatusOf, Acked, Down, Handling, Serials
<1>8. ASSUME NEW t \in Serials, t < n PROVE StatusOf(t) \in {"ok", "error", "abandoned"}
  <2>1. ~(t > received) /\ ~(t > taken)
    BY <1>1, <1>2, <1>3, <1>8 DEF Serials
  <2> QED
    BY <1>1, <2>1 DEF StatusOf, Handling
<1>9. Standing' = [Standing EXCEPT ![n] = "handling"]
  BY <1>6, <1>7 DEF Standing
<1> QED
  BY <1>6, <1>8, <1>9 DEF Ledger!Next, Ledger!Start, Ledger!Final, Ledger!Serials, Serials, Standing

\* An ack answers the command being served.
LEMMA StandingAnswered ==
  ASSUME IInv, PublishAck
  PROVE  Ledger!Next
<1>1. /\ pc = "acking" /\ pc' = "puback" /\ acks' = Append(acks, Ack)
      /\ UNCHANGED <<received, taken, reply>>
  BY DEF PublishAck, arrivals
<1>2. taken \in Serials /\ received \in Nat /\ taken <= received
  BY <1>1, GatewayAssumption DEF IInv, TypeOK, QueueOfSession, Serials, Handling
<1>3. PICK n \in Serials : n = taken
  BY <1>2
<1>4. PICK r \in {"ok", "error"} : r = reply
  BY DEF IInv, TypeOK
<1> DEFINE set == {acks[i] : i \in DOMAIN acks}
<1>5. /\ DOMAIN acks' = 1 .. Len(acks) + 1 /\ DOMAIN acks = 1 .. Len(acks)
      /\ \A i \in DOMAIN acks : acks'[i] = acks[i]
      /\ acks'[Len(acks) + 1] = [serial |-> n, status |-> r]
      /\ Acked' = Acked \cup {n}
  BY <1>1, <1>2, <1>3, <1>4, AppendAck DEF IInv
<1>6. {acks'[i] : i \in DOMAIN acks'} = set \cup {[serial |-> n, status |-> r]}
  <2>1. Len(acks) \in Nat
    BY DEF IInv, TypeOK
  <2>2. \A i \in DOMAIN acks' : i \in DOMAIN acks \/ i = Len(acks) + 1
    BY <1>5, <2>1
  <2>3. DOMAIN acks \subseteq DOMAIN acks' /\ Len(acks) + 1 \in DOMAIN acks'
    BY <1>5, <2>1
  <2> QED
    BY <1>5, <2>2, <2>3
<1>7. n \notin Acked
  <2>1. \A i \in DOMAIN acks : acks[i].serial < n
    BY <1>1, <1>3 DEF IInv, AcksOfTaken
  <2> QED
    BY <2>1 DEF Acked, Serials
<1>8. [serial |-> n, status |-> "ok"] \notin set
  BY <1>7 DEF Acked
<1>9. StatusOf(n) = "handling"
  BY <1>1, <1>2, <1>3, <1>7 DEF StatusOf, Down, Handling, Serials
<1>10. ASSUME NEW s \in Serials
       PROVE  StatusOf(s)' = IF s = n THEN r ELSE StatusOf(s)
  <2>1. ([serial |-> s, status |-> "ok"] \in {acks'[i] : i \in DOMAIN acks'})
          <=> \/ [serial |-> s, status |-> "ok"] \in set
              \/ s = n /\ r = "ok"
    BY <1>6
  <2>2. CASE s = n
    BY <1>5, <1>8, <2>1, <2>2 DEF StatusOf
  <2>3. CASE s # n
    BY <1>1, <1>3, <1>5, <2>1, <2>3 DEF StatusOf, Down, Handling
  <2> QED
    BY <2>2, <2>3
<1>11. Standing' = [Standing EXCEPT ![n] = r]
  BY <1>10 DEF Standing
<1> QED
  BY <1>9, <1>11 DEF Ledger!Next, Ledger!Answer, Ledger!Serials, Serials, Standing

\* The steps at which a session starts or a PUBACK comes leave the ledger alone.
LEMMA StandingConnected ==
  ASSUME IInv, ConnectSucceeds \/ PubackArrives
  PROVE  Standing' = Standing
<1>1. CASE ConnectSucceeds
  <2>1. /\ pc = "connecting" /\ pc' = "manifest" /\ taken' = received
        /\ UNCHANGED <<received, acks>>
    BY <1>1 DEF ConnectSucceeds, DropQueue, arrivals
  <2>2. \A s \in Serials : StatusOf(s)' = StatusOf(s)
    BY <2>1 DEF StatusOf, Acked, Down, Handling
  <2> QED
    BY <2>2 DEF Standing
<1>2. CASE PubackArrives
  <2>1. /\ pc = "puback" /\ pc' = "waiting" /\ link
        /\ UNCHANGED <<received, taken, acks>>
    BY <1>2 DEF PubackArrives, arrivals
  <2>2. taken \in Acked
    BY <2>1 DEF IInv, PubackAcked
  <2>3. \A s \in Serials : StatusOf(s)' = StatusOf(s)
    BY <2>1, <2>2 DEF StatusOf, Acked, Down, Handling
  <2> QED
    BY <2>3 DEF Standing
<1> QED
  BY <1>1, <1>2

LEMMA StandingSteps ==
  IInv /\ [Next]_vars => [Ledger!Next]_Standing
<1> SUFFICES ASSUME IInv, [Next]_vars PROVE Ledger!Next \/ Standing' = Standing
  OBVIOUS
<1>1. CASE UNCHANGED vars
  BY <1>1, StandingKept DEF vars
<1>2. CASE Environment
  <2>1. CASE LinkDrops \/ DeviceServes
    BY <2>1, StandingKept DEF LinkDrops, DeviceServes, arrivals
  <2>2. CASE CancelSwallowed
    BY <2>2, StandingKept DEF CancelSwallowed, arrivals, Down, Handling
  <2>3. CASE CancelStops
    BY <2>3, StandingAbandoned DEF CancelStops, arrivals, Down, Ledger!Next
  <2> QED
    BY <1>2, <2>1, <2>2, <2>3, StandingReceived DEF Environment
<1>3. CASE Serve
  <2>1. CASE Reject \/ RunLocal \/ AskDevice
    BY <2>1, StandingTaken DEF Reject, AfterRejection, RunLocal, AskDevice
  <2>2. CASE DispatchReturns \/ AckLost
    BY <2>2, StandingKept DEF DispatchReturns, AckLost, arrivals, Down, Handling
  <2>3. CASE PublishFails \/ PubackTimesOut
    BY <2>3, StandingAbandoned DEF PublishFails, PubackTimesOut, AfterFailedPublish,
       AfterTimeout, EndSession, arrivals, Down, Ledger!Next
  <2> QED
    BY <1>3, <2>1, <2>2, <2>3, StandingAnswered, StandingConnected DEF Serve
<1>4. CASE Connect
  <2>1. CASE ConnectFails \/ SetUpFails \/ NoticeDisconnection \/ Reconnect
    BY <2>1, StandingAbandoned DEF ConnectFails, SetUpFails, NoticeDisconnection, Reconnect,
       EndSession, arrivals, Down, Ledger!Next
  <2>2. CASE PublishManifest \/ Subscribe
    BY <2>2, StandingKept DEF PublishManifest, Subscribe, arrivals, Down, Handling
  <2> QED
    BY <1>4, <2>1, <2>2, StandingConnected DEF Connect
<1> QED
  BY <1>1, <1>2, <1>3, <1>4 DEF Next

\* The gateway implements the ledger: one command at a time, in order, answered once
\* or abandoned with its session (mqtt_rpc_gateway.py:245-380).
THEOREM GatewayImplementsLedger == Spec => LedgerSpec
<1>1. Init => Ledger!Init
  <2> SUFFICES ASSUME Init PROVE Ledger!Init
    OBVIOUS
  <2>1. \A s \in Serials : StatusOf(s) = "absent"
    BY DEF Init, StatusOf, Acked, Serials
  <2> QED
    BY <2>1 DEF Ledger!Init, Ledger!Serials, Serials
<1> QED
  BY <1>1, StandingSteps, GatewayInvariant, PTL DEF Spec, LedgerSpec, Ledger!Spec, Standing

-----------------------------------------------------------------------------
(* The gateway is a BrokerTask *)

\* A step inside a session that does not await a read.
LEMMA ViewKept ==
  ASSUME IInv, pc' \in Handling \cup {"waiting"}, pc \in Handling \cup {"waiting"},
         ~(pc = "dispatching" /\ content[taken] = "read"),
         ~(pc' = "dispatching" /\ content'[taken'] = "read"),
         UNCHANGED cancelled
  PROVE  UNCHANGED <<Stage, Swallowed>>
<1>1. Stage = "up" /\ Stage' = "up"
  BY DEF Stage, Handling
<1>2. Swallowed' = Swallowed
  BY DEF Swallowed, Handling
<1> QED
  BY <1>1, <1>2

LEMMA ServeIsTask == ASSUME IInv, Serve PROVE Task!Next \/ UNCHANGED <<Stage, Swallowed>>
<1> USE DEF Handling
<1>1. CASE Reject \/ RunLocal
  BY <1>1, ViewKept DEF Reject, AfterRejection, RunLocal, Take
<1>2. CASE AskDevice
  <2>1. CASE content[taken'] = "read"
    BY <1>2, <2>1 DEF AskDevice, Take, arrivals, Task!Next, Task!Proceed, Task!Read, Stage, Swallowed
  <2>2. CASE content[taken'] # "read"
    BY <1>2, <2>2, ViewKept DEF AskDevice, Take, arrivals
  <2> QED
    BY <2>1, <2>2
<1>3. CASE DispatchReturns
  <2>1. CASE content[taken] = "read"
    BY <1>3, <2>1 DEF DispatchReturns, arrivals, Task!Next, Task!Proceed, Task!ReadReturns,
       Stage, Swallowed
  <2>2. CASE content[taken] # "read"
    BY <1>3, <2>2, ViewKept DEF DispatchReturns, arrivals
  <2> QED
    BY <2>1, <2>2
<1>4. CASE PublishAck \/ AckLost \/ PubackArrives
  BY <1>4, ViewKept DEF PublishAck, AckLost, PubackArrives, arrivals
<1>5. CASE PublishFails \/ PubackTimesOut
  BY <1>5 DEF PublishFails, PubackTimesOut, AfterFailedPublish, AfterTimeout, EndSession,
     Task!Next, Task!Proceed, Task!SessionFails, Stage, Swallowed
<1> QED
  BY <1>1, <1>2, <1>3, <1>4, <1>5 DEF Serve

LEMMA ConnectIsTask == ASSUME IInv, Connect PROVE Task!Next \/ UNCHANGED <<Stage, Swallowed>>
<1> USE DEF Handling
<1>1. CASE ConnectSucceeds \/ ConnectFails
  BY <1>1 DEF ConnectSucceeds, ConnectFails, EndSession, Task!Next, Task!Proceed, Task!Connect,
     Stage, Swallowed
<1>2. CASE PublishManifest
  <2>1. Stage = "setup" /\ Stage' = "setup"
    BY <1>2 DEF PublishManifest, Stage
  <2>2. Swallowed' = Swallowed
    BY <1>2 DEF PublishManifest, Swallowed
  <2> QED
    BY <2>1, <2>2
<1>3. CASE Subscribe \/ SetUpFails
  BY <1>3 DEF Subscribe, SetUpFails, EndSession, Task!Next, Task!Proceed, Task!SetUp,
     Stage, Swallowed
<1>4. CASE NoticeDisconnection
  BY <1>4 DEF NoticeDisconnection, EndSession, Task!Next, Task!Proceed, Task!SessionFails,
     Stage, Swallowed
<1>5. CASE Reconnect
  BY <1>5 DEF Reconnect, Task!Next, Task!Proceed, Task!BackoffEnds, Stage, Swallowed
<1> QED
  BY <1>1, <1>2, <1>3, <1>4, <1>5 DEF Connect

LEMMA EnvironmentIsTask ==
  ASSUME IInv, Environment PROVE Task!Next \/ UNCHANGED <<Stage, Swallowed>>
<1> USE DEF Handling
<1>1. ASSUME NEW kind \in Contents, Arrive(kind) PROVE UNCHANGED <<Stage, Swallowed>>
  <2>1. pc = "dispatching" => content'[taken] = content[taken]
    BY <1>1, GatewayAssumption DEF Arrive, IInv, TypeOK, QueueOfSession, Serials
  <2>2. Stage' = Stage
    BY <1>1, <2>1 DEF Arrive, Stage
  <2>3. Swallowed' = Swallowed
    BY <1>1 DEF Arrive, Swallowed
  <2> QED
    BY <2>2, <2>3
<1>2. CASE LinkDrops \/ DeviceServes
  <2>1. UNCHANGED <<pc, content, taken, cancelled>>
    BY <1>2 DEF LinkDrops, DeviceServes, arrivals
  <2> QED
    BY <2>1 DEF Stage, Swallowed
<1>3. CASE CancelSwallowed
  BY <1>3 DEF CancelSwallowed, arrivals, Task!Next, Task!Cancel, Stage, Swallowed
<1>4. CASE CancelStops
  BY <1>4 DEF CancelStops, arrivals, IInv, TypeOK, Down, Task!Next, Task!Cancel,
     Task!CancelInBackoff, Stage, Swallowed
<1> QED
  BY <1>1, <1>2, <1>3, <1>4 DEF Environment

\* The gateway does as main takes it to: it may be cancelled wherever it is suspended,
\* and ends then unless it is in bacnet_read (mqtt_rpc_gateway.py:280-380, main.py:116-121).
THEOREM GatewayIsTask == Spec => TaskSteps
<1>1. IInv /\ [Next]_vars => [Task!Next]_<<Stage, Swallowed>>
  <2> SUFFICES ASSUME IInv, [Next]_vars PROVE Task!Next \/ UNCHANGED <<Stage, Swallowed>>
    OBVIOUS
  <2>1. CASE UNCHANGED vars
    BY <2>1 DEF vars, arrivals, Stage, Swallowed
  <2> QED
    BY <2>1, ServeIsTask, ConnectIsTask, EnvironmentIsTask DEF Next
<1> QED
  BY <1>1, GatewayInvariant, PTL DEF Spec, TaskSteps

-----------------------------------------------------------------------------
(* What follows for a requester *)

\* A command that was answered or abandoned is so for ever: no reconnection executes or
\* acknowledges it again (mqtt_rpc_gateway.py:280-380).
AnswersFinal ==
  [][\A s \in Serials : Standing[s] \in Ledger!Final => Standing'[s] = Standing[s]]_Standing

\* Once answered or abandoned, a command stays so through every later session, for any
\* numbers of commands and sessions (serve and reconnect, mqtt_rpc_gateway.py:280-380).
THEOREM AnswersAreFinal == Spec => AnswersFinal
<1>1. ASSUME Standing \in [Serials -> {"absent"} \cup Ledger!Open \cup Ledger!Final],
             [Ledger!Next]_Standing
      PROVE  \A s \in Serials : Standing[s] \in Ledger!Final => Standing'[s] = Standing[s]
  BY <1>1 DEF Ledger!Next, Ledger!Receive, Ledger!Start, Ledger!Answer, Ledger!Abandon,
     Ledger!Open, Ledger!Final, Ledger!Serials, Serials, Standing
<1>2. Standing \in [Serials -> {"absent"} \cup Ledger!Open \cup Ledger!Final]
  BY DEF Standing, StatusOf, Ledger!Open, Ledger!Final
<1>3. IInv /\ [Next]_vars
        => [\A s \in Serials : Standing[s] \in Ledger!Final => Standing'[s] = Standing[s]]_Standing
  BY <1>1, <1>2, StandingSteps
<1> QED
  BY <1>3, GatewayInvariant, PTL DEF Spec, AnswersFinal

\* Within a session the acks have no gap: who gets the answer of a command knows that those
\* before it were answered, too (mqtt_rpc_gateway.py:340-363).
NoGaps ==
  \A s, t \in Serials :
    t \in Acked /\ s < t /\ arrivedIn[s] = arrivedIn[t] => s \in Acked

LEMMA NoGapsKept == ASSUME IInv, NoGaps, [Next]_vars PROVE NoGaps'
<1>1. CASE acks' = acks /\ arrivedIn' = arrivedIn
  BY <1>1 DEF NoGaps, Acked
<1>2. ASSUME NEW kind \in Contents, Arrive(kind) PROVE NoGaps'
  <2>1. /\ received' = received + 1 /\ acks' = acks
        /\ arrivedIn' = [arrivedIn EXCEPT ![received'] = session]
    BY <1>2 DEF Arrive
  <2>2. \A t \in Acked : t <= received
    <3>1. \A i \in DOMAIN acks : acks[i] \in Acks /\ acks[i].serial <= taken
      BY DEF IInv, TypeOK, AcksOfTaken
    <3> QED
      BY <3>1 DEF IInv, TypeOK, Acked, Acks, Serials
  <2>3. received \in Nat /\ arrivedIn \in [Serials -> 0 .. MaxSessions]
    BY DEF IInv, TypeOK
  <2>4. \A s \in Serials : s <= received => arrivedIn'[s] = arrivedIn[s]
    BY <2>1, <2>3 DEF Serials
  <2>5. Acked' = Acked
    BY <2>1 DEF Acked
  <2> QED
    BY <2>2, <2>3, <2>4, <2>5 DEF NoGaps, Serials
<1>3. CASE PublishAck
  <2>1. /\ pc = "acking" /\ acks' = Append(acks, Ack)
        /\ UNCHANGED <<taken, arrivedIn>>
    BY <1>3 DEF PublishAck, arrivals
  <2>2. taken \in Serials /\ arrivedIn[taken] = session
    BY <2>1, GatewayAssumption DEF IInv, TypeOK, QueueOfSession, Serials, Handling
  <2>3. Acked' = Acked \cup {taken}
    BY <2>1, <2>2, AppendAck DEF IInv
  <2>4. ASSUME NEW s \in Serials, s < taken, arrivedIn[s] = session PROVE s \in Acked
    <3>1. s \in 1 .. taken /\ ~(arrivedIn[s] < session)
      BY <2>2, <2>4 DEF IInv, TypeOK, Serials
    <3> QED
      BY <2>1, <2>2, <2>4, <3>1 DEF IInv, UnackedOnlyIfSessionOver, Down, Serials
  <2> QED
    BY <2>1, <2>2, <2>3, <2>4 DEF NoGaps
<1>4. ASSUME [Next]_vars, \A kind \in Contents : ~Arrive(kind), ~PublishAck
      PROVE  acks' = acks /\ arrivedIn' = arrivedIn
  <2>1. CASE UNCHANGED vars
    BY <2>1 DEF vars, arrivals
  <2>2. CASE Environment
    BY <1>4, <2>2 DEF Environment, LinkDrops, DeviceServes, CancelSwallowed, CancelStops, arrivals
  <2>3. CASE Serve
    BY <1>4, <2>3 DEF Serve, Reject, RunLocal, AskDevice, DispatchReturns, AckLost, PublishFails,
       PubackArrives, PubackTimesOut, Take, arrivals
  <2>4. CASE Connect
    BY <2>4 DEF Connect, ConnectSucceeds, ConnectFails, PublishManifest, Subscribe, SetUpFails,
       NoticeDisconnection, Reconnect, arrivals
  <2> QED
    BY <1>4, <2>1, <2>2, <2>3, <2>4 DEF Next
<1> QED
  BY <1>1, <1>2, <1>3, <1>4

\* No command is passed over within a session: each is taken in its turn, and its ack
\* leaves before the next one is taken (mqtt_rpc_gateway.py:340-363).
THEOREM AcksHaveNoGaps == Spec => []NoGaps
<1>1. Init => NoGaps
  BY DEF Init, NoGaps, Acked
<1> QED
  BY <1>1, NoGapsKept, GatewayInvariant, PTL DEF Spec

\* A command is carried out only when those of its session before it have their acks at the
\* broker.  So of the commands of a session that got no answer at most the first has been
\* carried out, and a requester that repeats them all repeats one effect at the most.
CarriedOutInTurn ==
  \A s \in effects, t \in Serials : t < s /\ arrivedIn[t] = arrivedIn[s] => t \in Acked

\* Carrying out the command being served.
LEMMA EffectInTurn ==
  ASSUME CarriedOutInTurn, arrivedIn[taken'] = session,
         effects' = effects \cup {taken'}, acks' = acks, arrivedIn' = arrivedIn,
         \A t \in Serials : t < taken' /\ arrivedIn[t] = session => t \in Acked
  PROVE  CarriedOutInTurn'
BY DEF CarriedOutInTurn, Acked

LEMMA CarriedOutKept == ASSUME IInv, CarriedOutInTurn, [Next]_vars PROVE CarriedOutInTurn'
<1>0. /\ taken \in Nat /\ received \in Nat /\ taken <= received /\ effects \subseteq 1 .. taken
      /\ session \in Nat /\ received <= MaxMessages /\ acks \in Seq(Acks)
      /\ arrivedIn \in [Serials -> 0 .. MaxSessions]
  BY GatewayAssumption DEF IInv, TypeOK, EffectsTaken, Serials
<1> USE GatewayAssumption
<1>1. ASSUME effects' = effects, arrivedIn' = arrivedIn, Acked \subseteq Acked'
      PROVE  CarriedOutInTurn'
  BY <1>1 DEF CarriedOutInTurn
<1>2. ASSUME NEW kind \in Contents, Arrive(kind) PROVE CarriedOutInTurn'
  <2>1. /\ arrivedIn' = [arrivedIn EXCEPT ![received + 1] = session]
        /\ effects' = effects /\ acks' = acks
    BY <1>2 DEF Arrive
  <2>2. ASSUME NEW s \in effects, NEW t \in Serials, t < s
        PROVE  arrivedIn'[s] = arrivedIn[s] /\ arrivedIn'[t] = arrivedIn[t]
    <3>1. s \in Serials /\ s # received + 1 /\ t # received + 1
      BY <1>0, <2>2 DEF Serials
    <3> QED
      BY <1>0, <2>1, <3>1
  <2>3. Acked' = Acked
    BY <2>1 DEF Acked
  <2> QED
    BY <2>1, <2>2, <2>3 DEF CarriedOutInTurn
<1>3. CASE PublishAck
  <2>1. /\ pc = "acking" /\ acks' = Append(acks, Ack)
        /\ effects' = effects /\ arrivedIn' = arrivedIn
    BY <1>3 DEF PublishAck, arrivals
  <2>2. taken \in Serials
    BY <1>0, <2>1 DEF IInv, QueueOfSession, Serials, Handling
  <2> QED
    BY <1>1, <2>1, <2>2, AppendAck DEF IInv
<1>4. CASE RunLocal
  <2>1. /\ pc = "waiting" /\ taken < received /\ taken' = taken + 1
        /\ acks' = acks /\ arrivedIn' = arrivedIn
        /\ effects' = effects \/ effects' = effects \cup {taken'}
    BY <1>4 DEF RunLocal, Take, arrivals
  <2>2. arrivedIn[taken'] = session
    BY <1>0, <2>1 DEF IInv, QueueOfSession, Down
  <2>3. ASSUME NEW t \in Serials, t < taken', arrivedIn[t] = session PROVE t \in Acked
    <3>1. t \in 1 .. taken /\ ~(arrivedIn[t] < session)
      BY <1>0, <2>1, <2>3 DEF Serials
    <3> QED
      BY <2>1, <3>1 DEF IInv, UnackedOnlyIfSessionOver, Handling, Down
  <2>4. Acked' = Acked
    BY <2>1 DEF Acked
  <2> QED
    BY <1>1, <2>1, <2>2, <2>3, <2>4, EffectInTurn
<1>5. CASE DeviceServes
  <2>1. /\ pc = "dispatching" /\ effects' = effects \cup {taken} /\ taken' = taken
        /\ acks' = acks /\ arrivedIn' = arrivedIn
    BY <1>5 DEF DeviceServes, arrivals
  <2>2. arrivedIn[taken] = session
    BY <1>0, <2>1 DEF IInv, QueueOfSession, Handling
  <2>3. ASSUME NEW t \in Serials, t < taken, arrivedIn[t] = session PROVE t \in Acked
    <3>1. t \in 1 .. taken /\ t # taken /\ ~(arrivedIn[t] < session)
      BY <1>0, <2>3 DEF Serials
    <3> QED
      BY <2>1, <3>1 DEF IInv, UnackedOnlyIfSessionOver, Down
  <2> QED
    BY <2>1, <2>2, <2>3, EffectInTurn
<1>6. ASSUME \A kind \in Contents : ~Arrive(kind), ~PublishAck, ~RunLocal, ~DeviceServes
      PROVE  acks' = acks /\ arrivedIn' = arrivedIn /\ effects' = effects
  <2>1. CASE UNCHANGED vars
    BY <2>1 DEF vars, arrivals
  <2>2. CASE Environment
    BY <1>6, <2>2 DEF Environment, LinkDrops, CancelSwallowed, CancelStops, arrivals
  <2>3. CASE Serve
    BY <1>6, <2>3 DEF Serve, Reject, AskDevice, DispatchReturns, AckLost, PublishFails,
       PubackArrives, PubackTimesOut, Take, arrivals
  <2>4. CASE Connect
    BY <2>4 DEF Connect, ConnectSucceeds, ConnectFails, PublishManifest, Subscribe, SetUpFails,
       NoticeDisconnection, Reconnect, arrivals
  <2> QED
    BY <2>1, <2>2, <2>3, <2>4 DEF Next
<1>7. acks' = acks => Acked' = Acked
  BY DEF Acked
<1> QED
  BY <1>1, <1>2, <1>3, <1>4, <1>5, <1>6, <1>7

\* A command has its effect only after every earlier one of its session was answered, and of
\* two that were carried out in one session and not answered there is only one
\* (mqtt_rpc_gateway.py:340-363).
THEOREM EffectsInTurn ==
  Spec => [](/\ CarriedOutInTurn
             /\ \A s, t \in effects \ Acked : arrivedIn[s] = arrivedIn[t] => s = t)
<1>1. Init => CarriedOutInTurn
  BY DEF Init, CarriedOutInTurn
<1>2. TypeOK /\ CarriedOutInTurn
        => \A s, t \in effects \ Acked : arrivedIn[s] = arrivedIn[t] => s = t
  <2> SUFFICES ASSUME TypeOK, CarriedOutInTurn, NEW s \in effects \ Acked,
                      NEW t \in effects \ Acked, arrivedIn[s] = arrivedIn[t]
               PROVE  s = t
    OBVIOUS
  <2>1. s \in Serials /\ t \in Serials
    BY DEF TypeOK
  <2>2. ~(t < s) /\ ~(s < t)
    BY <2>1 DEF CarriedOutInTurn
  <2> QED
    BY <2>1, <2>2 DEF Serials
<1>3. IInv => TypeOK
  BY DEF IInv
<1> QED
  BY <1>1, <1>2, <1>3, CarriedOutKept, GatewayInvariant, PTL DEF Spec

-----------------------------------------------------------------------------
(* Progress.  EveryCommandAnswered itself needs an induction over the      *)
(* queue, which TLC does on its instance; proved here is what the          *)
(* induction rests on: under the fairness of FairSpec, and if Serve is     *)
(* possible where ServeReady says so, each pending command always comes    *)
(* nearer to its answer, by a distance that is a natural number.           *)

\* No command of a session is received before its subscription.
SetUpEmpty ==
  /\ pc \in {"manifest", "subscribe"} => ~subscribed
  /\ pc \in {"manifest", "subscribe"} => \A s \in 1 .. received : arrivedIn[s] < session

PInv == IInv /\ SetUpEmpty

LEMMA SetUpEmptyKept == ASSUME PInv, [Next]_vars PROVE SetUpEmpty'
<1>1. CASE UNCHANGED vars
  BY <1>1 DEF vars, arrivals, PInv, SetUpEmpty
<1>2. CASE Environment
  <2>1. ASSUME NEW kind \in Contents, Arrive(kind) PROVE SetUpEmpty'
    BY <2>1 DEF Arrive, PInv, SetUpEmpty
  <2>2. CASE LinkDrops
    BY <2>2 DEF LinkDrops, Unlink, arrivals, PInv, SetUpEmpty
  <2>3. CASE DeviceServes \/ CancelSwallowed \/ CancelStops
    BY <2>3 DEF DeviceServes, CancelSwallowed, CancelStops, arrivals, SetUpEmpty
  <2> QED
    BY <1>2, <2>1, <2>2, <2>3 DEF Environment
<1>3. CASE Serve
  <2>1. pc' \notin {"manifest", "subscribe"}
    BY <1>3 DEF Serve, Reject, AfterRejection, RunLocal, AskDevice, DispatchReturns, PublishAck,
       AckLost, PublishFails, AfterFailedPublish, PubackArrives, PubackTimesOut, AfterTimeout,
       EndSession
  <2> QED
    BY <2>1 DEF SetUpEmpty
<1>4. CASE ConnectSucceeds
  <2>1. /\ pc = "connecting" /\ session' = session + 1
        /\ UNCHANGED <<subscribed, received, arrivedIn>>
    BY <1>4 DEF ConnectSucceeds, arrivals
  <2>2. \A s \in 1 .. received : arrivedIn[s] \in Nat /\ arrivedIn[s] <= session
    BY GatewayAssumption DEF PInv, IInv, TypeOK, QueueOfSession, Serials
  <2> QED
    BY <2>1, <2>2 DEF PInv, IInv, TypeOK, DownUnlinked, Down, SetUpEmpty
<1>5. CASE PublishManifest
  BY <1>5 DEF PublishManifest, arrivals, PInv, SetUpEmpty
<1>6. CASE Connect /\ ~ConnectSucceeds /\ ~PublishManifest
  BY <1>6 DEF Connect, ConnectFails, Subscribe, SetUpFails, NoticeDisconnection, Reconnect,
     EndSession, SetUpEmpty
<1> QED
  BY <1>1, <1>2, <1>3, <1>4, <1>5, <1>6 DEF Next

\* A command of this session that has no ack yet.
Pending(s) == s <= received /\ arrivedIn[s] = session /\ s \notin Acked /\ pc \notin Down

Answered(s) == s \in Acked \/ pc \in Down

\* The awaits between a command and its answer: up to four for each of those before it.
Distance(s) ==
  4 * (s - taken) + (CASE pc = "dispatching" -> 3 [] pc = "acking" -> 2 [] pc = "puback" -> 1
                       [] OTHER -> 0)

\* A pending command is in the queue or being served.
LEMMA PendingPlace ==
  ASSUME PInv, NEW s \in Serials, Pending(s)
  PROVE  /\ pc \in Handling \cup {"waiting"}
         /\ s > taken \/ (s = taken /\ pc \in Handling)
         /\ Distance(s) \in Nat
         /\ pc \in Handling \/ taken < received
<1>1. s \in Nat /\ taken \in Nat /\ received \in Nat /\ s >= 1
  BY DEF PInv, IInv, TypeOK, Serials
<1>2. pc \in Handling \cup {"waiting"}
  <2>1. s \in 1 .. received /\ arrivedIn[s] = session /\ pc \notin Down
    BY <1>1 DEF Pending
  <2>2. session \in Nat
    BY DEF PInv, IInv, TypeOK
  <2> QED
    BY <2>1, <2>2 DEF PInv, IInv, TypeOK, SetUpEmpty
<1>3. s > taken \/ (s = taken /\ pc \in Handling)
  <2>1. CASE s <= taken
    <3>1. s \in 1 .. taken /\ session \in Nat
      BY <1>1, <2>1 DEF PInv, IInv, TypeOK
    <3> QED
      BY <3>1 DEF Pending, PInv, IInv, UnackedOnlyIfSessionOver
  <2> QED
    BY <1>1, <2>1
<1>4. Distance(s) \in Nat
  BY <1>1, <1>3 DEF Distance
<1> QED
  BY <1>1, <1>2, <1>3, <1>4 DEF Pending

\* Nothing that happens takes a command farther from its answer, and the gateway's own
\* steps take it nearer.
LEMMA DistanceSteps ==
  ASSUME PInv, [Next]_vars, NEW s \in Serials, Pending(s)
  PROVE  /\ \/ Answered(s)'
            \/ Pending(s)' /\ (Distance(s)' = Distance(s) \/ Distance(s)' < Distance(s))
         /\ Serve => Answered(s)' \/ (Pending(s)' /\ Distance(s)' < Distance(s))
<1>1. /\ s \in Nat /\ taken \in Nat /\ received \in Nat /\ s >= 1 /\ s <= received
      /\ arrivedIn[s] = session /\ s \notin Acked /\ pc \in Handling \cup {"waiting"}
      /\ Distance(s) \in Nat
  BY PendingPlace DEF PInv, IInv, TypeOK, Serials, Pending
<1> DEFINE weight == CASE pc = "dispatching" -> 3 [] pc = "acking" -> 2 [] pc = "puback" -> 1
                       [] OTHER -> 0
<1>2. ASSUME UNCHANGED <<taken, received, session, arrivedIn, acks>>,
             pc' \in Handling \cup {"waiting"} \cup Down
      PROVE  Answered(s)' \/ (/\ Pending(s)'
                              /\ Distance(s)' = 4 * (s - taken) + weight')
  BY <1>1, <1>2 DEF Answered, Pending, Acked, Distance
<1>3. Distance(s) = 4 * (s - taken) + weight
  BY DEF Distance
<1>4. ASSUME UNCHANGED <<pc, taken, received, session, arrivedIn, acks>>
      PROVE  Pending(s)' /\ Distance(s)' = Distance(s)
  BY <1>4 DEF Pending, Acked, Distance
<1>5. ASSUME Serve
      PROVE  Answered(s)' \/ (Pending(s)' /\ Distance(s)' < Distance(s))
  <2>1. CASE Reject \/ RunLocal \/ AskDevice
    <3>1. /\ pc = "waiting" /\ taken' = taken + 1 /\ pc' \in {"dispatching", "acking"}
          /\ UNCHANGED <<received, session, arrivedIn, acks>>
      BY <2>1 DEF Reject, AfterRejection, RunLocal, AskDevice, Take, arrivals
    <3>2. Pending(s)'
      BY <1>1, <3>1 DEF Pending, Acked, Down
    <3>3. Distance(s)' <= 4 * (s - (taken + 1)) + 3
      BY <1>1, <3>1 DEF Distance
    <3>4. Distance(s) = 4 * (s - taken)
      BY <1>1, <3>1 DEF Distance
    <3> QED
      BY <1>1, <3>1, <3>2, <3>3, <3>4 DEF Distance
  <2>2. CASE DispatchReturns
    <3>1. /\ pc = "dispatching" /\ pc' = "acking"
          /\ UNCHANGED <<taken, received, session, arrivedIn, acks>>
      BY <2>2 DEF DispatchReturns, arrivals
    <3> QED
      BY <1>1, <1>2, <1>3, <3>1 DEF Handling
  <2>3. CASE PublishAck
    <3>1. /\ pc = "acking" /\ pc' = "puback" /\ acks' = Append(acks, Ack)
          /\ UNCHANGED <<taken, received, session, arrivedIn>>
      BY <2>3 DEF PublishAck, arrivals
    <3>2. taken \in Serials
      BY <3>1, GatewayAssumption DEF PInv, IInv, TypeOK, QueueOfSession, Serials, Handling
    <3>3. Acked' = Acked \cup {taken}
      BY <3>1, <3>2, AppendAck DEF PInv, IInv
    <3>4. s \in Acked' \/ (Pending(s)' /\ Distance(s)' = 4 * (s - taken) + 1)
      BY <1>1, <3>1, <3>3 DEF Pending, Distance, Down
    <3>5. Distance(s) = 4 * (s - taken) + 2
      BY <3>1 DEF Distance
    <3> QED
      BY <1>1, <3>4, <3>5 DEF Answered
  <2>4. CASE AckLost
    <3>1. /\ pc = "acking" /\ pc' = "puback"
          /\ UNCHANGED <<taken, received, session, arrivedIn, acks>>
      BY <2>4 DEF AckLost, arrivals
    <3> QED
      BY <1>1, <1>2, <1>3, <3>1 DEF Handling
  <2>5. CASE PubackArrives
    <3>1. /\ pc = "puback" /\ pc' = "waiting"
          /\ UNCHANGED <<taken, received, session, arrivedIn, acks>>
      BY <2>5 DEF PubackArrives, arrivals
    <3> QED
      BY <1>1, <1>2, <1>3, <3>1 DEF Handling
  <2>6. CASE PublishFails \/ PubackTimesOut
    BY <2>6 DEF PublishFails, AfterFailedPublish, PubackTimesOut, AfterTimeout, EndSession,
       Answered, Down
  <2> QED
    BY <1>5, <2>1, <2>2, <2>3, <2>4, <2>5, <2>6 DEF Serve
<1>6. CASE UNCHANGED vars \/ LinkDrops \/ DeviceServes
  BY <1>4, <1>5, <1>6 DEF vars, LinkDrops, DeviceServes, arrivals
<1>7. ASSUME NEW kind \in Contents, Arrive(kind)
      PROVE  Pending(s)' /\ Distance(s)' = Distance(s)
  <2>1. /\ received' = received + 1
        /\ arrivedIn' = [arrivedIn EXCEPT ![received'] = session]
        /\ UNCHANGED <<pc, taken, session, acks>>
    BY <1>7 DEF Arrive
  <2>2. arrivedIn'[s] = arrivedIn[s]
    BY <1>1, <2>1 DEF PInv, IInv, TypeOK
  <2>3. Pending(s)'
    BY <1>1, <2>1, <2>2 DEF Pending, Acked, Handling, Down
  <2> QED
    BY <2>1, <2>3 DEF Distance
<1>8. CASE CancelSwallowed
  <2>1. /\ pc = "dispatching" /\ pc' = "acking"
        /\ UNCHANGED <<taken, received, session, arrivedIn, acks>>
    BY <1>8 DEF CancelSwallowed, arrivals
  <2> QED
    BY <1>1, <1>2, <1>3, <1>5, <2>1 DEF Handling
<1>9. CASE CancelStops \/ Connect
  <2>1. Answered(s)'
    BY <1>1, <1>9 DEF CancelStops, Connect, ConnectSucceeds, ConnectFails, PublishManifest,
       Subscribe, SetUpFails, NoticeDisconnection, Reconnect, EndSession, Answered, Handling, Down
  <2> QED
    BY <2>1
<1> QED
  BY <1>5, <1>6, <1>7, <1>8, <1>9 DEF Next, Environment

At(s, k) == Pending(s) /\ Distance(s) = k
Nearer(s, k) == Pending(s) /\ Distance(s) < k

\* The invariant that progress needs: before a session has subscribed, nothing of it is
\* queued (mqtt_rpc_gateway.py:280-380).
THEOREM GatewayProgressInvariant == Spec => []PInv
<1>1. Init => SetUpEmpty
  BY DEF Init, SetUpEmpty
<1>2. PInv /\ [Next]_vars => PInv'
  BY SetUpEmptyKept, NextIInv DEF PInv
<1> QED
  BY <1>1, <1>2, InitIInv, PTL DEF Spec, PInv

\* Whatever arrives and fails meanwhile, a pending command is answered, or its session
\* ends, or it comes nearer to its answer; and it can come nearer only finitely often
\* (mqtt_rpc_gateway.py:340-363).
THEOREM CommandsAdvance ==
  ASSUME NEW s \in Serials, NEW k \in Nat
  PROVE  /\ Spec => [](Pending(s) => Distance(s) \in Nat)
         /\ FairSpec /\ []ServeReady => (At(s, k) ~> Answered(s) \/ Nearer(s, k))
<1>1. PInv => (Pending(s) => Distance(s) \in Nat)
  BY PendingPlace
<1>2. PInv /\ At(s, k) /\ [Next]_vars => At(s, k)' \/ Nearer(s, k)' \/ Answered(s)'
  BY DistanceSteps, PendingPlace DEF At, Nearer
<1>3. PInv /\ At(s, k) /\ <<Next /\ Serve>>_vars => Nearer(s, k)' \/ Answered(s)'
  BY DistanceSteps, PendingPlace DEF At, Nearer
<1>4. Serve => Next
  BY DEF Next
<1>5. PInv /\ At(s, k) /\ ServeReady => ENABLED <<Serve>>_vars
  BY PendingPlace DEF At, ServeReady
<1>6. Spec => [](Pending(s) => Distance(s) \in Nat)
  BY <1>1, GatewayProgressInvariant, PTL
<1>7. FairSpec /\ []ServeReady => (At(s, k) ~> Answered(s) \/ Nearer(s, k))
  BY <1>2, <1>3, <1>4, <1>5, GatewayProgressInvariant, PTL DEF FairSpec, Spec
<1> QED
  BY <1>6, <1>7

\* Pending, with m commands to be taken before it is the one served.
Ahead(s, m) == Pending(s) /\ s - taken = m

\* The command being served (m = 0) is answered, or its session ends; and one in the queue
\* moves up by one at least: no command holds up those behind it for ever, whatever the
\* device, the broker and the link do (mqtt_rpc_gateway.py:340-363).
THEOREM QueueMoves ==
  ASSUME NEW s \in Serials, NEW m \in Nat
  PROVE  FairSpec /\ []ServeReady
           => (Ahead(s, m) ~> Answered(s) \/ \E n \in 0 .. m - 1 : Ahead(s, n))
<1> DEFINE K(i) == 4 * m + i
           Moved == \E n \in 0 .. m - 1 : Ahead(s, n)
<1>1. PInv => (Ahead(s, m) => At(s, K(0)) \/ At(s, K(1)) \/ At(s, K(2)) \/ At(s, K(3)))
  BY DEF Ahead, At, Distance, PInv, IInv, TypeOK, Serials
<1>2. PInv => /\ Nearer(s, K(3)) => At(s, K(2)) \/ Nearer(s, K(2))
              /\ Nearer(s, K(2)) => At(s, K(1)) \/ Nearer(s, K(1))
              /\ Nearer(s, K(1)) => At(s, K(0)) \/ Nearer(s, K(0))
  BY PendingPlace DEF At, Nearer
<1>3. PInv => (Nearer(s, K(0)) => Moved)
  <2> SUFFICES ASSUME PInv, Nearer(s, 4 * m) PROVE s - taken \in 0 .. m - 1
    BY DEF Nearer, Ahead
  <2>1. s - taken \in Int /\ Distance(s) >= 4 * (s - taken)
    BY DEF Distance, PInv, IInv, TypeOK, Serials
  <2>2. 4 * (s - taken) < 4 * m
    BY <2>1, PendingPlace DEF Nearer
  <2>3. s - taken >= 0
    BY <2>1, PendingPlace DEF Nearer, PInv, IInv, TypeOK, Serials
  <2> QED
    BY <2>1, <2>2, <2>3
<1>4. ASSUME NEW k \in Nat
      PROVE  /\ PInv /\ At(s, k) /\ [Next]_vars => At(s, k)' \/ Nearer(s, k)' \/ Answered(s)'
             /\ PInv /\ At(s, k) /\ <<Next /\ Serve>>_vars => Nearer(s, k)' \/ Answered(s)'
             /\ PInv /\ At(s, k) /\ ServeReady => ENABLED <<Serve>>_vars
  BY DistanceSteps, PendingPlace DEF At, Nearer, ServeReady
<1>5. /\ K(0) \in Nat /\ K(1) \in Nat /\ K(2) \in Nat /\ K(3) \in Nat
  OBVIOUS
<1> HIDE DEF K, Moved
<1>6. Serve => Next
  BY DEF Next
<1>7. FairSpec => [][Next]_vars /\ WF_vars(Serve) /\ []PInv
  BY GatewayProgressInvariant, PTL DEF FairSpec, Spec
<1>8. FairSpec /\ []ServeReady => (At(s, K(0)) ~> Answered(s) \/ Nearer(s, K(0)))
  <2>1. /\ PInv /\ At(s, K(0)) /\ [Next]_vars => At(s, K(0))' \/ Nearer(s, K(0))' \/ Answered(s)'
        /\ PInv /\ At(s, K(0)) /\ <<Next /\ Serve>>_vars => Nearer(s, K(0))' \/ Answered(s)'
        /\ PInv /\ At(s, K(0)) /\ ServeReady => ENABLED <<Serve>>_vars
    BY <1>4, <1>5
  <2> QED
    BY <2>1, <1>6, <1>7, PTL
<1>9. FairSpec /\ []ServeReady => (At(s, K(1)) ~> Answered(s) \/ Nearer(s, K(1)))
  <2>1. /\ PInv /\ At(s, K(1)) /\ [Next]_vars => At(s, K(1))' \/ Nearer(s, K(1))' \/ Answered(s)'
        /\ PInv /\ At(s, K(1)) /\ <<Next /\ Serve>>_vars => Nearer(s, K(1))' \/ Answered(s)'
        /\ PInv /\ At(s, K(1)) /\ ServeReady => ENABLED <<Serve>>_vars
    BY <1>4, <1>5
  <2> QED
    BY <2>1, <1>6, <1>7, PTL
<1>10. FairSpec /\ []ServeReady => (At(s, K(2)) ~> Answered(s) \/ Nearer(s, K(2)))
  <2>1. /\ PInv /\ At(s, K(2)) /\ [Next]_vars => At(s, K(2))' \/ Nearer(s, K(2))' \/ Answered(s)'
        /\ PInv /\ At(s, K(2)) /\ <<Next /\ Serve>>_vars => Nearer(s, K(2))' \/ Answered(s)'
        /\ PInv /\ At(s, K(2)) /\ ServeReady => ENABLED <<Serve>>_vars
    BY <1>4, <1>5
  <2> QED
    BY <2>1, <1>6, <1>7, PTL
<1>11. FairSpec /\ []ServeReady => (At(s, K(3)) ~> Answered(s) \/ Nearer(s, K(3)))
  <2>1. /\ PInv /\ At(s, K(3)) /\ [Next]_vars => At(s, K(3))' \/ Nearer(s, K(3))' \/ Answered(s)'
        /\ PInv /\ At(s, K(3)) /\ <<Next /\ Serve>>_vars => Nearer(s, K(3))' \/ Answered(s)'
        /\ PInv /\ At(s, K(3)) /\ ServeReady => ENABLED <<Serve>>_vars
    BY <1>4, <1>5
  <2> QED
    BY <2>1, <1>6, <1>7, PTL
<1>12. FairSpec /\ []ServeReady => (Ahead(s, m) ~> Answered(s) \/ Moved)
  BY <1>1, <1>2, <1>3, <1>7, <1>8, <1>9, <1>10, <1>11, PTL
<1> QED
  BY <1>12 DEF Moved

=============================================================================

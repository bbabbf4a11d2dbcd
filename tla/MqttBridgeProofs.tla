-------------------------- MODULE MqttBridgeProofs --------------------------
(***************************************************************************)
(* For any points, messages and sessions: the bridge has well-typed        *)
(* states, never shows an older state of a point after a newer one, drops  *)
(* no received message but to stop, and is a BrokerTask; each poll round   *)
(* comes nearer to its end and shows what has come to rest.                *)
(***************************************************************************)
EXTENDS MqttBridge, FiniteSetTheorems, TLAPS

-----------------------------------------------------------------------------
(* The inductive invariant *)

\* A built payload is no older than what was shown of its point; one task at a time
\* holds one.
DraftsFresh ==
  /\ \A p \in Points : shown[p] <= changes[p]
  /\ \A w \in Publishers : \A d \in draft[w] : shown[d.point] <= d.age /\ d.age <= changes[d.point]
  /\ draft["handler"] = {} \/ draft["poll"] = {}

\* Where the two tasks are, relative to one another.
TasksInStep ==
  /\ poll = "none" <=> pc \notin Serving \cup Closing
  /\ pc \in Closing => LoopFree
  /\ draft["handler"] # {} <=> pc = "sending"
  /\ draft["poll"] # {} <=> poll = "sending"
  /\ pc = "closing on cancel" => cancelled
  /\ pc = "new" => ~cancelled

IInv == TypeOK /\ DraftsFresh /\ TasksInStep

LEMMA InitIInv == Init => IInv
<1> SUFFICES ASSUME Init PROVE IInv
  OBVIOUS
<1>1. TypeOK
  <2>1. /\ draft \in [Publishers -> SUBSET Payloads] /\ queue \in Seq(Points \cup {"other"})
        /\ changes \in [Points -> 0 .. MaxChanges] /\ shown \in [Points -> 0 .. MaxChanges]
    BY BridgeAssumption DEF Init
  <2>2. session \in 0 .. MaxSessions /\ received \in 0 .. MaxSets
    BY BridgeAssumption DEF Init
  <2> QED
    BY <2>1, <2>2 DEF Init, TypeOK
<1>2. DraftsFresh
  BY DEF Init, DraftsFresh, Publishers
<1>3. TasksInStep
  BY DEF Init, TasksInStep, Serving, Closing, Publishers
<1> QED
  BY <1>1, <1>2, <1>3 DEF IInv

-----------------------------------------------------------------------------
(* Steps *)

\* A step that leaves the points and the payloads alone keeps them fresh.
LEMMA FreshKept ==
  ASSUME IInv, UNCHANGED <<draft, changes, shown>>
  PROVE  DraftsFresh'
BY DEF IInv, DraftsFresh

LEMMA EnvironmentIInv == IInv /\ Environment => IInv'
<1> SUFFICES ASSUME IInv, Environment PROVE IInv'
  OBVIOUS
<1> USE BridgeAssumption
<1>1. ASSUME NEW m \in Points \cup {"other"}, Arrive(m) PROVE IInv'
  <2>1. TypeOK'
    BY <1>1 DEF Arrive, IInv, TypeOK
  <2>2. DraftsFresh'
    BY <1>1, FreshKept DEF Arrive
  <2>3. TasksInStep'
    BY <1>1 DEF Arrive, IInv, TasksInStep, LoopFree
  <2> QED
    BY <2>1, <2>2, <2>3 DEF IInv
<1>2. CASE LinkDrops
  <2>1. TypeOK'
    BY <1>2 DEF LinkDrops, IInv, TypeOK
  <2>2. DraftsFresh' /\ TasksInStep'
    BY <1>2, FreshKept DEF LinkDrops, IInv, TasksInStep, LoopFree
  <2> QED
    BY <2>1, <2>2 DEF IInv
<1>3. ASSUME NEW p \in Points, OtherWrite(p) PROVE IInv'
  <2>1. /\ changes \in [Points -> 0 .. MaxChanges] /\ shown \in [Points -> 0 .. MaxChanges]
        /\ changes' = [changes EXCEPT ![p] = changes[p] + 1]
        /\ changes[p] < MaxChanges
        /\ UNCHANGED <<pc, poll, todo, draft, link, session, queue, received, shown,
                       bridgeState, cancelled>>
    BY <1>3 DEF OtherWrite, IInv, TypeOK
  <2>2. changes' \in [Points -> 0 .. MaxChanges] /\ \A q \in Points : changes[q] <= changes'[q]
    BY <2>1
  <2>3. TypeOK' /\ TasksInStep'
    BY <2>1, <2>2 DEF IInv, TypeOK, TasksInStep, LoopFree
  <2>4. ASSUME NEW w \in Publishers, NEW d \in draft[w]
        PROVE  shown[d.point] <= d.age /\ d.age <= changes'[d.point]
    <3>1. d \in Payloads
      BY DEF IInv, TypeOK
    <3> QED
      BY <3>1, <2>1, <2>2 DEF IInv, DraftsFresh, Payloads
  <2>5. \A q \in Points : shown[q] <= changes'[q]
    BY <2>1, <2>2 DEF IInv, DraftsFresh
  <2> QED
    BY <2>1, <2>3, <2>4, <2>5 DEF IInv, DraftsFresh
<1>4. CASE Cancel
  <2>1. TypeOK'
    BY <1>4 DEF Cancel, points, IInv, TypeOK, LeavePoll, Closing
  <2>2. DraftsFresh'
    BY <1>4, FreshKept DEF Cancel, points
  <2>3. TasksInStep'
    BY <1>4 DEF Cancel, IInv, TasksInStep, LeavePoll, LoopFree, Publishers, Serving, Closing
  <2> QED
    BY <2>1, <2>2, <2>3 DEF IInv
<1> QED
  BY <1>1, <1>2, <1>3, <1>4 DEF Environment

\* Handing a payload over shows a state no older than the one shown before.
LEMMA HandOverFresh ==
  ASSUME IInv, NEW w \in Publishers, HandOver(w)
  PROVE  /\ DraftsFresh'
         /\ draft' \in [Publishers -> SUBSET Payloads] /\ LoopFree'
         /\ shown' \in [Points -> 0 .. MaxChanges] /\ link' \in BOOLEAN
         /\ \A p \in Points : shown'[p] >= shown[p]
<1> USE BridgeAssumption
<1>1. PICK d \in draft[w] :
        \/ shown' = [shown EXCEPT ![d.point] = d.age] /\ link' = link
        \/ shown' = shown /\ link' = FALSE
  BY DEF HandOver, Delivered
<1>2. d \in Payloads /\ d.point \in Points /\ d.age \in 0 .. MaxChanges
  BY DEF IInv, TypeOK, Payloads
<1>3. /\ draft \in [Publishers -> SUBSET Payloads]
      /\ changes \in [Points -> 0 .. MaxChanges] /\ shown \in [Points -> 0 .. MaxChanges]
      /\ link \in BOOLEAN
  BY DEF IInv, TypeOK
<1>4. /\ shown[d.point] <= d.age /\ d.age <= changes[d.point]
      /\ \A p \in Points : shown[p] <= changes[p]
      /\ draft["handler"] = {} \/ draft["poll"] = {}
  BY DEF IInv, DraftsFresh
<1>5. /\ shown' \in [Points -> 0 .. MaxChanges] /\ link' \in BOOLEAN
      /\ \A p \in Points : shown'[p] >= shown[p] /\ shown'[p] <= changes[p]
  <2>1. CASE shown' = [shown EXCEPT ![d.point] = d.age] /\ link' = link
    <3>1. shown' \in [Points -> 0 .. MaxChanges]
      BY <2>1, <1>2, <1>3
    <3>2. \A p \in Points : shown'[p] = IF p = d.point THEN d.age ELSE shown[p]
      BY <2>1, <1>2, <1>3
    <3> QED
      BY <2>1, <3>1, <3>2, <1>2, <1>3, <1>4
  <2>2. CASE shown' = shown /\ link' = FALSE
    <3>1. \A p \in Points : shown[p] >= shown[p]
      BY <1>3
    <3> QED
      BY <2>2, <1>3, <1>4, <3>1
  <2> QED
    BY <1>1, <2>1, <2>2
<1>6. draft' = [draft EXCEPT ![w] = {}] /\ UNCHANGED changes
  BY DEF HandOver
<1>7. draft'["handler"] = {} /\ draft'["poll"] = {}
  BY <1>1, <1>3, <1>4, <1>6 DEF Publishers
<1>8. draft' \in [Publishers -> SUBSET Payloads] /\ LoopFree'
  BY <1>3, <1>6, <1>7 DEF Publishers, LoopFree
<1>9. DraftsFresh'
  BY <1>5, <1>6, <1>7 DEF DraftsFresh, Publishers
<1> QED
  BY <1>5, <1>8, <1>9

LEMMA SessionIInv ==
  ASSUME IInv,
         \/ Start \/ ConnectSucceeds \/ Announce \/ Describe \/ Subscribe \/ SetUpFails
         \/ NoticeDisconnection \/ FinishClosing \/ Reconnect
  PROVE  IInv'
<1> USE BridgeAssumption
<1>1. TypeOK'
  <2>1. CASE Start \/ Announce \/ Describe \/ Subscribe
    BY <2>1 DEF Start, Announce, Describe, Subscribe, IInv, TypeOK, SettingUp, Serving, points
  <2>2. CASE ConnectSucceeds
    <3>1. session' \in 0 .. MaxSessions
      BY <2>2 DEF ConnectSucceeds, IInv, TypeOK
    <3> QED
      BY <2>2, <3>1 DEF ConnectSucceeds, IInv, TypeOK, SettingUp, points
  <2>3. CASE SetUpFails \/ NoticeDisconnection \/ FinishClosing \/ Reconnect
    BY <2>3 DEF SetUpFails, NoticeDisconnection, FinishClosing, LeavePoll, Reconnect, IInv,
       TypeOK, Closing, points
  <2> QED
    BY <2>1, <2>2, <2>3
<1>2. DraftsFresh'
  <2>1. UNCHANGED <<draft, changes, shown>>
    BY DEF Start, ConnectSucceeds, Announce, Describe, Subscribe, SetUpFails,
       NoticeDisconnection, FinishClosing, Reconnect, points
  <2> QED
    BY <2>1, FreshKept
<1>3. TasksInStep'
  <2>1. CASE Start \/ ConnectSucceeds \/ Announce \/ Describe
    BY <2>1 DEF Start, ConnectSucceeds, Announce, Describe, IInv, TasksInStep, LoopFree,
       SettingUp, Serving, Closing
  <2>2. CASE Subscribe
    BY <2>2 DEF Subscribe, IInv, TasksInStep, LoopFree, Publishers, SettingUp, Serving, Closing
  <2>3. CASE SetUpFails \/ Reconnect
    BY <2>3 DEF SetUpFails, Reconnect, IInv, TasksInStep, LoopFree, SettingUp, Serving, Closing
  <2>4. CASE NoticeDisconnection \/ FinishClosing
    BY <2>4 DEF NoticeDisconnection, FinishClosing, LeavePoll, IInv, TasksInStep, LoopFree,
       Publishers, Serving, Closing
  <2> QED
    BY <2>1, <2>2, <2>3, <2>4
<1> QED
  BY <1>1, <1>2, <1>3 DEF IInv

LEMMA HandleIInv == IInv /\ Handle => IInv'
<1> SUFFICES ASSUME IInv, Handle PROVE IInv'
  OBVIOUS
<1> USE BridgeAssumption
<1>1. CASE Ignore
  <2>1. TypeOK'
    BY <1>1 DEF Ignore, Take, IInv, TypeOK
  <2>2. DraftsFresh' /\ TasksInStep'
    BY <1>1, FreshKept DEF Ignore, Take, IInv, TasksInStep, LoopFree
  <2> QED
    BY <2>1, <2>2 DEF IInv
<1>2. CASE Apply
  <2>1. PICK p \in Points : p = Head(queue)
    BY <1>2 DEF Apply, Take, IInv, TypeOK
  <2>2. /\ changes \in [Points -> 0 .. MaxChanges] /\ shown \in [Points -> 0 .. MaxChanges]
        /\ draft \in [Publishers -> SUBSET Payloads]
        /\ pc = "waiting" /\ pc' = "sending" /\ LoopFree
        /\ UNCHANGED <<poll, todo, link, session, received, shown, bridgeState, cancelled>>
    BY <1>2 DEF Apply, Take, IInv, TypeOK
  <2>3. /\ changes' \in [Points -> 0 .. MaxChanges]
        /\ \A q \in Points : changes[q] <= changes'[q]
    BY <1>2, <2>1, <2>2 DEF Apply
  <2>4. draft' = [draft EXCEPT !["handler"] = {[point |-> p, age |-> changes'[p]]}]
    BY <1>2, <2>1 DEF Apply
  <2>5. draft'["handler"] = {[point |-> p, age |-> changes'[p]]} /\ draft'["poll"] = {}
    BY <2>2, <2>4 DEF LoopFree, Publishers
  <2>6. queue' \in Seq(Points \cup {"other"})
    BY <1>2 DEF Apply, Take, IInv, TypeOK
  <2>7. draft' \in [Publishers -> SUBSET Payloads]
    <3>1. {[point |-> p, age |-> changes'[p]]} \in SUBSET Payloads
      BY <2>3 DEF Payloads
    <3> QED
      BY <2>2, <2>4, <3>1
  <2>8. TypeOK'
    BY <2>2, <2>3, <2>6, <2>7 DEF IInv, TypeOK, Serving
  <2>9. \A q \in Points : shown[q] <= changes'[q]
    BY <2>2, <2>3 DEF IInv, DraftsFresh
  <2>10. DraftsFresh'
    <3>1. shown'[p] <= changes'[p] /\ changes'[p] <= changes'[p]
      BY <2>2, <2>3, <2>9
    <3>2. \A w \in Publishers : \A d \in draft'[w] : d.point = p /\ d.age = changes'[p]
      BY <2>5 DEF Publishers
    <3> QED
      BY <2>2, <2>5, <2>9, <3>1, <3>2 DEF DraftsFresh
  <2>11. TasksInStep'
    BY <2>2, <2>5 DEF IInv, TasksInStep, DraftsFresh, LoopFree, Publishers, Serving, Closing
  <2> QED
    BY <2>8, <2>10, <2>11 DEF IInv
<1>3. CASE SendSet
  <2>1. /\ pc = "sending" /\ pc' = "publishing"
        /\ UNCHANGED <<poll, todo, session, queue, received, changes, bridgeState, cancelled>>
    BY <1>3 DEF SendSet, HandOver
  <2>2. /\ DraftsFresh'
        /\ draft' \in [Publishers -> SUBSET Payloads] /\ LoopFree'
        /\ shown' \in [Points -> 0 .. MaxChanges] /\ link' \in BOOLEAN
    BY <1>3, HandOverFresh DEF SendSet, Publishers
  <2>3. TypeOK'
    BY <2>1, <2>2 DEF IInv, TypeOK, Serving
  <2>4. TasksInStep'
    <3>1. draft'["handler"] = {} /\ draft'["poll"] = {}
      BY <2>2 DEF LoopFree, Publishers
    <3>2. draft["handler"] = {} \/ draft["poll"] = {}
      BY DEF IInv, DraftsFresh
    <3> QED
      BY <2>1, <2>2, <3>1, <3>2 DEF IInv, TasksInStep, Serving, Closing
  <2> QED
    BY <2>2, <2>3, <2>4 DEF IInv
<1>4. CASE SetPublished
  <2>1. TypeOK'
    BY <1>4 DEF SetPublished, AfterPublish, IInv, TypeOK, points, Serving
  <2>2. DraftsFresh'
    BY <1>4, FreshKept DEF SetPublished, points
  <2>3. TasksInStep'
    BY <1>4 DEF SetPublished, AfterPublish, IInv, TasksInStep, LoopFree, Publishers, Serving,
       Closing
  <2> QED
    BY <2>1, <2>2, <2>3 DEF IInv
<1> QED
  BY <1>1, <1>2, <1>3, <1>4, SessionIInv DEF Handle

LEMMA PollIInv == IInv /\ Poll => IInv'
<1> SUFFICES ASSUME IInv, Poll PROVE IInv'
  OBVIOUS
<1> USE BridgeAssumption
<1>1. CASE PollWakes \/ PollFails \/ PollPublished \/ PollSleeps
  <2>1. TypeOK'
    BY <1>1 DEF PollWakes, PollRound, PollFails, PollPublished, AfterPollPublish, PollSleeps,
       IInv, TypeOK, points
  <2>2. UNCHANGED <<pc, draft, changes, shown, cancelled>>
    BY <1>1 DEF PollWakes, PollFails, PollPublished, PollSleeps, points
  <2>3. DraftsFresh'
    BY <2>2, FreshKept
  <2>4. /\ poll' \notin {"none", "sending"} /\ pc \in Serving
        /\ poll # "sending"
    BY <1>1 DEF PollWakes, PollFails, MayBuild, PollPublished, AfterPollPublish, PollSleeps
  <2>5. TasksInStep'
    BY <2>2, <2>4 DEF IInv, TasksInStep, LoopFree, Publishers, Serving, Closing
  <2> QED
    BY <2>1, <2>3, <2>5 DEF IInv
<1>2. ASSUME NEW p \in Points, PollBuilds(p) PROVE IInv'
  <2>1. /\ changes \in [Points -> 0 .. MaxChanges] /\ shown \in [Points -> 0 .. MaxChanges]
        /\ draft \in [Publishers -> SUBSET Payloads]
        /\ poll = "round" /\ poll' = "sending" /\ todo' = todo \ {p}
        /\ pc \in Serving /\ LoopFree
        /\ draft' = [draft EXCEPT !["poll"] = {[point |-> p, age |-> changes[p]]}]
        /\ UNCHANGED <<pc, link, session, queue, received, changes, shown, bridgeState, cancelled>>
    BY <1>2 DEF PollBuilds, MayBuild, State, points, IInv, TypeOK
  <2>2. draft'["handler"] = {} /\ draft'["poll"] = {[point |-> p, age |-> changes[p]]}
    BY <2>1 DEF LoopFree, Publishers
  <2>3. draft' \in [Publishers -> SUBSET Payloads]
    <3>1. {[point |-> p, age |-> changes[p]]} \in SUBSET Payloads
      BY <2>1 DEF Payloads
    <3> QED
      BY <2>1, <3>1
  <2>4. TypeOK'
    BY <2>1, <2>3 DEF IInv, TypeOK
  <2>5. DraftsFresh'
    BY <2>1, <2>2 DEF IInv, DraftsFresh, Publishers
  <2>6. pc # "sending"
    BY <2>1 DEF IInv, TasksInStep, LoopFree, Publishers
  <2>7. TasksInStep'
    BY <2>1, <2>2, <2>6 DEF IInv, TasksInStep, LoopFree, Publishers, Serving, Closing
  <2> QED
    BY <2>4, <2>5, <2>7 DEF IInv
<1>3. CASE PollSends
  <2>1. /\ poll = "sending" /\ poll' = "publishing"
        /\ UNCHANGED <<pc, todo, session, queue, received, changes, bridgeState, cancelled>>
    BY <1>3 DEF PollSends, HandOver
  <2>2. /\ DraftsFresh'
        /\ draft' \in [Publishers -> SUBSET Payloads] /\ LoopFree'
        /\ shown' \in [Points -> 0 .. MaxChanges] /\ link' \in BOOLEAN
    BY <1>3, HandOverFresh DEF PollSends, Publishers
  <2>3. TypeOK'
    BY <2>1, <2>2 DEF IInv, TypeOK
  <2>4. TasksInStep'
    <3>1. draft'["handler"] = {} /\ draft'["poll"] = {}
      BY <2>2 DEF LoopFree, Publishers
    <3>2. draft["handler"] = {} \/ draft["poll"] = {}
      BY DEF IInv, DraftsFresh
    <3> QED
      BY <2>1, <2>2, <3>1, <3>2 DEF IInv, TasksInStep, Serving, Closing
  <2> QED
    BY <2>2, <2>3, <2>4 DEF IInv
<1> QED
  BY <1>1, <1>2, <1>3 DEF Poll

LEMMA NextIInv == IInv /\ [Next]_vars => IInv'
<1> SUFFICES ASSUME IInv, [Next]_vars PROVE IInv'
  OBVIOUS
<1>1. CASE UNCHANGED vars
  BY <1>1 DEF vars, IInv, TypeOK, DraftsFresh, TasksInStep, LoopFree
<1> QED
  BY <1>1, EnvironmentIInv, HandleIInv, PollIInv DEF Next

-----------------------------------------------------------------------------
(* Theorems *)

\* The invariant on which the theorems rest.
THEOREM BridgeInvariant == Spec => []IInv
  BY InitIInv, NextIInv, PTL DEF Spec

\* The bridge's variables have their types: the poll loop, for one, never returns
\* (mqtt_bridge.py:188-317).
THEOREM BridgeTypes == Spec => []TypeOK
<1>1. IInv => TypeOK
  BY DEF IInv
<1> QED
  BY <1>1, BridgeInvariant, PTL

\* Neither task shows an older state after a newer one (mqtt_bridge.py:280-287, 308-315).
THEOREM StatesNeverGoBackward == Spec => StatesNeverGoBack
<1>1. ASSUME IInv, [Next]_vars
      PROVE  \A p \in Points : shown'[p] >= shown[p]
  <2>1. CASE SendSet \/ PollSends
    BY <1>1, <2>1, HandOverFresh DEF SendSet, PollSends, Publishers
  <2>2. CASE UNCHANGED shown
    BY <1>1, <2>2 DEF IInv, TypeOK
  <2>3. SendSet \/ PollSends \/ UNCHANGED shown
    BY <1>1 DEF vars, points, Next, Environment, Arrive, LinkDrops, OtherWrite, Cancel, Handle,
       Start, ConnectSucceeds, Announce, Describe, Subscribe, SetUpFails, NoticeDisconnection,
       FinishClosing, Reconnect, Ignore, Apply, Take, SetPublished, Poll, PollWakes,
       PollBuilds, PollFails, PollPublished, PollSleeps
  <2> QED
    BY <2>1, <2>2, <2>3
<1>2. IInv /\ [Next]_vars => [\A p \in Points : shown'[p] >= shown[p]]_vars
  BY <1>1
<1> QED
  BY <1>2, BridgeInvariant, PTL DEF Spec, StatesNeverGoBack

\* A session is left with messages in its queue only to stop (mqtt_bridge.py:273-289).
THEOREM SetsNeverDropped == Spec => NoSetDropped
<1>1. ASSUME IInv, [Next]_vars, pc \in Serving, queue # <<>>, ~cancelled'
      PROVE  pc' \in Serving
  <2>1. CASE UNCHANGED pc
    BY <1>1, <2>1
  <2>2. CASE Apply \/ SendSet \/ SetPublished
    BY <2>2 DEF Apply, SendSet, SetPublished, AfterPublish, Serving
  <2>3. UNCHANGED pc \/ Apply \/ SendSet \/ SetPublished
    BY <1>1 DEF vars, points, Next, Environment, Arrive, LinkDrops, OtherWrite, Cancel, Handle,
       Start, ConnectSucceeds, Announce, Describe, Subscribe, SetUpFails, NoticeDisconnection,
       FinishClosing, Reconnect, Ignore, Poll, PollWakes, PollBuilds, PollFails, PollSends,
       PollPublished, PollSleeps, SettingUp, Serving, Closing
  <2> QED
    BY <2>1, <2>2, <2>3
<1>2. IInv /\ [Next]_vars =>
        [(pc \in Serving /\ queue # <<>> /\ ~cancelled') => pc' \in Serving]_vars
  BY <1>1
<1> QED
  BY <1>2, BridgeInvariant, PTL DEF Spec, NoSetDropped

Current(p) == shown[p] = changes[p]

\* Whatever the two tasks still hold and however its publishes fail, a point that the
\* broker was shown as it is stays so until it changes.
LEMMA CurrentKept ==
  ASSUME IInv, [Next]_vars, NEW p \in Points, Current(p), changes'[p] = changes[p]
  PROVE  Current(p)'
<1>1. IInv'
  BY NextIInv
<1>2. shown'[p] <= changes'[p]
  BY <1>1 DEF IInv, DraftsFresh
<1>3. shown'[p] >= shown[p]
  <2>1. CASE SendSet \/ PollSends
    BY <2>1, HandOverFresh DEF SendSet, PollSends, Publishers
  <2>2. CASE UNCHANGED shown
    BY <2>2 DEF IInv, TypeOK
  <2>3. SendSet \/ PollSends \/ UNCHANGED shown
    BY DEF vars, points, Next, Environment, Arrive, LinkDrops, OtherWrite, Cancel, Handle,
       Start, ConnectSucceeds, Announce, Describe, Subscribe, SetUpFails, NoticeDisconnection,
       FinishClosing, Reconnect, Ignore, Apply, Take, SetPublished, Poll, PollWakes,
       PollBuilds, PollFails, PollPublished, PollSleeps
  <2> QED
    BY <2>1, <2>2, <2>3
<1>4. shown[p] \in Int /\ shown'[p] \in Int /\ changes[p] \in Int
  BY <1>1 DEF IInv, TypeOK
<1> QED
  BY <1>2, <1>3, <1>4 DEF Current

\* Of a point that no longer changes it is enough that one publish gets through: from then
\* on the broker has its state, for all that is published of it later, by either task and
\* in any session (mqtt_bridge.py:280-287, 308-315).
THEOREM ShownOnceSuffices ==
  ASSUME NEW p \in Points
  PROVE  Spec /\ <>([][changes'[p] = changes[p]]_vars /\ <>Current(p)) => <>[]Current(p)
<1>1. IInv /\ [Next]_vars /\ [changes'[p] = changes[p]]_vars /\ Current(p) => Current(p)'
  <2> SUFFICES ASSUME IInv, [Next]_vars, [changes'[p] = changes[p]]_vars, Current(p)
               PROVE  Current(p)'
    OBVIOUS
  <2>1. changes'[p] = changes[p]
    BY DEF vars
  <2> QED
    BY <2>1, CurrentKept
<1> QED
  BY <1>1, BridgeInvariant, PTL DEF Spec

-----------------------------------------------------------------------------
(* Poll rounds *)

InRound == {"round", "sending", "publishing"}

\* Outside a round nothing is left to publish, so that a session inherits no round; and the
\* poll task holds one payload at the most.
RoundInv ==
  /\ poll \notin InRound => todo = {}
  /\ \A d, e \in draft["poll"] : d = e

LEMMA RoundInvKept == ASSUME IInv, RoundInv, [Next]_vars PROVE RoundInv'
<1>1. CASE UNCHANGED <<poll, todo, draft["poll"]>>
  BY <1>1 DEF RoundInv
<1>2. CASE LeavePoll /\ UNCHANGED draft
  BY <1>2 DEF LeavePoll, RoundInv
<1>3. CASE Subscribe
  BY <1>3 DEF Subscribe, IInv, TasksInStep, RoundInv, InRound, Serving, Closing
<1>4. CASE PollWakes \/ PollFails \/ PollPublished \/ PollSleeps
  BY <1>4 DEF PollWakes, PollFails, PollPublished, AfterPollPublish, PollSleeps, RoundInv,
     InRound
<1>5. CASE PollSends
  BY <1>5 DEF PollSends, HandOver, RoundInv, InRound, IInv, TypeOK, Publishers
<1>6. ASSUME NEW p \in Points, PollBuilds(p) PROVE RoundInv'
  BY <1>6 DEF PollBuilds, RoundInv, InRound, IInv, TypeOK, Publishers
<1>7. UNCHANGED <<poll, todo, draft["poll"]>> \/ (LeavePoll /\ UNCHANGED draft) \/ Subscribe \/ Poll
  BY DEF vars, Next, Environment, Arrive, LinkDrops, OtherWrite, Cancel, Handle, Start,
     ConnectSucceeds, Announce, Describe, SetUpFails, NoticeDisconnection, FinishClosing,
     Reconnect, Ignore, Apply, Take, SendSet, HandOver, SetPublished, IInv, TypeOK, Publishers
<1> QED
  BY <1>1, <1>2, <1>3, <1>4, <1>5, <1>6, <1>7 DEF Poll

LEMMA RoundInvariant == Spec => [](IInv /\ RoundInv)
<1>1. Init => RoundInv
  BY DEF Init, RoundInv, Publishers
<1>2. IInv /\ RoundInv /\ [Next]_vars => RoundInv'
  BY RoundInvKept
<1> QED
  BY <1>1, <1>2, BridgeInvariant, PTL DEF Spec

\* The round under way will show the point as it is, or has.
Attended(p) == p \in todo \/ State(p) \in draft["poll"] \/ Current(p)

\* While the session lasts, a step keeps what the round owes to a point at rest.
LEMMA AttendedKept ==
  ASSUME IInv, RoundInv, [Next]_vars, PollAlive, PollAlive', NEW p \in Points,
         changes'[p] = changes[p], Attended(p)
  PROVE  Attended(p)'
<1>1. State(p)' = State(p)
  BY DEF State
<1>2. CASE Current(p)
  BY <1>2, CurrentKept DEF Attended
<1>3. CASE UNCHANGED <<todo, draft["poll"]>> /\ ~Current(p)
  BY <1>1, <1>3 DEF Attended
<1>4. CASE PollWakes
  BY <1>4 DEF PollWakes, PollRound, Attended
<1>5. ASSUME NEW q \in Points, PollBuilds(q), ~Current(p) PROVE Attended(p)'
  <2>1. /\ draft["poll"] = {} /\ todo' = todo \ {q}
        /\ draft'["poll"] = {State(q)}
    BY <1>5 DEF PollBuilds, MayBuild, LoopFree, Publishers, IInv, TypeOK
  <2> QED
    BY <1>1, <1>5, <2>1 DEF Attended
<1>6. CASE PollSends /\ ~Current(p)
  <2>1. link'
    BY DEF PollAlive
  <2>2. PICK payload \in draft["poll"] : shown' = [shown EXCEPT ![payload.point] = payload.age]
    BY <1>6, <2>1 DEF PollSends, HandOver, Delivered
  <2>3. CASE State(p) \in draft["poll"]
    <3>1. State(p) = payload
      BY <2>2, <2>3 DEF RoundInv
    <3> QED
      BY <2>2, <3>1, <1>1 DEF State, Attended, Current, IInv, TypeOK
  <2>4. CASE p \in todo
    BY <1>6, <2>4 DEF PollSends, Attended
  <2> QED
    BY <1>6, <2>3, <2>4 DEF Attended
<1>7. CASE PollFails \/ LeavePoll
  <2>1. TasksInStep'
    BY NextIInv DEF IInv
  <2> QED
    BY <1>7, <2>1 DEF PollFails, LeavePoll, PollAlive, TasksInStep
<1>8. \/ UNCHANGED <<todo, draft["poll"]>> \/ PollWakes \/ \E q \in Points : PollBuilds(q)
      \/ PollSends \/ PollFails \/ LeavePoll
  BY DEF vars, Next, Environment, Arrive, LinkDrops, OtherWrite, Cancel, Handle, Start,
     ConnectSucceeds, Announce, Describe, Subscribe, SetUpFails, NoticeDisconnection,
     FinishClosing, Reconnect, Ignore, Apply, Take, SendSet, HandOver, SetPublished, Poll,
     PollPublished, PollSleeps, IInv, TypeOK, Publishers
<1> QED
  BY <1>2, <1>3, <1>4, <1>5, <1>6, <1>7, <1>8

\* Asleep, or in a round that has seen to the point.
SeenTo(p) == poll = "sleeping" \/ Attended(p)

\* What a subscriber waits for comes with the rounds: if the session lasts and the poll task
\* goes on sleeping and waking, a point that has come to rest is shown as it is from some
\* moment on, whatever the handler publishes of it in between (mqtt_bridge.py:304-317).
THEOREM RoundsCatchUp ==
  ASSUME NEW p \in Points
  PROVE  Spec /\ <>[]PollAlive /\ RoundsGoOn /\ <>[][changes'[p] = changes[p]]_vars
         => <>[]Current(p)
<1> DEFINE Rest == changes'[p] = changes[p]
<1>1. ASSUME IInv, RoundInv, [Next]_vars, PollAlive, PollAlive', [Rest]_vars, SeenTo(p)
      PROVE  SeenTo(p)'
  <2>1. changes'[p] = changes[p]
    BY <1>1 DEF vars
  <2>2. CASE Attended(p)
    BY <1>1, <2>1, <2>2, AttendedKept DEF SeenTo
  <2>3. CASE poll = "sleeping" /\ poll' # "sleeping"
    <3>1. TasksInStep'
      BY <1>1, NextIInv DEF IInv
    <3>2. PollWakes
      BY <1>1, <2>3, <3>1 DEF vars, Next, Environment, Arrive, LinkDrops, OtherWrite, Cancel,
         Handle, Start, ConnectSucceeds, Announce, Describe, Subscribe, SetUpFails,
         NoticeDisconnection, FinishClosing, LeavePoll, Reconnect, Ignore, Apply, Take, SendSet,
         SetPublished, Poll, PollBuilds, PollFails, PollSends, PollPublished, PollSleeps,
         PollAlive, TasksInStep
    <3> QED
      BY <3>2 DEF PollWakes, PollRound, SeenTo, Attended
  <2> QED
    BY <1>1, <2>2, <2>3 DEF SeenTo
<1>2. ASSUME IInv, RoundInv, [Next]_vars, PollAlive, PollAlive', [Rest]_vars, Attended(p)
      PROVE  Attended(p)'
  <2>1. changes'[p] = changes[p]
    BY <1>2 DEF vars
  <2> QED
    BY <1>2, <2>1, AttendedKept
<1>3. IInv /\ RoundInv /\ poll = "sleeping" /\ Attended(p) => Current(p)
  BY DEF IInv, TasksInStep, RoundInv, InRound, Attended
<1>4. SeenTo(p) /\ poll = "round" => Attended(p)
  BY DEF SeenTo
<1>5. poll = "sleeping" => SeenTo(p)
  BY DEF SeenTo
<1>6. ASSUME IInv, [Next]_vars, [Rest]_vars, Current(p) PROVE Current(p)'
  <2>1. changes'[p] = changes[p]
    BY <1>6 DEF vars
  <2> QED
    BY <1>6, <2>1, CurrentKept
<1> QED
  <2> HIDE DEF Rest
  <2>1. IInv /\ RoundInv /\ [Next]_vars /\ PollAlive /\ PollAlive' /\ [Rest]_vars /\ SeenTo(p)
          => SeenTo(p)'
    BY <1>1
  <2>2. IInv /\ RoundInv /\ [Next]_vars /\ PollAlive /\ PollAlive' /\ [Rest]_vars /\ Attended(p)
          => Attended(p)'
    BY <1>2
  <2>3. IInv /\ [Next]_vars /\ [Rest]_vars /\ Current(p) => Current(p)'
    BY <1>6
  <2>4. Spec /\ <>[]PollAlive /\ <>[][Rest]_vars
           /\ []<>(poll = "sleeping") /\ []<>(poll = "round")
         => <>[]Current(p)
    BY <2>1, <2>2, <2>3, <1>3, <1>4, <1>5, RoundInvariant, PTL DEF Spec
  <2> QED
    BY <2>4 DEF Rest, RoundsGoOn

\* How far the poll task is from the end of its round: three steps for each point it has
\* still to publish, and what is left of the publish under way.
RoundLeft ==
  3 * Cardinality(todo)
    + (IF poll = "sending" THEN 2 ELSE IF poll = "publishing" THEN 1 ELSE 0)

\* What one step of the poll task does for its round.
RoundAdvances ==
  \/ poll = "sleeping" /\ poll' = "round" /\ todo' = Points
  \/ poll' \in InRound /\ RoundLeft' < RoundLeft
  \/ RoundLeft = 0 /\ poll' = "sleeping"

LEMMA PollAdvances ==
  ASSUME IsFiniteSet(Points), IInv, Poll, PollAlive'
  PROVE  RoundAdvances
<1>1. todo \subseteq Points
  BY DEF IInv, TypeOK
<1>2. IsFiniteSet(todo)
  BY <1>1, FS_Subset
<1>3. Cardinality(todo) \in Nat
  BY <1>2, FS_CardinalityType
<1>4. CASE PollWakes
  BY <1>4 DEF PollWakes, PollRound, RoundAdvances
<1>5. ASSUME NEW p \in Points, PollBuilds(p) PROVE RoundAdvances
  <2>1. p \in todo /\ todo' = todo \ {p} /\ poll = "round" /\ poll' = "sending"
    BY <1>5 DEF PollBuilds
  <2>2. Cardinality(todo') = Cardinality(todo) - 1
    BY <2>1, <1>2, FS_RemoveElement
  <2>3. RoundLeft = 3 * Cardinality(todo) /\ RoundLeft' = 3 * Cardinality(todo') + 2
    BY <2>1, <1>3, <2>2 DEF RoundLeft
  <2> QED
    BY <2>1, <2>2, <2>3, <1>3 DEF RoundAdvances, InRound
<1>6. CASE PollFails
  BY <1>6 DEF PollFails, PollAlive
<1>7. CASE PollSends
  <2>1. poll = "sending" /\ poll' = "publishing" /\ todo' = todo
    BY <1>7 DEF PollSends
  <2>2. RoundLeft = 3 * Cardinality(todo) + 2 /\ RoundLeft' = 3 * Cardinality(todo) + 1
    BY <2>1 DEF RoundLeft
  <2> QED
    BY <2>1, <2>2, <1>3 DEF RoundAdvances, InRound
<1>8. CASE PollPublished
  <2>1. poll = "publishing" /\ poll' = "round" /\ todo' = todo
    BY <1>8 DEF PollPublished, AfterPollPublish
  <2>2. RoundLeft = 3 * Cardinality(todo) + 1 /\ RoundLeft' = 3 * Cardinality(todo)
    BY <2>1, <1>3 DEF RoundLeft
  <2> QED
    BY <2>1, <2>2, <1>3 DEF RoundAdvances, InRound
<1>9. CASE PollSleeps
  <2>1. poll = "round" /\ poll' = "sleeping" /\ todo = {}
    BY <1>9 DEF PollSleeps
  <2>2. RoundLeft = 0
    BY <2>1, FS_EmptySet DEF RoundLeft
  <2> QED
    BY <2>1, <2>2 DEF RoundAdvances
<1> QED
  BY <1>4, <1>5, <1>6, <1>7, <1>8, <1>9 DEF Poll

\* While the session lasts and the poll task lives, each step of that task starts a round of
\* all points, brings it nearer to its end, or ends it with nothing left to publish; however
\* its publishes fail, none is repeated, and no /set message, drop of the link or write of a
\* point sets it back (mqtt_bridge.py:304-317).
THEOREM RoundsShorten ==
  ASSUME IsFiniteSet(Points)
  PROVE  /\ Spec => [](RoundLeft \in Nat)
         /\ Spec => [][PollAlive /\ PollAlive' =>
                         IF Poll THEN RoundAdvances ELSE UNCHANGED <<poll, todo>>]_vars
<1>1. IInv => RoundLeft \in Nat
  BY FS_Subset, FS_CardinalityType DEF IInv, TypeOK, RoundLeft
<1>2. ASSUME IInv, [Next]_vars, PollAlive, PollAlive', ~Poll PROVE UNCHANGED <<poll, todo>>
  BY <1>2 DEF vars, Next, Environment, Arrive, LinkDrops, OtherWrite, Cancel, Handle, Start,
     ConnectSucceeds, Announce, Describe, Subscribe, SetUpFails, NoticeDisconnection,
     FinishClosing, Reconnect, Ignore, Apply, Take, SendSet, SetPublished, PollAlive, Serving,
     Closing
<1>3. IInv /\ [Next]_vars =>
        [PollAlive /\ PollAlive' =>
           IF Poll THEN RoundAdvances ELSE UNCHANGED <<poll, todo>>]_vars
  BY <1>2, PollAdvances
<1> QED
  BY <1>1, <1>3, BridgeInvariant, PTL DEF Spec

-----------------------------------------------------------------------------
(* The bridge is a BrokerTask *)

taskView == <<Stage, PollStage, Swallowed>>

LEMMA TaskSteps == IInv /\ [Next]_vars => [Task!Next]_taskView
<1> SUFFICES ASSUME IInv, [Next]_vars PROVE Task!Next \/ taskView' = taskView
  BY DEF taskView
<1>1. CASE UNCHANGED <<pc, poll, cancelled>>
  BY <1>1 DEF taskView, Stage, PollStage, Swallowed
<1>2. CASE Cancel
  <2>1. CASE pc \in Serving
    BY <1>2, <2>1 DEF Cancel, IInv, TasksInStep, Task!Next, Task!Cancel, Stage, PollStage,
       Swallowed, SettingUp, Serving, Closing
  <2>2. CASE pc = "closing on error"
    BY <1>2, <2>2 DEF Cancel, LeavePoll, Task!Next, Task!Cancel, Task!SubEnded, Stage, PollStage, Swallowed,
       SettingUp, Serving, Closing
  <2>3. CASE pc \notin Serving \cup Closing \cup {"stopped"}
    BY <1>2, <2>3 DEF Cancel, IInv, TypeOK, TasksInStep, Task!Next, Task!Cancel,
       Task!CancelInBackoff, Stage, PollStage, Swallowed, SettingUp, Serving, Closing
  <2> QED
    BY <1>2, <2>1, <2>2, <2>3 DEF Cancel, Closing
<1>3. CASE Handle
  <2>1. CASE Start
    BY <2>1 DEF Start, Task!Next, Task!Proceed, Task!Start, Stage, PollStage, Swallowed,
       IInv, TypeOK, TasksInStep, SettingUp, Serving, Closing
  <2>2. CASE ConnectSucceeds
    BY <2>2 DEF ConnectSucceeds, Task!Next, Task!Proceed, Task!Connect, Stage, PollStage,
       Swallowed, SettingUp, Serving, Closing
  <2>3. CASE Announce \/ Describe
    <3>1. pc \in SettingUp /\ pc' \in SettingUp /\ UNCHANGED <<poll, cancelled>>
      BY <2>3 DEF Announce, Describe, SettingUp
    <3>2. Stage' = Stage
      BY <3>1 DEF Stage
    <3>3. PollStage' = PollStage /\ Swallowed' = Swallowed
      BY <3>1 DEF PollStage, Swallowed, SettingUp
    <3> QED
      BY <3>2, <3>3 DEF taskView
  <2>4. CASE Subscribe
    BY <2>4 DEF Subscribe, IInv, TasksInStep, Task!Next, Task!Proceed, Task!SetUp, Stage,
       PollStage, Swallowed, SettingUp, Serving, Closing
  <2>5. CASE SetUpFails
    BY <2>5 DEF SetUpFails, Task!Next, Task!Proceed, Task!Connect, Task!SetUp, Stage, PollStage,
       Swallowed, SettingUp, Serving, Closing
  <2>6. CASE NoticeDisconnection
    BY <2>6 DEF NoticeDisconnection, IInv, TasksInStep, Task!Next, Task!Proceed,
       Task!SessionFails, Stage, PollStage, Swallowed, SettingUp, Serving, Closing
  <2>7. CASE FinishClosing
    BY <2>7 DEF FinishClosing, LeavePoll, IInv, TypeOK, TasksInStep, Task!Next, Task!Proceed,
       Task!FinishClosing, Task!SubEnded, Stage, PollStage, Swallowed, SettingUp, Serving, Closing
  <2>8. CASE Reconnect
    BY <2>8 DEF Reconnect, Task!Next, Task!Proceed, Task!BackoffEnds, Stage, PollStage,
       Swallowed, SettingUp, Serving, Closing
  <2>9. CASE Ignore \/ Apply \/ SendSet \/ SetPublished
    <3>1. pc \in Serving /\ pc' \in Serving /\ UNCHANGED <<poll, cancelled>>
      BY <2>9 DEF Ignore, Take, Apply, SendSet, HandOver, SetPublished, AfterPublish, Serving
    <3>2. Stage' = Stage
      BY <3>1 DEF Stage, SettingUp, Serving
    <3>3. PollStage' = PollStage /\ Swallowed' = Swallowed
      BY <3>1 DEF PollStage, Swallowed, Serving
    <3> QED
      BY <3>2, <3>3 DEF taskView
  <2> QED
    BY <1>3, <2>1, <2>2, <2>3, <2>4, <2>5, <2>6, <2>7, <2>8, <2>9 DEF Handle
<1>4. CASE Poll
  <2>1. CASE PollFails
    BY <2>1 DEF PollFails, MayBuild, Task!Next, Task!Proceed, Task!SubFails, Stage, PollStage,
       Swallowed, SettingUp, Serving, Closing
  <2>2. CASE PollWakes \/ PollSends \/ PollPublished \/ PollSleeps
    <3>1. /\ poll \notin {"none", "failed"} /\ poll' \notin {"none", "failed"}
          /\ UNCHANGED <<pc, cancelled>>
      BY <2>2 DEF PollWakes, PollSends, HandOver, PollPublished, AfterPollPublish, PollSleeps
    <3>2. PollStage' = PollStage
      BY <3>1 DEF PollStage
    <3>3. Stage' = Stage /\ Swallowed' = Swallowed
      BY <3>1 DEF Stage, Swallowed
    <3> QED
      BY <3>2, <3>3 DEF taskView
  <2>3. ASSUME NEW p \in Points, PollBuilds(p) PROVE taskView' = taskView
    BY <2>3 DEF PollBuilds, taskView, Stage, PollStage, Swallowed
  <2> QED
    BY <1>4, <2>1, <2>2, <2>3 DEF Poll
<1> QED
  BY <1>1, <1>2, <1>3, <1>4 DEF Next, vars, Environment, Arrive, LinkDrops, OtherWrite

\* The bridge does as main takes it to: it may be cancelled wherever it is suspended,
\* and its poll task ends with its session (mqtt_bridge.py:237-301, main.py:110-115).
THEOREM BridgeIsTask == Spec => TaskSpec
<1>1. Init => Task!Init
  BY DEF Init, Task!Init, Stage, PollStage, Swallowed, SettingUp, Serving
<1> QED
  BY <1>1, TaskSteps, BridgeInvariant, PTL DEF Spec, TaskSpec, Task!Spec, Task!taskVars, taskView

=============================================================================

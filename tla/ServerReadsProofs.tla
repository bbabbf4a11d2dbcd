------------------------- MODULE ServerReadsProofs -------------------------
(***************************************************************************)
(* For any number of threads, points and schedules: what a call on the     *)
(* event loop reports of commandable points held at one moment, no report  *)
(* of a schedule goes back in time, and the present value of a schedule is *)
(* stale only after updates that overlapped.                               *)
(***************************************************************************)
EXTENDS ServerReads, TLAPS

Fields == {"weekly", "present", "default"}

\* A call that has ended left nothing behind.
IdleClean ==
  \A c \in Callers :
    /\ pc[c] = "idle" => sched[c] = None /\ mine[c] = 0 /\ hold[c] = 0 /\ report[c] = Unread
    /\ pc[c] \notin {"points", "return"} => seen[c] = [p \in Points |-> None]

\* While a coroutine reads the points, the commandable ones stand still.
StandStill ==
  \A c \in Coroutines : pc[c] = "points" =>
    \A p \in CommandableNames \cap Points : began[c][p] = pv[p]

\* No property of a schedule, and nothing a call has read of one, is ahead of its default.
Ahead(x, s) == x # None /\ x # Foreign /\ x > default[s]

NeverAhead ==
  /\ \A s \in Schedules : ~Ahead(weekly[s], s) /\ ~Ahead(present[s], s)
  /\ \A c \in Callers : sched[c] \in Schedules =>
       /\ ~Ahead(mine[c], sched[c]) /\ ~Ahead(hold[c], sched[c])
       /\ ~Ahead(report[c].weekly, sched[c]) /\ ~Ahead(report[c].present, sched[c])

\* How far a call's report has come.
ReadInOrder ==
  \A c \in Callers :
    /\ pc[c] \notin {"idle", "points", "return"} => sched[c] \in Schedules
    /\ pc[c] \notin {"second", "third", "return"} => report[c] = Unread
    /\ pc[c] \in {"second", "third"} => report[c].default = None
    /\ pc[c] \in {"second", "third"} => report[c].weekly # None
    /\ pc[c] = "third" => report[c].present # None
    /\ report[c].default # Foreign

\* Once the default is read, the report does not go back.
Forward ==
  \A c \in Callers :
    report[c].default # None =>
      /\ report[c].weekly # Foreign => report[c].weekly <= report[c].default
      /\ report[c].present # Foreign => report[c].present <= report[c].default

\* One update at a time, with the default as it read it.
Alone ==
  /\ \A c, d \in Callers : \A s \in Schedules \ clash :
       Updating(c, s) /\ Updating(d, s) => c = d
  /\ \A c \in Callers : pc[c] = "copy" /\ sched[c] \notin clash => hold[c] = default[sched[c]]

ReadInv == TypeOK /\ IdleClean /\ StandStill /\ LoopSnapshotConsistent
           /\ ReadInOrder /\ NeverAhead /\ Forward

IInv == ReadInv /\ Alone /\ PresentFollowsDefault

LEMMA InitIInv == Init => IInv
<1> SUFFICES ASSUME Init PROVE IInv
  OBVIOUS
<1>1. TypeOK
  BY ReadsAssumption DEF Init, TypeOK, Stages, Unread, Store!Init
<1>2. IdleClean /\ StandStill /\ LoopSnapshotConsistent
  BY DEF Init, IdleClean, StandStill, LoopSnapshotConsistent, Callers
<1>3. ReadInOrder /\ Forward
  BY ReadsAssumption DEF Init, ReadInOrder, Forward, Unread
<1>4. NeverAhead
  BY ReadsAssumption DEF Init, NeverAhead, Ahead, Unread
<1>5. Alone /\ PresentFollowsDefault
  BY DEF Init, Alone, Updating, PresentFollowsDefault
<1> QED
  BY <1>1, <1>2, <1>3, <1>4, <1>5 DEF IInv, ReadInv

\* Reading a property of a schedule gives a count or Foreign.
LEMMA CellType ==
  ASSUME TypeOK, NEW s \in Schedules, NEW field \in Fields
  PROVE  /\ Cell(field, s) \in Nat \cup {Foreign}
         /\ field = "default" => Cell(field, s) \in Nat
<1>1. field = "weekly" \/ field = "present" \/ field = "default"
  BY DEF Fields
<1> QED
  BY <1>1 DEF Cell, TypeOK

\* One field of one report changes, the caller goes on to the next stage.
LEMMA ReadFieldEffect ==
  ASSUME TypeOK, NEW c \in Callers, NEW stage \in DOMAIN FieldAt, ReadField(c, stage)
  PROVE  /\ report'[c] = [report[c] EXCEPT ![FieldAt[stage]] = Cell(FieldAt[stage], sched[c])]
         /\ report' = [report EXCEPT ![c] = report'[c]]
         /\ pc' = [pc EXCEPT ![c] = After[stage]]
         /\ pc[c] = stage
         /\ FieldAt[stage] \in Fields
         /\ UNCHANGED <<points, default, weekly, present, sched, part, mine, hold, clash, calls>>
BY DEF ReadField, GoTo, FieldAt, Fields, TypeOK

-----------------------------------------------------------------------------
(* Types *)

LEMMA NextTypeOK == TypeOK /\ ReadInOrder /\ [Next]_vars => TypeOK'
<1> SUFFICES ASSUME TypeOK, ReadInOrder, [Next]_vars PROVE TypeOK'
  OBVIOUS
<1> USE ReadsAssumption
<1>1. ASSUME NEW c \in Callers, NEW selection \in SUBSET Points, ReadPoints(c, selection)
      PROVE  TypeOK'
  BY <1>1 DEF ReadPoints, Call, schedules, TypeOK, Stages
<1>2. ASSUME NEW c \in Callers, NEW p \in Points, ReadPoint(c, p) PROVE TypeOK'
  BY <1>2 DEF ReadPoint, schedules, TypeOK, Stages
<1>3. ASSUME NEW c \in Callers, PointsRead(c) PROVE TypeOK'
  <2>1. report[c] = Unread
    BY <1>3 DEF PointsRead, ReadInOrder
  <2> QED
    BY <1>3, <2>1 DEF PointsRead, GoTo, points, schedules, TypeOK, Stages
<1>4. ASSUME NEW c \in Callers, NEW s \in Schedules, ReadSchedule(c, s) PROVE TypeOK'
  BY <1>4 DEF ReadSchedule, Call, points, TypeOK, Stages
<1>5. ASSUME NEW c \in Callers, NEW stage \in DOMAIN FieldAt, ReadField(c, stage)
      PROVE  TypeOK'
  <2>1. stage \in {"first", "second", "third"}
    BY DEF FieldAt
  <2>2. sched[c] \in Schedules
    BY <1>5, <2>1 DEF ReadField, ReadInOrder
  <2>3. /\ report'[c] = [report[c] EXCEPT ![FieldAt[stage]] = Cell(FieldAt[stage], sched[c])]
        /\ report' = [report EXCEPT ![c] = report'[c]]
        /\ pc' = [pc EXCEPT ![c] = After[stage]]
        /\ pc[c] = stage /\ FieldAt[stage] \in Fields
        /\ UNCHANGED <<points, default, weekly, present, sched, part, mine, hold, clash, calls>>
    BY <1>5, ReadFieldEffect
  <2>4. Cell(FieldAt[stage], sched[c]) \in Nat \cup {Foreign}
    BY <2>2, <2>3, CellType
  <2>5. report' \in [Callers -> [DOMAIN Unread -> Nat \cup {None, Foreign}]]
    <3>1. DOMAIN Unread = Fields
      BY DEF Unread, Fields
    <3>2. report \in [Callers -> [Fields -> Nat \cup {None, Foreign}]]
      BY <3>1 DEF TypeOK
    <3>3. report'[c] \in [Fields -> Nat \cup {None, Foreign}]
      BY <2>3, <2>4, <3>2
    <3> QED
      BY <2>3, <3>1, <3>2, <3>3
  <2>6. pc' \in [Callers -> Stages]
    BY <2>1, <2>3 DEF After, TypeOK, Stages
  <2>7. ASSUME NEW d \in Callers, pc'[d] = "return", report'[d] # Unread, NEW field \in DOMAIN Unread
        PROVE  report'[d][field] # None
    <3>1. CASE d # c
      BY <2>3, <2>7, <3>1 DEF TypeOK
    <3>2. CASE d = c
      <4>1. stage = "third"
        BY <2>1, <2>3, <2>7, <3>2 DEF After, TypeOK
      <4>2. report[c].weekly # None /\ report[c].present # None
        BY <2>3, <4>1 DEF ReadInOrder
      <4> QED
        BY <2>3, <2>4, <3>2, <4>1, <4>2 DEF TypeOK, Unread, FieldAt
    <3> QED
      BY <3>1, <3>2
  <2> QED
    BY <2>3, <2>5, <2>6, <2>7 DEF TypeOK, points
<1>6. ASSUME NEW c \in Callers, NEW s \in Schedules, NEW given \in SUBSET {"default", "weekly"},
             UpdateSchedule(c, s, given)
      PROVE  TypeOK'
  BY <1>6 DEF UpdateSchedule, Call, points, TypeOK, Stages
<1>7. ASSUME NEW c \in Callers, AssignDefault(c) PROVE TypeOK'
  <2>1. sched[c] \in Schedules
    BY <1>7 DEF AssignDefault, ReadInOrder
  <2>2. default' \in [Schedules -> Nat]
    BY <1>7, <2>1 DEF AssignDefault, TypeOK
  <2>3. mine' \in [Callers -> Nat]
    BY <1>7, <2>1, <2>2 DEF AssignDefault, TypeOK
  <2> QED
    BY <1>7, <2>2, <2>3 DEF AssignDefault, GoTo, points, TypeOK, Stages
<1>8. ASSUME NEW c \in Callers, AssignWeekly(c) PROVE TypeOK'
  <2>1. weekly' \in [Schedules -> Nat \cup {Foreign}]
    BY <1>8 DEF AssignWeekly, TypeOK
  <2> QED
    BY <1>8, <2>1 DEF AssignWeekly, GoTo, points, TypeOK, Stages
<1>9. ASSUME NEW c \in Callers, FetchDefault(c) PROVE TypeOK'
  <2>1. default[sched[c]] \in Nat
    BY <1>9 DEF FetchDefault, ReadInOrder, TypeOK
  <2> QED
    BY <1>9, <2>1 DEF FetchDefault, NewPresent, GoTo, points, TypeOK, Stages
<1>10. ASSUME NEW c \in Callers, CopyDefault(c) PROVE TypeOK'
  <2>1. present' \in [Schedules -> Nat \cup {Foreign}]
    BY <1>10 DEF CopyDefault, TypeOK
  <2> QED
    BY <1>10, <2>1 DEF CopyDefault, GoTo, points, TypeOK, Stages
<1>11. ASSUME NEW c \in Callers, Return(c) PROVE TypeOK'
  <2>1. Unread \in [DOMAIN Unread -> Nat \cup {None, Foreign}]
    BY DEF Unread
  <2>2. began' \in [Coroutines -> [Points -> Values \cup {None}]]
    BY <1>11 DEF Return, TypeOK
  <2> HIDE DEF Unread
  <2> QED
    BY <1>11, <2>1, <2>2 DEF Return, GoTo, TypeOK, Stages
<1>12. ASSUME NEW p \in Points, NEW v \in Values, PointChanges(p, v) PROVE TypeOK'
  BY <1>12 DEF PointChanges, Store!Change, schedules, TypeOK
<1>13. ASSUME NEW s \in Schedules, SetsPresent(s) \/ SetsWeekly(s) PROVE TypeOK'
  BY <1>13 DEF SetsPresent, SetsWeekly, points, TypeOK
<1>15. ASSUME NEW s \in Schedules, SetsDefault(s) PROVE TypeOK'
  <2>1. default' \in [Schedules -> Nat] /\ clash' \subseteq Schedules /\ calls' \in 0 .. MaxCalls
    BY <1>15 DEF SetsDefault, TypeOK
  <2> QED
    BY <1>15, <2>1 DEF SetsDefault, points, TypeOK
<1>16. ASSUME NEW c \in Callers, NEW p \in Points, ReadFails(c, p) PROVE TypeOK'
  BY <1>16 DEF ReadFails, schedules, TypeOK, Stages
<1>14. CASE UNCHANGED vars
  BY <1>14 DEF vars, TypeOK
<1> QED
  BY <1>1, <1>2, <1>3, <1>4, <1>5, <1>6, <1>7, <1>8, <1>9, <1>10, <1>11, <1>12, <1>13, <1>14,
     <1>15, <1>16 DEF Next, Step, Environment

-----------------------------------------------------------------------------
(* What a call on the event loop sees of the points *)

\* Only one call runs on the event loop, and StandStill needs no more than that
\* PointStore lets nothing change a commandable point meanwhile.
LEMMA PointChangeKeeps ==
  ASSUME TypeOK, StandStill, LoopSnapshotConsistent,
         NEW p \in Points, NEW v \in Values, PointChanges(p, v)
  PROVE  StandStill' /\ LoopSnapshotConsistent'
<1>1. /\ UNCHANGED <<pc, began, seen>>
      /\ pv' = [pv EXCEPT ![p] = v]
      /\ p \in CommandableNames => LoopFree
  BY DEF PointChanges, Store!Change
<1>2. ASSUME NEW c \in Coroutines, pc[c] = "points", NEW q \in CommandableNames \cap Points
      PROVE  began'[c][q] = pv'[q]
  <2>1. p # q
    BY <1>1, <1>2 DEF LoopFree
  <2> QED
    BY <1>1, <1>2, <2>1, ReadsAssumption DEF StandStill, TypeOK
<1> QED
  BY <1>1, <1>2 DEF StandStill, LoopSnapshotConsistent

LEMMA NextSnapshot ==
  TypeOK /\ IdleClean /\ StandStill /\ LoopSnapshotConsistent /\ [Next]_vars
    => StandStill' /\ LoopSnapshotConsistent'
<1> SUFFICES ASSUME TypeOK, IdleClean, StandStill, LoopSnapshotConsistent, [Next]_vars
             PROVE  StandStill' /\ LoopSnapshotConsistent'
  OBVIOUS
<1> USE ReadsAssumption DEF Callers
<1>1. ASSUME NEW c \in Callers, NEW selection \in SUBSET Points, ReadPoints(c, selection)
      PROVE  StandStill' /\ LoopSnapshotConsistent'
  <2>1. /\ pc[c] = "idle" /\ pc' = [pc EXCEPT ![c] = "points"]
        /\ began' = [d \in Coroutines |-> IF d = c THEN pv ELSE began[d]]
        /\ seen' = seen /\ pv' = pv
    BY <1>1 DEF ReadPoints, Call
  <2>2. \A p \in Points : seen[c][p] = None
    BY <2>1 DEF IdleClean
  <2> QED
    BY <2>1, <2>2 DEF StandStill, LoopSnapshotConsistent, TypeOK
<1>2. ASSUME NEW c \in Callers, NEW p \in Points, ReadPoint(c, p)
      PROVE  StandStill' /\ LoopSnapshotConsistent'
  <2>1. /\ pc[c] = "points" /\ UNCHANGED <<pc, pv, began>>
        /\ seen' = [seen EXCEPT ![c][p] = pv[p]]
    BY <1>2 DEF ReadPoint
  <2>2. StandStill'
    BY <2>1 DEF StandStill
  <2>3. ASSUME NEW d \in Coroutines, NEW q \in CommandableNames \cap Points, seen'[d][q] # None
        PROVE  seen'[d][q] = began[d][q]
    <3>1. CASE d = c /\ q = p
      BY <2>1, <3>1 DEF StandStill, TypeOK
    <3>2. CASE ~(d = c /\ q = p)
      BY <2>1, <2>3, <3>2 DEF LoopSnapshotConsistent, TypeOK
    <3> QED
      BY <3>1, <3>2
  <2> QED
    BY <2>1, <2>2, <2>3 DEF LoopSnapshotConsistent
<1>3. ASSUME NEW c \in Callers, Return(c)
      PROVE  StandStill' /\ LoopSnapshotConsistent'
  <2>1. /\ pc' = [pc EXCEPT ![c] = "idle"] /\ pv' = pv
        /\ seen' = [seen EXCEPT ![c] = [p \in Points |-> None]]
        /\ \A d \in Coroutines \ {c} : began'[d] = began[d]
    BY <1>3 DEF Return, GoTo
  <2> QED
    BY <2>1 DEF StandStill, LoopSnapshotConsistent, TypeOK
<1>4. ASSUME NEW p \in Points, NEW v \in Values, PointChanges(p, v)
      PROVE  StandStill' /\ LoopSnapshotConsistent'
  BY <1>4, PointChangeKeeps
<1>5. CASE \/ \E s \in Schedules : SetsPresent(s) \/ SetsWeekly(s) \/ SetsDefault(s)
           \/ \E c \in Callers, p \in Points : ReadFails(c, p)
           \/ UNCHANGED vars
  BY <1>5 DEF SetsPresent, SetsWeekly, SetsDefault, ReadFails, points, vars, StandStill, LoopSnapshotConsistent
<1>6. ASSUME NEW c \in Callers,
             \/ PointsRead(c)
             \/ \E s \in Schedules : ReadSchedule(c, s)
             \/ \E stage \in DOMAIN FieldAt : ReadField(c, stage)
             \/ \E s \in Schedules, given \in SUBSET {"default", "weekly"} :
                  UpdateSchedule(c, s, given)
             \/ AssignDefault(c) \/ AssignWeekly(c) \/ FetchDefault(c) \/ CopyDefault(c)
      PROVE  StandStill' /\ LoopSnapshotConsistent'
  <2>1. UNCHANGED <<pv, seen, began>>
    BY <1>6 DEF PointsRead, ReadSchedule, ReadField, UpdateSchedule, AssignDefault,
                AssignWeekly, FetchDefault, CopyDefault, points
  <2>2. \E stage \in Stages \ {"points"} : pc' = [pc EXCEPT ![c] = stage]
    BY <1>6 DEF PointsRead, ReadSchedule, ReadField, UpdateSchedule, AssignDefault,
                AssignWeekly, FetchDefault, CopyDefault, GoTo, Call, After, FieldAt, Stages
  <2> QED
    BY <2>1, <2>2 DEF StandStill, LoopSnapshotConsistent, TypeOK
<1> QED
  BY <1>1, <1>2, <1>3, <1>4, <1>5, <1>6 DEF Next, Step, Environment

\* A call that has ended left nothing behind.
LEMMA NextIdleClean == TypeOK /\ IdleClean /\ [Next]_vars => IdleClean'
<1> SUFFICES ASSUME TypeOK, IdleClean, [Next]_vars PROVE IdleClean'
  OBVIOUS
<1>1. ASSUME NEW c \in Callers, Return(c) PROVE IdleClean'
  BY <1>1 DEF Return, GoTo, IdleClean, TypeOK
<1>2. ASSUME NEW c \in Callers, ~Return(c), Step(c) PROVE IdleClean'
  <2>1. \E stage \in Stages \ {"idle"} : pc' = [pc EXCEPT ![c] = stage]
    BY <1>2 DEF Step, ReadPoints, ReadPoint, ReadFails, PointsRead, ReadSchedule, ReadField, UpdateSchedule,
                AssignDefault, AssignWeekly, FetchDefault, CopyDefault, GoTo, Call, After,
                FieldAt, Stages, TypeOK
  <2>2. \A d \in Callers \ {c} : /\ sched'[d] = sched[d] /\ mine'[d] = mine[d]
                                 /\ hold'[d] = hold[d] /\ report'[d] = report[d]
                                 /\ seen'[d] = seen[d] /\ pc'[d] = pc[d]
    BY <1>2, <2>1 DEF Step, ReadPoints, ReadPoint, ReadFails, PointsRead, ReadSchedule, ReadField,
                UpdateSchedule, AssignDefault, AssignWeekly, FetchDefault, CopyDefault, points,
                schedules, TypeOK
  <2>3. pc'[c] \notin {"points", "return"} => seen'[c] = seen[c] /\ pc[c] \notin {"points", "return"}
    BY <1>2, <2>1 DEF Step, ReadPoints, ReadPoint, ReadFails, PointsRead, ReadSchedule, ReadField,
                UpdateSchedule, AssignDefault, AssignWeekly, FetchDefault, CopyDefault, Call,
                GoTo, After, FieldAt, points, schedules, TypeOK
  <2> QED
    BY <2>1, <2>2, <2>3 DEF IdleClean, TypeOK
<1>3. CASE Environment \/ UNCHANGED vars
  BY <1>3 DEF Environment, PointChanges, SetsPresent, SetsWeekly, SetsDefault, points, schedules, vars, IdleClean
<1> QED
  BY <1>1, <1>2, <1>3 DEF Next

-----------------------------------------------------------------------------
(* What any call sees of a schedule *)

LEMMA NextReadInOrder ==
  TypeOK /\ IdleClean /\ ReadInOrder /\ [Next]_vars => ReadInOrder'
<1> SUFFICES ASSUME TypeOK, IdleClean, ReadInOrder, [Next]_vars PROVE ReadInOrder'
  OBVIOUS
<1> USE ReadsAssumption
<1>1. ASSUME NEW c \in Callers, NEW stage \in DOMAIN FieldAt, ReadField(c, stage)
      PROVE  ReadInOrder'
  <2>1. stage \in {"first", "second", "third"}
    BY DEF FieldAt
  <2>2. /\ report'[c] = [report[c] EXCEPT ![FieldAt[stage]] = Cell(FieldAt[stage], sched[c])]
        /\ report' = [report EXCEPT ![c] = report'[c]]
        /\ pc' = [pc EXCEPT ![c] = After[stage]]
        /\ pc[c] = stage /\ FieldAt[stage] \in Fields
        /\ UNCHANGED <<points, default, weekly, present, sched, part, mine, hold, clash, calls>>
    BY <1>1, ReadFieldEffect
  <2>3. sched[c] \in Schedules
    BY <2>1, <2>2 DEF ReadInOrder
  <2>4. /\ Cell(FieldAt[stage], sched[c]) \in Nat \cup {Foreign}
        /\ FieldAt[stage] = "default" => Cell(FieldAt[stage], sched[c]) \in Nat
    BY <2>2, <2>3, CellType
  <2>5. report[c] \in [Fields -> Nat \cup {None, Foreign}]
    BY DEF TypeOK, Unread, Fields
  <2>6. \A d \in Callers \ {c} : report'[d] = report[d] /\ pc'[d] = pc[d]
    BY <2>2 DEF TypeOK
  <2>7. pc'[c] = After[stage]
    BY <2>2 DEF TypeOK
  <2>8. /\ pc'[c] \in {"second", "third"} => report'[c].default = None
        /\ pc'[c] \in {"second", "third"} => report'[c].weekly # None
        /\ pc'[c] = "third" => report'[c].present # None
        /\ pc'[c] \in {"second", "third", "return"}
        /\ report'[c].default # Foreign
    <3>1. CASE stage = "first"
      BY <2>2, <2>4, <2>5, <2>7, <3>1 DEF FieldAt, After, ReadInOrder, Unread, Fields
    <3>2. CASE stage = "second"
      <4>1. report[c].default = None
        BY <2>2, <3>2 DEF ReadInOrder
      <4>2. report[c].weekly # None
        BY <2>2, <3>2, <4>1 DEF ReadInOrder
      <4> QED
        BY <2>2, <2>4, <2>5, <2>7, <3>2, <4>1, <4>2 DEF FieldAt, After, Fields
    <3>3. CASE stage = "third"
      BY <2>2, <2>4, <2>5, <2>7, <3>3 DEF FieldAt, After, ReadInOrder, Fields
    <3> QED
      BY <2>1, <3>1, <3>2, <3>3
  <2> QED
    <3> USE <2>6
    <3>1. \A d \in Callers : pc'[d] \notin {"idle", "points", "return"} => sched'[d] \in Schedules
      BY <2>2, <2>3 DEF ReadInOrder
    <3>2. \A d \in Callers : pc'[d] \notin {"second", "third", "return"} => report'[d] = Unread
      BY <2>8 DEF ReadInOrder
    <3> QED
      BY <2>8, <3>1, <3>2 DEF ReadInOrder
<1>2. ASSUME NEW c \in Callers, Return(c) PROVE ReadInOrder'
  BY <1>2 DEF Return, GoTo, ReadInOrder, TypeOK, Unread
<1>3. ASSUME NEW c \in Callers, Step(c), ~Return(c),
             \A stage \in DOMAIN FieldAt : ~ReadField(c, stage)
      PROVE  ReadInOrder'
  <2>1. report' = report
    BY <1>3 DEF Step, ReadPoints, ReadPoint, ReadFails, PointsRead, ReadSchedule, UpdateSchedule,
                AssignDefault, AssignWeekly, FetchDefault, CopyDefault, schedules
  <2>2. \A d \in Callers \ {c} : pc'[d] = pc[d] /\ sched'[d] = sched[d]
    BY <1>3 DEF Step, ReadPoints, ReadPoint, ReadFails, PointsRead, ReadSchedule, UpdateSchedule,
                AssignDefault, AssignWeekly, FetchDefault, CopyDefault, Call, GoTo, schedules,
                TypeOK
  <2>3. /\ pc[c] \notin {"second", "third", "return"}
        /\ pc'[c] \notin {"second", "third"}
        /\ pc'[c] \notin {"idle", "points", "return"} => sched'[c] \in Schedules
    BY <1>3 DEF Step, ReadPoints, ReadPoint, ReadFails, PointsRead, ReadSchedule, UpdateSchedule,
                AssignDefault, AssignWeekly, FetchDefault, CopyDefault, Call, GoTo, schedules,
                TypeOK, ReadInOrder
  <2> QED
    BY <2>1, <2>2, <2>3 DEF ReadInOrder
<1>4. CASE Environment \/ UNCHANGED vars
  <2>1. UNCHANGED <<pc, sched, report>>
    BY <1>4 DEF Environment, PointChanges, SetsPresent, SetsWeekly, SetsDefault, schedules, vars
  <2> QED
    BY <2>1 DEF ReadInOrder
<1> QED
  BY <1>1, <1>2, <1>3, <1>4 DEF Next

\* What is not ahead of a default is not ahead of a later one.
LEMMA AheadMonotone ==
  ASSUME TypeOK, NEW s \in Schedules, default'[s] \in Nat, default[s] <= default'[s],
         NEW x \in Nat \cup {None, Foreign}, ~Ahead(x, s)
  PROVE  ~(x # None /\ x # Foreign /\ x > default'[s])
BY DEF Ahead, TypeOK

LEMMA NextNeverAhead ==
  TypeOK /\ TypeOK' /\ IdleClean /\ ReadInOrder /\ NeverAhead /\ [Next]_vars => NeverAhead'
<1> SUFFICES ASSUME TypeOK, TypeOK', IdleClean, ReadInOrder, NeverAhead, [Next]_vars
             PROVE  NeverAhead'
  OBVIOUS
<1> USE ReadsAssumption
<1>0. \A c \in Callers : /\ report[c].weekly \in Nat \cup {None, Foreign}
                         /\ report[c].present \in Nat \cup {None, Foreign}
  BY DEF TypeOK, Unread
<1>1. ASSUME NEW c \in Callers, NEW s \in Schedules,
             ReadSchedule(c, s) \/ \E given \in SUBSET {"default", "weekly"} :
                                     UpdateSchedule(c, s, given)
      PROVE  NeverAhead'
  <2>1. /\ pc[c] = "idle" /\ sched' = [sched EXCEPT ![c] = s]
        /\ UNCHANGED <<default, weekly, present, mine, hold, report>>
    BY <1>1 DEF ReadSchedule, UpdateSchedule, Call
  <2>2. mine[c] = 0 /\ hold[c] = 0 /\ report[c].weekly = None /\ report[c].present = None
    BY <2>1 DEF IdleClean, Unread
  <2>3. default[s] >= 0
    BY DEF TypeOK
  <2> QED
    BY <2>1, <2>2, <2>3 DEF NeverAhead, Ahead, TypeOK
<1>2. ASSUME NEW c \in Callers, NEW stage \in DOMAIN FieldAt, ReadField(c, stage)
      PROVE  NeverAhead'
  <2>1. stage \in {"first", "second", "third"}
    BY DEF FieldAt
  <2>2. /\ report'[c] = [report[c] EXCEPT ![FieldAt[stage]] = Cell(FieldAt[stage], sched[c])]
        /\ report' = [report EXCEPT ![c] = report'[c]]
        /\ pc[c] = stage
        /\ UNCHANGED <<default, weekly, present, sched, mine, hold>>
    BY <1>2, ReadFieldEffect
  <2>3. sched[c] \in Schedules
    BY <2>1, <2>2 DEF ReadInOrder
  <2>4. report[c] \in [Fields -> Nat \cup {None, Foreign}]
    BY DEF TypeOK, Unread, Fields
  <2>5. /\ ~Ahead(report'[c].weekly, sched[c])
        /\ ~Ahead(report'[c].present, sched[c])
    BY <2>1, <2>2, <2>3, <2>4 DEF FieldAt, Cell, NeverAhead, Fields
  <2>6. \A d \in Callers \ {c} : report'[d] = report[d]
    BY <2>2 DEF TypeOK
  <2> QED
    BY <2>2, <2>5, <2>6 DEF NeverAhead, Ahead
<1>3. ASSUME NEW c \in Callers, AssignDefault(c) PROVE NeverAhead'
  <2>1. sched[c] \in Schedules
    BY <1>3 DEF AssignDefault, ReadInOrder
  <2>2. /\ \A s \in Schedules : default[s] <= default'[s] /\ default'[s] \in Nat
        /\ UNCHANGED <<weekly, present, sched, hold, report>>
    BY <1>3 DEF AssignDefault, TypeOK
  <2>3. /\ mine'[c] <= default'[sched[c]]
        /\ \A d \in Callers \ {c} : mine'[d] = mine[d]
    BY <1>3, <2>1, <2>2 DEF AssignDefault, TypeOK
  <2>4. \A s \in Schedules : ~Ahead(weekly[s], s)' /\ ~Ahead(present[s], s)'
    BY <2>2, AheadMonotone DEF NeverAhead, Ahead, TypeOK
  <2>5. ASSUME NEW d \in Callers, sched[d] \in Schedules
        PROVE  /\ ~Ahead(hold[d], sched[d])' /\ ~Ahead(report[d].weekly, sched[d])'
               /\ ~Ahead(report[d].present, sched[d])'
               /\ ~Ahead(mine[d], sched[d])'
    <3>1. hold[d] \in Nat /\ mine[d] \in Nat
      BY DEF TypeOK
    <3>2. /\ ~Ahead(hold[d], sched[d])' /\ ~Ahead(report[d].weekly, sched[d])'
          /\ ~Ahead(report[d].present, sched[d])'
      BY <1>0, <2>2, <2>5, <3>1, AheadMonotone DEF NeverAhead, Ahead
    <3>3. CASE d = c
      BY <2>2, <2>3, <2>5, <3>2, <3>3 DEF Ahead, TypeOK
    <3>4. CASE d # c
      BY <2>2, <2>3, <2>5, <3>1, <3>2, <3>4, AheadMonotone DEF NeverAhead, Ahead
    <3> QED
      BY <3>3, <3>4
  <2> QED
    BY <2>2, <2>4, <2>5 DEF NeverAhead
<1>4. ASSUME NEW c \in Callers, AssignWeekly(c) PROVE NeverAhead'
  <2>1. sched[c] \in Schedules
    BY <1>4 DEF AssignWeekly, ReadInOrder
  <2> QED
    BY <1>4, <2>1 DEF AssignWeekly, NeverAhead, Ahead, TypeOK
<1>5. ASSUME NEW c \in Callers, FetchDefault(c) PROVE NeverAhead'
  <2>1. sched[c] \in Schedules /\ default[sched[c]] \in Nat
    BY <1>5 DEF FetchDefault, ReadInOrder, TypeOK
  <2> QED
    BY <1>5, <2>1 DEF FetchDefault, NewPresent, NeverAhead, Ahead, TypeOK
<1>6. ASSUME NEW c \in Callers, CopyDefault(c) PROVE NeverAhead'
  <2>1. sched[c] \in Schedules
    BY <1>6 DEF CopyDefault, ReadInOrder
  <2> QED
    BY <1>6, <2>1 DEF CopyDefault, NeverAhead, Ahead, TypeOK
<1>7. ASSUME NEW c \in Callers, Return(c) PROVE NeverAhead'
  BY <1>7 DEF Return, NeverAhead, Ahead, TypeOK
<1>8. ASSUME NEW s \in Schedules, SetsPresent(s) \/ SetsWeekly(s) PROVE NeverAhead'
  BY <1>8 DEF SetsPresent, SetsWeekly, NeverAhead, Ahead, TypeOK
<1>10. ASSUME NEW s \in Schedules, SetsDefault(s) PROVE NeverAhead'
  <2>1. /\ \A t \in Schedules : default[t] <= default'[t] /\ default'[t] \in Nat
        /\ UNCHANGED <<weekly, present, sched, mine, hold, report>>
    BY <1>10 DEF SetsDefault, TypeOK
  <2>2. \A t \in Schedules : ~Ahead(weekly[t], t)' /\ ~Ahead(present[t], t)'
    BY <2>1, AheadMonotone DEF NeverAhead, Ahead, TypeOK
  <2>3. ASSUME NEW d \in Callers, sched[d] \in Schedules
        PROVE  /\ ~Ahead(hold[d], sched[d])' /\ ~Ahead(mine[d], sched[d])'
               /\ ~Ahead(report[d].weekly, sched[d])' /\ ~Ahead(report[d].present, sched[d])'
    <3>1. hold[d] \in Nat /\ mine[d] \in Nat
      BY DEF TypeOK
    <3> QED
      BY <1>0, <2>1, <2>3, <3>1, AheadMonotone DEF NeverAhead, Ahead
  <2> QED
    BY <2>1, <2>2, <2>3 DEF NeverAhead
<1>9. CASE \/ UNCHANGED vars
           \/ \E p \in Points, v \in Values : PointChanges(p, v)
           \/ \E c \in Callers : \/ ReadPoints(c, Points) \/ ReadPoints(c, Commandable)
                                 \/ PointsRead(c)
                                 \/ \E p \in Points : ReadPoint(c, p) \/ ReadFails(c, p)
  <2>1. UNCHANGED schedules
    BY <1>9 DEF vars, schedules, PointChanges, ReadPoints, PointsRead, ReadPoint, ReadFails
  <2> QED
    BY <2>1 DEF schedules, NeverAhead, Ahead
<1> QED
  BY <1>1, <1>2, <1>3, <1>4, <1>5, <1>6, <1>7, <1>8, <1>9, <1>10 DEF Next, Step, Environment

\* The last field read is the default: whatever the report says came from it or from
\* an earlier one.
LEMMA NextForward ==
  TypeOK /\ TypeOK' /\ IdleClean /\ ReadInOrder /\ ReadInOrder' /\ NeverAhead
  /\ Forward /\ [Next]_vars => Forward'
<1> SUFFICES ASSUME TypeOK, TypeOK', IdleClean, ReadInOrder, ReadInOrder', NeverAhead,
                    Forward, [Next]_vars
             PROVE  Forward'
  OBVIOUS
<1> USE ReadsAssumption
<1>1. ASSUME NEW c \in Callers, NEW stage \in DOMAIN FieldAt, ReadField(c, stage)
      PROVE  Forward'
  <2>1. stage \in {"first", "second", "third"}
    BY DEF FieldAt
  <2>2. /\ report'[c] = [report[c] EXCEPT ![FieldAt[stage]] = Cell(FieldAt[stage], sched[c])]
        /\ report' = [report EXCEPT ![c] = report'[c]]
        /\ pc[c] = stage
    BY <1>1, ReadFieldEffect
  <2>3. sched[c] \in Schedules
    BY <2>1, <2>2 DEF ReadInOrder
  <2>4. report[c] \in [Fields -> Nat \cup {None, Foreign}]
    BY DEF TypeOK, Unread, Fields
  <2>5. ASSUME report'[c].default # None
        PROVE  /\ report'[c].weekly # Foreign => report'[c].weekly <= report'[c].default
               /\ report'[c].present # Foreign => report'[c].present <= report'[c].default
    <3>1. CASE stage = "third"
      <4>1. /\ report'[c].default = default[sched[c]]
            /\ report'[c].weekly = report[c].weekly /\ report'[c].present = report[c].present
        BY <2>2, <2>4, <3>1 DEF FieldAt, Cell, Fields
      <4>2. /\ report[c].weekly \in Nat \cup {Foreign}
            /\ report[c].present \in Nat \cup {Foreign}
        BY <2>2, <2>4, <3>1 DEF ReadInOrder, Fields
      <4>3. ~Ahead(report[c].weekly, sched[c]) /\ ~Ahead(report[c].present, sched[c])
        BY <2>3 DEF NeverAhead
      <4>4. default[sched[c]] \in Nat
        BY <2>3 DEF TypeOK
      <4> QED
        BY <4>1, <4>2, <4>3, <4>4 DEF Ahead
    <3>2. CASE stage # "third"
      <4>1. report[c].default = None
        BY <2>1, <2>2, <3>2 DEF ReadInOrder, Unread
      <4>2. report'[c].default = report[c].default
        BY <2>1, <2>2, <2>4, <3>2 DEF FieldAt, Fields
      <4> QED
        BY <2>5, <4>1, <4>2
    <3> QED
      BY <3>1, <3>2
  <2>6. \A d \in Callers \ {c} : report'[d] = report[d]
    BY <2>2 DEF TypeOK
  <2> QED
    BY <2>5, <2>6 DEF Forward
<1>2. ASSUME NEW c \in Callers, Return(c) PROVE Forward'
  BY <1>2 DEF Return, Forward, TypeOK, Unread
<1>3. ASSUME NEW c \in Callers, Step(c), ~Return(c),
             \A stage \in DOMAIN FieldAt : ~ReadField(c, stage)
      PROVE  Forward'
  <2>1. report' = report
    BY <1>3 DEF Step, ReadPoints, ReadPoint, ReadFails, PointsRead, ReadSchedule, UpdateSchedule,
                AssignDefault, AssignWeekly, FetchDefault, CopyDefault, schedules
  <2> QED
    BY <2>1 DEF Forward
<1>4. CASE Environment \/ UNCHANGED vars
  <2>1. report' = report
    BY <1>4 DEF Environment, PointChanges, SetsPresent, SetsWeekly, SetsDefault, schedules, vars
  <2> QED
    BY <2>1 DEF Forward
<1> QED
  BY <1>1, <1>2, <1>3, <1>4 DEF Next

-----------------------------------------------------------------------------
(* The present value follows the default *)

LEMMA NextAlone ==
  /\ TypeOK /\ ReadInOrder /\ Alone /\ PresentFollowsDefault /\ [Next]_vars
  => Alone' /\ PresentFollowsDefault'
<1> SUFFICES ASSUME TypeOK, ReadInOrder, Alone, PresentFollowsDefault, [Next]_vars
             PROVE  Alone' /\ PresentFollowsDefault'
  OBVIOUS
<1> USE ReadsAssumption
<1>1. ASSUME NEW c \in Callers, NEW s \in Schedules, NEW given \in SUBSET {"default", "weekly"},
             UpdateSchedule(c, s, given)
      PROVE  Alone' /\ PresentFollowsDefault'
  <2>1. /\ pc[c] = "idle" /\ pc' = [pc EXCEPT ![c] = "default"]
        /\ sched' = [sched EXCEPT ![c] = s]
        /\ clash' = IF \E d \in Callers : Updating(d, s) THEN clash \cup {s} ELSE clash \ {s}
        /\ UNCHANGED <<default, present, hold>>
    BY <1>1 DEF UpdateSchedule, Call
  <2>2. /\ Updating(c, s)'
        /\ \A t \in Schedules : t # s => ~Updating(c, t)'
        /\ \A d \in Callers \ {c} : \A t \in Schedules : Updating(d, t)' = Updating(d, t)
        /\ \A t \in Schedules : ~Updating(c, t)
    BY <2>1 DEF Updating, TypeOK
  <2>3. ASSUME NEW d \in Callers, NEW e \in Callers, NEW t \in Schedules \ clash',
               Updating(d, t)', Updating(e, t)'
        PROVE  d = e
    <3>1. CASE t = s
      BY <2>1, <2>2, <2>3, <3>1
    <3>2. CASE t # s
      BY <2>1, <2>2, <2>3, <3>2 DEF Alone
    <3> QED
      BY <3>1, <3>2
  <2>4. ASSUME NEW d \in Callers, pc'[d] = "copy", sched'[d] \notin clash'
        PROVE  hold'[d] = default'[sched'[d]]
    <3>1. d # c /\ pc[d] = "copy" /\ sched'[d] = sched[d] /\ sched[d] \in Schedules
      BY <2>1, <2>4 DEF TypeOK, ReadInOrder
    <3>2. sched[d] \notin clash
      BY <2>1, <2>4, <3>1 DEF Updating
    <3> QED
      BY <2>1, <3>1, <3>2 DEF Alone
  <2>5. ASSUME NEW t \in Schedules, \A d \in Callers : ~Updating(d, t)', t \notin clash',
               present'[t] # Foreign
        PROVE  present'[t] = default'[t]
    <3>1. t # s
      BY <2>2, <2>5
    <3>2. t \notin clash /\ \A d \in Callers : ~Updating(d, t)
      BY <2>1, <2>2, <2>5, <3>1
    <3> QED
      BY <2>1, <2>5, <3>2 DEF PresentFollowsDefault
  <2> QED
    BY <2>3, <2>4, <2>5 DEF Alone, PresentFollowsDefault
<1>2. ASSUME NEW c \in Callers, AssignDefault(c)
      PROVE  Alone' /\ PresentFollowsDefault'
  <2>1. /\ pc[c] = "default" /\ pc' = [pc EXCEPT ![c] = "weekly"]
        /\ UNCHANGED <<sched, clash, present, hold>>
        /\ \A t \in Schedules : t # sched[c] => default'[t] = default[t]
    BY <1>2 DEF AssignDefault, GoTo, TypeOK
  <2>2. \A d \in Callers, t \in Schedules : Updating(d, t)' = Updating(d, t)
    BY <2>1 DEF Updating, TypeOK
  <2>3. sched[c] \in Schedules /\ Updating(c, sched[c])
    BY <2>1 DEF Updating, ReadInOrder
  <2>4. ASSUME NEW d \in Callers, pc'[d] = "copy", sched'[d] \notin clash'
        PROVE  hold'[d] = default'[sched'[d]]
    <3>1. d # c /\ pc[d] = "copy" /\ sched[d] \in Schedules \ clash /\ Updating(d, sched[d])
      BY <2>1, <2>4 DEF TypeOK, ReadInOrder, Updating
    <3>2. sched[d] # sched[c]
      BY <2>3, <3>1 DEF Alone
    <3> QED
      BY <2>1, <3>1, <3>2 DEF Alone
  <2> QED
    BY <2>1, <2>2, <2>3, <2>4 DEF Alone, PresentFollowsDefault
<1>3. ASSUME NEW c \in Callers, AssignWeekly(c)
      PROVE  Alone' /\ PresentFollowsDefault'
  <2>1. /\ pc[c] = "weekly" /\ pc' = [pc EXCEPT ![c] = "fetch"]
        /\ UNCHANGED <<sched, clash, present, default, hold>>
    BY <1>3 DEF AssignWeekly, GoTo
  <2>2. \A d \in Callers, t \in Schedules : Updating(d, t)' = Updating(d, t)
    BY <2>1 DEF Updating, TypeOK
  <2> QED
    BY <2>1, <2>2 DEF Alone, PresentFollowsDefault, TypeOK
<1>4. ASSUME NEW c \in Callers, FetchDefault(c)
      PROVE  Alone' /\ PresentFollowsDefault'
  <2>1. /\ pc[c] = "fetch" /\ pc' = [pc EXCEPT ![c] = "copy"]
        /\ hold' = [hold EXCEPT ![c] = default[sched[c]]]
        /\ UNCHANGED <<sched, clash, present, default>>
    BY <1>4 DEF FetchDefault, NewPresent, GoTo
  <2>2. \A d \in Callers, t \in Schedules : Updating(d, t)' = Updating(d, t)
    BY <2>1 DEF Updating, TypeOK
  <2> QED
    BY <2>1, <2>2 DEF Alone, PresentFollowsDefault, TypeOK
<1>5. ASSUME NEW c \in Callers, CopyDefault(c)
      PROVE  Alone' /\ PresentFollowsDefault'
  <2>1. /\ pc[c] = "copy" /\ pc' = [pc EXCEPT ![c] = "first"]
        /\ present' = [present EXCEPT ![sched[c]] = hold[c]]
        /\ UNCHANGED <<sched, clash, default, hold>>
        /\ sched[c] \in Schedules
    BY <1>5 DEF CopyDefault, GoTo, ReadInOrder
  <2>2. /\ \A d \in Callers \ {c}, t \in Schedules : Updating(d, t)' = Updating(d, t)
        /\ \A t \in Schedules : ~Updating(c, t)'
        /\ \A t \in Schedules : Updating(c, t) => t = sched[c]
    BY <2>1 DEF Updating, TypeOK
  <2>3. ASSUME NEW t \in Schedules, \A d \in Callers : ~Updating(d, t)', t \notin clash,
               present'[t] # Foreign
        PROVE  present'[t] = default[t]
    <3>1. CASE t = sched[c]
      BY <2>1, <2>3, <3>1 DEF Alone, TypeOK
    <3>2. CASE t # sched[c]
      <4>1. present'[t] = present[t] /\ \A d \in Callers : ~Updating(d, t)
        <5>1. present'[t] = present[t]
          BY <2>1, <3>2 DEF TypeOK
        <5>2. \A d \in Callers : ~Updating(d, t)
          BY <2>2, <2>3, <3>2
        <5> QED
          BY <5>1, <5>2
      <4> QED
        BY <2>3, <4>1 DEF PresentFollowsDefault
    <3> QED
      BY <3>1, <3>2
  <2>4. \A d, e \in Callers : \A t \in Schedules \ clash :
          Updating(d, t)' /\ Updating(e, t)' => d = e
    BY <2>2 DEF Alone
  <2>5. \A d \in Callers : pc'[d] = "copy" => d # c /\ pc[d] = "copy"
    BY <2>1 DEF TypeOK
  <2>6. Alone'
    BY <2>1, <2>4, <2>5 DEF Alone
  <2> QED
    BY <2>1, <2>3, <2>6 DEF PresentFollowsDefault
<1>9. ASSUME NEW s \in Schedules, SetsDefault(s)
      PROVE  Alone' /\ PresentFollowsDefault'
  <2>1. /\ UNCHANGED <<pc, sched, hold, present>>
        /\ \A t \in Schedules : t # s => default'[t] = default[t]
        /\ clash \subseteq clash' /\ clash' \subseteq clash \cup {s}
    BY <1>9 DEF SetsDefault, TypeOK
  <2>2. \A d \in Callers, t \in Schedules : Updating(d, t)' = Updating(d, t)
    BY <2>1 DEF Updating
  <2>3. s \notin clash' => \E c \in Callers : /\ pc[c] \in {"default", "weekly", "fetch"}
                                             /\ sched[c] = s
    BY <1>9 DEF SetsDefault
  <2>4. ASSUME NEW d \in Callers, pc[d] = "copy", sched[d] \notin clash'
        PROVE  hold[d] = default'[sched[d]]
    <3>1. sched[d] \in Schedules \ clash /\ Updating(d, sched[d])
      BY <2>1, <2>4 DEF ReadInOrder, Updating
    <3>2. sched[d] # s
      <4>1. ASSUME sched[d] = s PROVE FALSE
        <5>1. PICK c \in Callers : pc[c] \in {"default", "weekly", "fetch"} /\ sched[c] = s
          BY <2>3, <2>4, <4>1
        <5> QED
          BY <2>4, <3>1, <4>1, <5>1 DEF Alone, Updating
      <4> QED
        BY <4>1
    <3> QED
      BY <2>1, <2>4, <3>1, <3>2 DEF Alone
  <2>5. ASSUME NEW t \in Schedules, \A d \in Callers : ~Updating(d, t), t \notin clash',
               present[t] # Foreign
        PROVE  present[t] = default'[t]
    <3>1. t # s
      BY <2>3, <2>5 DEF Updating
    <3> QED
      BY <2>1, <2>5, <3>1 DEF PresentFollowsDefault
  <2>6. Alone'
    BY <2>1, <2>2, <2>4 DEF Alone
  <2>7. PresentFollowsDefault'
    BY <2>1, <2>2, <2>5 DEF PresentFollowsDefault
  <2> QED
    BY <2>6, <2>7
<1>6. ASSUME NEW s \in Schedules, SetsPresent(s) \/ SetsWeekly(s)
      PROVE  Alone' /\ PresentFollowsDefault'
  BY <1>6 DEF SetsPresent, SetsWeekly, Alone, PresentFollowsDefault, Updating, TypeOK
<1>7. ASSUME NEW c \in Callers,
             \/ ReadPoints(c, Points) \/ ReadPoints(c, Commandable) \/ PointsRead(c)
             \/ \E p \in Points : ReadPoint(c, p) \/ ReadFails(c, p)
             \/ \E s \in Schedules : ReadSchedule(c, s)
             \/ \E stage \in DOMAIN FieldAt : ReadField(c, stage)
             \/ Return(c)
      PROVE  Alone' /\ PresentFollowsDefault'
  <2>1. /\ UNCHANGED <<default, present, clash>>
        /\ \A d \in Callers \ {c} : pc'[d] = pc[d] /\ sched'[d] = sched[d] /\ hold'[d] = hold[d]
        /\ pc[c] \notin {"default", "weekly", "fetch", "copy"}
        /\ pc'[c] \notin {"default", "weekly", "fetch", "copy"}
    BY <1>7 DEF ReadPoints, PointsRead, ReadPoint, ReadFails, ReadSchedule, ReadField, Return, Call, GoTo,
                After, FieldAt, schedules, TypeOK
  <2>2. \A d \in Callers, t \in Schedules : Updating(d, t)' = Updating(d, t)
    BY <2>1 DEF Updating
  <2> QED
    BY <2>1, <2>2 DEF Alone, PresentFollowsDefault
<1>8. CASE \/ UNCHANGED vars
           \/ \E p \in Points, v \in Values : PointChanges(p, v)
  BY <1>8 DEF vars, PointChanges, schedules, Alone, PresentFollowsDefault, Updating
<1> QED
  BY <1>1, <1>2, <1>3, <1>4, <1>5, <1>6, <1>7, <1>8, <1>9 DEF Next, Step, Environment

-----------------------------------------------------------------------------
(* The theorems *)

\* The inductive invariant holds in every reachable state.
THEOREM ReadsInvariant == Spec => []IInv
<1>1. IInv /\ [Next]_vars => IInv'
  <2> SUFFICES ASSUME IInv, [Next]_vars PROVE IInv'
    OBVIOUS
  <2>1. TypeOK' /\ ReadInOrder' /\ IdleClean'
    BY NextTypeOK, NextReadInOrder, NextIdleClean DEF IInv, ReadInv
  <2>2. StandStill' /\ LoopSnapshotConsistent'
    BY NextSnapshot DEF IInv, ReadInv
  <2>3. NeverAhead' /\ Forward'
    BY <2>1, NextNeverAhead, NextForward DEF IInv, ReadInv
  <2>4. Alone' /\ PresentFollowsDefault'
    BY NextAlone DEF IInv, ReadInv
  <2> QED
    BY <2>1, <2>2, <2>3, <2>4 DEF IInv, ReadInv
<1> QED
  BY <1>1, InitIInv, PTL DEF Spec

\* Every state has its type, and a schedule is reported whole (client_utils.py:139-198).
THEOREM ReadsTypes == Spec => []TypeOK
BY ReadsInvariant, PTL DEF IInv, ReadInv

\* What a call on the event loop reports of the commandable points was true of all of
\* them at one moment (rpc_methods.py:164-206).
THEOREM LoopSnapshots == Spec => []LoopSnapshotConsistent
BY ReadsInvariant, PTL DEF IInv, ReadInv

\* A reported default is never older than what the rest of the report came from,
\* however many threads update the schedule (client_utils.py:139-198).
THEOREM ReportsNeverGoBack == Spec => []ReadsForward
<1>1. IInv => ReadsForward
  BY DEF IInv, ReadInv, TypeOK, Unread, Forward, ReadsForward
<1> QED
  BY <1>1, ReadsInvariant, PTL

\* Only overlapping updates, the interpreter, or a BACnet client's write of the present value
\* or the default leave a present value that is not the current default (client_utils.py:196).
THEOREM PresentValueFollows == Spec => []PresentFollowsDefault
BY ReadsInvariant, PTL DEF IInv

-----------------------------------------------------------------------------
(* The points as the readers see them *)

\* No step of a reader, of an update of a schedule or of the stack does more to the points
\* than PointStore lets happen: they change one at a time, and a commandable one only while
\* no call is on the loop: what the readers assume of the points is what PointService is
\* proved to provide, PointsAreAStore (rpc_methods.py:164-206).
THEOREM ReadersKeepTheStore == Spec => Store!Spec
<1>1. Init => Store!Init
  BY DEF Init
<1>2. ASSUME IInv, [Next]_vars
      PROVE  [Store!Next]_<<pv, ~LoopFree>>
  <2> USE DEF IInv, ReadInv, TypeOK
  <2>1. ASSUME NEW p \in Points, NEW v \in Values, PointChanges(p, v)
        PROVE  Store!Next
    <3>1. /\ pv' = [pv EXCEPT ![p] = v] /\ (p \in CommandableNames => ~~LoopFree)
          /\ pc' = pc
      BY <2>1 DEF PointChanges, Store!Change
    <3>2. pv'[p] = v
      BY <1>2, <3>1
    <3>3. LoopFree' = LoopFree
      BY <3>1 DEF LoopFree
    <3>4. Store!Change(p, pv'[p])
      BY <3>1, <3>2 DEF Store!Change
    <3> QED
      BY <3>3, <3>4 DEF Store!Next
  <2>2. ASSUME pv' = pv
        PROVE  [Store!Next]_<<pv, ~LoopFree>>
    <3>1. CASE LoopFree' = LoopFree
      BY <2>2, <3>1
    <3>2. CASE LoopFree' # LoopFree
      <4>1. LoopFree \in BOOLEAN /\ LoopFree' \in BOOLEAN
        BY DEF LoopFree
      <4>2. (~LoopFree)' = ~~LoopFree
        BY <3>2, <4>1
      <4>3. Store!LoopTurns
        BY <2>2, <4>2 DEF Store!LoopTurns
      <4> QED
        BY <4>3 DEF Store!Next
    <3> QED
      BY <3>1, <3>2
  <2>3. pv' = pv \/ \E p \in Points, v \in Values : PointChanges(p, v)
    BY <1>2 DEF Next, Step, Environment, ReadPoints, ReadPoint, ReadFails, PointsRead, ReadSchedule, ReadField,
                UpdateSchedule, AssignDefault, AssignWeekly, FetchDefault, CopyDefault, Return,
                SetsPresent, SetsWeekly, SetsDefault, points, vars
  <2> QED
    BY <2>1, <2>2, <2>3
<1> QED
  BY <1>1, <1>2, ReadsInvariant, PTL DEF Spec, Store!Spec

=============================================================================

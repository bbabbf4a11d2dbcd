---------------------------- MODULE ServerReads ----------------------------
(***************************************************************************)
(* The methods of rpc_methods.py that report the server's own points, and  *)
(* the one that updates a schedule.  All are plain defs: an HTTP call runs *)
(* on a thread of the pool (Workers), the gateway's call runs on the event *)
(* loop to its end (Coroutines).  A call reads one property at a time, and *)
(* so reports a state in which the server may never have been.             *)
(*                                                                         *)
(* The points are those of PointStore, which PointService implements.  Of  *)
(* a schedule only the age of its properties matters: `default` counts the *)
(* assignments of scheduleDefault, `present` holds the count at which it   *)
(* was copied, `weekly` the count its update had assigned just before;     *)
(* either is Foreign when the stack has set it.                            *)
(***************************************************************************)
EXTENDS Integers

CONSTANTS
  Workers, Coroutines,
  Points,                \* point_map without its schedules
  CommandableNames,      \* names updates skip
  Commandable,           \* points server_read_commandable selects by their class
  Schedules,
  Values,                \* present values of points
  None,                  \* not read yet
  Foreign,               \* a value from the stack: its schedule interpreter or a BACnet client
  MaxCalls               \* bound: calls, and BACnet writes of a default, in a behaviour

Callers == Workers \cup Coroutines

\* Every commandable object has its name recorded: CsvLoader's OutputsAlwaysProtected.
ASSUME ReadsAssumption ==
  /\ Workers \cap Coroutines = {}
  /\ Commandable \subseteq CommandableNames \cap Points
  /\ 0 \in Values /\ None \notin Values /\ None \notin Schedules
  /\ None \notin Int /\ Foreign \notin Int /\ None # Foreign
  /\ MaxCalls \in Nat

VARIABLES
  pv,                    \* presentValue of each point
  default, weekly, present, \* of each schedule: scheduleDefault, weeklySchedule, presentValue
  pc,                    \* what each caller does next
  todo,                  \* the points its loop has not come to
  seen,                  \* the values it has read
  sched,                 \* the schedule of its call
  part,                  \* the properties its update request gives
  mine,                  \* the default its update assigned, 0 if none
  hold,                  \* the default it read to be the present value
  report,                \* the schedule properties it has read
  began,                 \* history: the points as they were when a coroutine's call began
  clash,                 \* history: schedules of which two updates overlapped, or whose
                         \* default a BACnet client wrote after the last update read it
  calls

points == <<pv, todo, seen, began>>
schedules == <<default, weekly, present, sched, part, mine, hold, report, clash>>
vars == <<pv, default, weekly, present, pc, todo, seen, sched, part, mine, hold,
          report, began, clash, calls>>

-----------------------------------------------------------------------------

LoopFree == \A c \in Coroutines : pc[c] = "idle"

Store == INSTANCE PointStore WITH busy <- ~LoopFree

Unread == [field \in {"weekly", "present", "default"} |-> None]

Init ==
  /\ pc = [c \in Callers |-> "idle"]
  /\ Store!Init
  /\ default = [s \in Schedules |-> 0]
  /\ weekly = [s \in Schedules |-> 0]
  /\ present = [s \in Schedules |-> 0]
  /\ todo = [c \in Callers |-> {}]
  /\ seen = [c \in Callers |-> [p \in Points |-> None]]
  /\ sched = [c \in Callers |-> None]
  /\ part = [c \in Callers |-> {}]
  /\ mine = [c \in Callers |-> 0]
  /\ hold = [c \in Callers |-> 0]
  /\ report = [c \in Callers |-> Unread]
  /\ began = [c \in Coroutines |-> [p \in Points |-> None]]
  /\ clash = {}
  /\ calls = 0

\* The loop runs one call at a time; a thread does not wait for it.
Call(c, stage) ==
  /\ pc[c] = "idle"
  /\ c \in Workers \/ LoopFree
  /\ calls < MaxCalls
  /\ calls' = calls + 1
  /\ pc' = [pc EXCEPT ![c] = stage]

GoTo(c, stage) == pc' = [pc EXCEPT ![c] = stage] /\ calls' = calls

\* The result goes to the caller.
Return(c) ==
  /\ pc[c] = "return"
  /\ GoTo(c, "idle")
  /\ seen' = [seen EXCEPT ![c] = [p \in Points |-> None]]
  /\ report' = [report EXCEPT ![c] = Unread]
  /\ sched' = [sched EXCEPT ![c] = None]
  /\ part' = [part EXCEPT ![c] = {}]
  /\ mine' = [mine EXCEPT ![c] = 0]
  /\ hold' = [hold EXCEPT ![c] = 0]
  /\ began' = [d \in Coroutines |-> IF d = c THEN [p \in Points |-> None] ELSE began[d]]
  /\ UNCHANGED <<pv, default, weekly, present, todo, clash>>

-----------------------------------------------------------------------------
(* server_read_all_values and server_read_commandable *)

ReadPoints(c, selection) ==
  /\ Call(c, "points")
  /\ todo' = [todo EXCEPT ![c] = selection]
  /\ began' = [d \in Coroutines |-> IF d = c THEN pv ELSE began[d]]
  /\ UNCHANGED <<pv, seen, schedules>>

\* The order of the dict does not matter to the properties.
ReadPoint(c, p) ==
  /\ pc[c] = "points" /\ p \in todo[c]
  /\ seen' = [seen EXCEPT ![c][p] = pv[p]]
  /\ todo' = [todo EXCEPT ![c] = @ \ {p}]
  /\ UNCHANGED <<pv, pc, began, calls, schedules>>

\* The value cannot be read or converted: the entry is an error text.
ReadFails(c, p) ==
  /\ pc[c] = "points" /\ p \in todo[c]
  /\ todo' = [todo EXCEPT ![c] = @ \ {p}]
  /\ UNCHANGED <<pv, pc, seen, began, calls, schedules>>

PointsRead(c) ==
  /\ pc[c] = "points" /\ todo[c] = {}
  /\ GoTo(c, "return")
  /\ UNCHANGED <<points, schedules>>

-----------------------------------------------------------------------------
(* server_read_schedule: server_schedule_to_json reads three properties. *)

ReadSchedule(c, s) ==
  /\ Call(c, "first")
  /\ sched' = [sched EXCEPT ![c] = s]
  /\ UNCHANGED <<points, default, weekly, present, part, mine, hold, report, clash>>

\* Mutant of FieldAt: the scalar properties before the list.
FieldAtReversed == [first |-> "default", second |-> "present", third |-> "weekly"]

FieldAt == [first |-> "weekly", second |-> "present", third |-> "default"]

\* Mutant of After: the dict is made without its schedule_default.
AfterTwo == [first |-> "second", second |-> "return", third |-> "return"]

After == [first |-> "second", second |-> "third", third |-> "return"]

Cell(field, s) ==
  CASE field = "weekly"  -> weekly[s]
    [] field = "present" -> present[s]
    [] field = "default" -> default[s]

ReadField(c, stage) ==
  /\ pc[c] = stage
  /\ report' = [report EXCEPT ![c][FieldAt[stage]] = Cell(FieldAt[stage], sched[c])]
  /\ GoTo(c, After[stage])
  /\ UNCHANGED <<points, default, weekly, present, sched, part, mine, hold, clash>>

-----------------------------------------------------------------------------
(* server_update_schedule: up to two assignments, the copy, and the report. *)
(* The re-reads for `changed` show no more than the report does.            *)

Updating(c, s) == pc[c] \in {"default", "weekly", "fetch", "copy"} /\ sched[c] = s

UpdateSchedule(c, s, given) ==
  /\ Call(c, "default")
  /\ sched' = [sched EXCEPT ![c] = s]
  /\ part' = [part EXCEPT ![c] = given]
  /\ clash' = IF \E d \in Callers : Updating(d, s) THEN clash \cup {s} ELSE clash \ {s}
  /\ UNCHANGED <<points, default, weekly, present, mine, hold, report>>

AssignDefault(c) ==
  LET s == sched[c] IN
  /\ pc[c] = "default"
  /\ default' = IF "default" \in part[c] THEN [default EXCEPT ![s] = @ + 1] ELSE default
  /\ mine' = [mine EXCEPT ![c] = IF "default" \in part[c] THEN default'[s] ELSE 0]
  /\ GoTo(c, "weekly")
  /\ UNCHANGED <<points, weekly, present, sched, part, hold, report, clash>>

AssignWeekly(c) ==
  /\ pc[c] = "weekly"
  /\ weekly' = IF "weekly" \in part[c] THEN [weekly EXCEPT ![sched[c]] = mine[c]] ELSE weekly
  /\ GoTo(c, "fetch")
  /\ UNCHANGED <<points, default, present, sched, part, mine, hold, report, clash>>

\* Mutant of NewPresent: the default of the request, though it may give none.
NewPresentGiven(c) == mine[c]

NewPresent(c) == default[sched[c]]

\* obj.presentValue = obj.scheduleDefault: a read and, in a later step, a store.
FetchDefault(c) ==
  /\ pc[c] = "fetch"
  /\ hold' = [hold EXCEPT ![c] = NewPresent(c)]
  /\ GoTo(c, "copy")
  /\ UNCHANGED <<points, default, weekly, present, sched, part, mine, report, clash>>

CopyDefault(c) ==
  /\ pc[c] = "copy"
  /\ present' = [present EXCEPT ![sched[c]] = hold[c]]
  /\ GoTo(c, "first")
  /\ UNCHANGED <<points, default, weekly, sched, part, mine, hold, report, clash>>

-----------------------------------------------------------------------------
(* Others *)

\* Updates and BACnet clients change a point.
PointChanges(p, v) ==
  /\ Store!Change(p, v)
  /\ UNCHANGED <<pc, todo, seen, began, calls, schedules>>

\* On the event loop, the stack's interpreter sets what the weekly schedule says, or a
\* BACnet client writes the present value.
SetsPresent(s) ==
  /\ LoopFree
  /\ present' = [present EXCEPT ![s] = Foreign]
  /\ UNCHANGED <<points, pc, calls, default, weekly, sched, part, mine, hold, report, clash>>

\* A BACnet client writes the weekly schedule.
SetsWeekly(s) ==
  /\ LoopFree
  /\ weekly' = [weekly EXCEPT ![s] = Foreign]
  /\ UNCHANGED <<points, pc, calls, default, present, sched, part, mine, hold, report, clash>>

\* A BACnet client writes the default.  Nothing copies it to the present value, but for an
\* update under way that has still to read it.
SetsDefault(s) ==
  /\ LoopFree
  /\ calls < MaxCalls
  /\ calls' = calls + 1
  /\ default' = [default EXCEPT ![s] = @ + 1]
  /\ clash' = IF \E c \in Callers : pc[c] \in {"default", "weekly", "fetch"} /\ sched[c] = s
              THEN clash ELSE clash \cup {s}
  /\ UNCHANGED <<points, pc, weekly, present, sched, part, mine, hold, report>>

Environment ==
  \/ \E p \in Points, v \in Values : PointChanges(p, v)
  \/ \E s \in Schedules : SetsPresent(s) \/ SetsWeekly(s) \/ SetsDefault(s)

Step(c) ==
  \/ ReadPoints(c, Points)
  \/ ReadPoints(c, Commandable)
  \/ \E p \in Points : ReadPoint(c, p) \/ ReadFails(c, p)
  \/ PointsRead(c)
  \/ \E s \in Schedules : ReadSchedule(c, s)
  \/ \E stage \in DOMAIN FieldAt : ReadField(c, stage)
  \/ \E s \in Schedules, given \in SUBSET {"default", "weekly"} : UpdateSchedule(c, s, given)
  \/ AssignDefault(c)
  \/ AssignWeekly(c)
  \/ FetchDefault(c)
  \/ CopyDefault(c)
  \/ Return(c)

Next == Environment \/ \E c \in Callers : Step(c)

Spec == Init /\ [][Next]_vars

-----------------------------------------------------------------------------
(* Properties *)

Stages == {"idle", "points", "first", "second", "third", "default", "weekly", "fetch",
           "copy", "return"}

\* The types, and of a schedule's report that it is complete when it is returned.
TypeOK ==
  /\ pv \in [Points -> Values]
  /\ default \in [Schedules -> Nat]
  /\ weekly \in [Schedules -> Nat \cup {Foreign}]
  /\ present \in [Schedules -> Nat \cup {Foreign}]
  /\ pc \in [Callers -> Stages]
  /\ todo \in [Callers -> SUBSET Points]
  /\ seen \in [Callers -> [Points -> Values \cup {None}]]
  /\ began \in [Coroutines -> [Points -> Values \cup {None}]]
  /\ sched \in [Callers -> Schedules \cup {None}]
  /\ part \in [Callers -> SUBSET {"default", "weekly"}]
  /\ mine \in [Callers -> Nat] /\ hold \in [Callers -> Nat]
  /\ report \in [Callers -> [DOMAIN Unread -> Nat \cup {None, Foreign}]]
  /\ clash \subseteq Schedules
  /\ calls \in 0 .. MaxCalls
  /\ \A c \in Callers : pc[c] = "return" /\ report[c] # Unread =>
       \A field \in DOMAIN Unread : report[c][field] # None

\* What a call on the event loop reports of the commandable points are values they
\* all had at one moment, the one at which it began: the gateway never shows an
\* output from before a BACnet command beside one from after it
\* (rpc_methods.py:174-188, 195-205).  An HTTP call has no such moment.
LoopSnapshotConsistent ==
  \A c \in Coroutines : \A p \in CommandableNames \cap Points :
    seen[c][p] # None => seen[c][p] = began[c][p]

\* Of any report, made however many updates run on other threads and whatever BACnet
\* clients write to the schedule meanwhile: the default is not older than the one that the
\* present value was copied from, nor than the one that came with the weekly schedule.
\* update_server_schedule writes the default first and
\* the present value last, server_schedule_to_json reads them the other way round
\* (client_utils.py:141, 155-156, 169, 193, 196).
ReadsForward ==
  \A c \in Callers :
    pc[c] = "return" /\ report[c] # Unread =>
      /\ report[c].weekly # Foreign => report[c].weekly <= report[c].default
      /\ report[c].present # Foreign => report[c].present <= report[c].default

\* With no update under way a present value the stack did not set is the current default,
\* unless the last updates overlapped or a BACnet client wrote the default since; the next
\* update that runs alone repairs even that (client_utils.py:196).
PresentFollowsDefault ==
  \A s \in Schedules :
    (\A c \in Callers : ~Updating(c, s)) /\ s \notin clash /\ present[s] # Foreign
      => present[s] = default[s]

=============================================================================

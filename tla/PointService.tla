---------------------------- MODULE PointService ----------------------------
(***************************************************************************)
(* server_update_points (rpc_methods.py) against the points the loader     *)
(* made, called from several places at once:                               *)
(*   Workers     HTTP requests: the method is a plain def, so that         *)
(*               fastapi-jsonrpc runs each call on a thread of its pool;   *)
(*   Coroutines  the MQTT bridge and the MQTT RPC gateway, which call it   *)
(*               on the event loop, one call at a time and to the end.     *)
(* A BACnet client commands a point through its priority array, and writes *)
(* the present value of one that has none; the BACnet stack runs on the    *)
(* event loop too.                                                         *)
(*                                                                         *)
(* A call handles its names one after the other.  For each it reads the    *)
(* present value and, in a later step, stores the new one: threads switch  *)
(* between the two.                                                        *)
(*                                                                         *)
(* Numbers are in halves (3 is 1.5), as int() truncates and float() does   *)
(* not; binary values are 2 (active) and 0 (inactive).                     *)
(***************************************************************************)
EXTENDS Integers, Sequences

CONSTANTS
  Workers, Coroutines,      \* callers of server_update_points
  Names,                    \* point names callers may use
  Points,                   \* keys of point_map
  Kind,                     \* Kind[p]: "analog", "binary", "multistate" or "schedule"
  CommandableNames,         \* commandable_point_names, as the loader left it
  Arrayed,                  \* points whose class has a priority array
  Requests,                 \* update requests: sequences of <<name, value>>
  Commands,                 \* Commands[p]: values BACnet clients write to p
  Priorities,               \* priorities they use (1..16 in BACnet)
  NaN,                      \* the float that is not a number
  Null,                     \* a released priority slot
  MaxCalls                  \* bound: update calls in a behaviour

Callers == Workers \cup Coroutines

Value == Int \cup {NaN}

\* Arrayed points are skipped ones (CsvLoader's theorem OutputsAlwaysProtected), but a
\* skipped name need be no point (its theorem SkippedAlwaysKnown).
ASSUME ServiceAssumption ==
  /\ Points \subseteq Names
  /\ Requests \subseteq Seq(Names \X Value)
  /\ Kind \in [Points -> {"analog", "binary", "multistate", "schedule"}]
  /\ CommandableNames \subseteq Names
  /\ Arrayed \subseteq CommandableNames \cap Points
  /\ Workers \cap Coroutines = {}
  /\ Priorities \subseteq Nat \ {0}
  /\ Commands \in [Points -> SUBSET Int]
  /\ NaN \notin Int /\ Null \notin Int /\ Null # NaN
  /\ MaxCalls \in Nat

VARIABLES
  pv,        \* presentValue of each point
  slot,      \* priorityArray of each arrayed point
  pc,        \* each caller: "idle", "look" or "store"
  todo,      \* names and values its call has not come to
  item,      \* the point it is storing: name, new value, value it read
  report,    \* entries of its result dict, and the names it left unchanged
  asked,     \* history: the request of its call
  held,      \* history: values each point has had since its call began
  calls      \* calls made so far

vars == <<pv, slot, pc, todo, item, report, asked, held, calls>>

-----------------------------------------------------------------------------
(* Values *)

\* float(value), "active" for 1 and True, int(value); int(nan) raises.
Convertible(p, v) == Kind[p] = "multistate" => v # NaN

\* Mutant of Convert: only the active value is known.
ConvertOrNone(p, v) == IF v = 2 THEN 2 ELSE Null

Convert(p, v) ==
  CASE Kind[p] = "analog"     -> v
    [] Kind[p] = "binary"     -> IF v = 2 THEN 2 ELSE 0
    [] Kind[p] = "multistate" -> IF v >= 0 THEN 2 * (v \div 2) ELSE -2 * ((-v) \div 2)

\* `current != new`: NaN differs from everything, itself included.
Differs(current, new) == new = NaN \/ current = NaN \/ current # new

\* A priority array commands the value of its lowest-numbered slot in use;
\* the relinquish default is 0 here.
Effective(array) ==
  IF \E k \in Priorities : array[k] # Null
  THEN array[CHOOSE k \in Priorities :
               /\ array[k] # Null
               /\ \A j \in Priorities : array[j] # Null => k <= j]
  ELSE 0

\* Every value a point takes is remembered by the calls under way.
Remember(p, v) ==
  held' = [c \in Callers |->
             IF pc[c] = "idle" THEN held[c] ELSE [held[c] EXCEPT ![p] = @ \cup {v}]]

Init ==
  /\ pv = [p \in Points |-> 0]
  /\ slot = [p \in Arrayed |-> [k \in Priorities |-> Null]]
  /\ pc = [c \in Callers |-> "idle"]
  /\ todo = [c \in Callers |-> <<>>]
  /\ item = [c \in Callers |-> Null]
  /\ report = [c \in Callers |-> {}]
  /\ asked = [c \in Callers |-> <<>>]
  /\ held = [c \in Callers |-> [p \in Points |-> {}]]
  /\ calls = 0

-----------------------------------------------------------------------------
(* The event loop runs one thing at a time; a worker thread does not wait for it. *)

\* Mutant of LoopFree: the coroutines' calls suspend between two names.
LoopShared == TRUE

LoopFree == \A c \in Coroutines : pc[c] = "idle"

MayRun(c) == c \in Workers \/ LoopFree

Begin(c, request) ==
  /\ pc[c] = "idle"
  /\ MayRun(c)
  /\ calls < MaxCalls
  /\ calls' = calls + 1
  /\ pc' = [pc EXCEPT ![c] = "look"]
  /\ todo' = [todo EXCEPT ![c] = request]
  /\ asked' = [asked EXCEPT ![c] = request]
  /\ held' = [held EXCEPT ![c] = [p \in Points |-> {pv[p]}]]
  /\ UNCHANGED <<pv, slot, item, report>>

-----------------------------------------------------------------------------
(* One name of a call. *)

Entry(name, outcome, from, to) == [name |-> name, outcome |-> outcome, from |-> from, to |-> to]

\* Mutant of Answer: an error ends the call, as it would outside the loop's try.
AnswerAndStop(c, entry) ==
  /\ report' = [report EXCEPT ![c] = @ \cup {entry}]
  /\ todo' = [todo EXCEPT ![c] = IF entry.outcome = "error" THEN <<>> ELSE Tail(@)]
  /\ UNCHANGED <<pv, slot, pc, item, asked, held, calls>>

\* The name needs no store: its entry, if any, is made and the loop goes on.
Answer(c, entry) ==
  /\ report' = [report EXCEPT ![c] = @ \cup {entry}]
  /\ todo' = [todo EXCEPT ![c] = Tail(@)]
  /\ UNCHANGED <<pv, slot, pc, item, asked, held, calls>>

Looking(c) == pc[c] = "look" /\ todo[c] # <<>>

NameOf(c) == Head(todo[c])[1]
InputOf(c) == Head(todo[c])[2]

\* Mutant of Skipped: only names that are not in point_map are passed over.
SkippedUnknown(c) == NameOf(c) \notin Points

Skipped(c) == NameOf(c) \in CommandableNames

SkipCommandable(c) ==
  /\ Looking(c)
  /\ Skipped(c)
  /\ Answer(c, Entry(NameOf(c), "skipped", Null, Null))

NotFound(c) ==
  /\ Looking(c)
  /\ ~Skipped(c)
  /\ NameOf(c) \notin Points
  /\ Answer(c, Entry(NameOf(c), "not found", Null, Null))

Found(c) == Looking(c) /\ ~Skipped(c) /\ NameOf(c) \in Points

Unsupported(c) ==
  /\ Found(c)
  /\ Kind[NameOf(c)] = "schedule"
  /\ Answer(c, Entry(NameOf(c), "unsupported", Null, Null))

ConversionFails(c) ==
  /\ Found(c)
  /\ Kind[NameOf(c)] # "schedule"
  /\ ~Convertible(NameOf(c), InputOf(c))
  /\ Answer(c, Entry(NameOf(c), "error", Null, Null))

Updatable(c) ==
  /\ Found(c)
  /\ Kind[NameOf(c)] # "schedule"
  /\ Convertible(NameOf(c), InputOf(c))

\* The value read equals the new one: no store and no entry in the dict.
Unchanged(c) ==
  LET p == NameOf(c)
      new == Convert(p, InputOf(c))
  IN  /\ Updatable(c)
      /\ ~Differs(pv[p], new)
      /\ Answer(c, Entry(p, "unchanged", Null, new))

ReadDifferent(c) ==
  LET p == NameOf(c)
      new == Convert(p, InputOf(c))
  IN  /\ Updatable(c)
      /\ Differs(pv[p], new)
      /\ pc' = [pc EXCEPT ![c] = "store"]
      /\ item' = [item EXCEPT ![c] = [name |-> p, new |-> new, read |-> pv[p]]]
      /\ todo' = [todo EXCEPT ![c] = Tail(@)]
      /\ UNCHANGED <<pv, slot, report, asked, held, calls>>

\* Mutant of Assign: the value read is compared again and the write dropped.
AssignIfSame(p, new, current) ==
  pv' = IF pv[p] = current THEN [pv EXCEPT ![p] = new] ELSE pv

\* obj.presentValue = new_value, whatever the point holds by now.
Assign(p, new, current) == pv' = [pv EXCEPT ![p] = new]

Store(c) ==
  LET p == item[c].name
  IN  /\ pc[c] = "store"
      /\ Assign(p, item[c].new, item[c].read)
      /\ Remember(p, pv'[p])
      /\ report' = [report EXCEPT ![c] =
                      @ \cup {Entry(p, "changed", item[c].read, item[c].new)}]
      /\ pc' = [pc EXCEPT ![c] = "look"]
      /\ item' = [item EXCEPT ![c] = Null]
      /\ UNCHANGED <<slot, todo, asked, calls>>

\* The assignment raises, as the class of the point refuses the value: the point keeps
\* what it has, and the name gets an error entry.
StoreFails(c) ==
  /\ pc[c] = "store"
  /\ report' = [report EXCEPT ![c] = @ \cup {Entry(item[c].name, "error", Null, Null)}]
  /\ pc' = [pc EXCEPT ![c] = "look"]
  /\ item' = [item EXCEPT ![c] = Null]
  /\ UNCHANGED <<pv, slot, todo, asked, held, calls>>

\* The result dict goes to the caller; the histories of the call end with it.
Return(c) ==
  /\ pc[c] = "look"
  /\ todo[c] = <<>>
  /\ pc' = [pc EXCEPT ![c] = "idle"]
  /\ report' = [report EXCEPT ![c] = {}]
  /\ asked' = [asked EXCEPT ![c] = <<>>]
  /\ held' = [held EXCEPT ![c] = [p \in Points |-> {}]]
  /\ UNCHANGED <<pv, slot, todo, item, calls>>

-----------------------------------------------------------------------------
(* BACnet clients, served by the stack between two event-loop calls. *)

WriteSlot(p, k, v) ==
  /\ LoopFree
  /\ slot' = [slot EXCEPT ![p][k] = v]
  /\ pv' = [pv EXCEPT ![p] = Effective(slot'[p])]
  /\ Remember(p, pv'[p])
  /\ UNCHANGED <<pc, todo, item, report, asked, calls>>

\* A point without a priority array takes what is written, be it server-owned or an MSV
\* with Commandable=Y, which is commandable by name only.
WriteDirect(p, v) ==
  /\ LoopFree
  /\ pv' = [pv EXCEPT ![p] = v]
  /\ Remember(p, v)
  /\ UNCHANGED <<slot, pc, todo, item, report, asked, calls>>

BacnetWrite ==
  \/ \E p \in Arrayed, k \in Priorities : \E v \in Commands[p] \cup {Null} : WriteSlot(p, k, v)
  \/ \E p \in Points \ Arrayed : \E v \in Commands[p] : WriteDirect(p, v)

Step(c) ==
  \/ \E request \in Requests : Begin(c, request)
  \/ SkipCommandable(c)
  \/ NotFound(c)
  \/ Unsupported(c)
  \/ ConversionFails(c)
  \/ Unchanged(c)
  \/ ReadDifferent(c)
  \/ Store(c)
  \/ StoreFails(c)
  \/ Return(c)

Next == BacnetWrite \/ \E c \in Callers : Step(c)

Spec == Init /\ [][Next]_vars

-----------------------------------------------------------------------------
(* Properties *)

Outcomes == {"skipped", "not found", "unsupported", "error", "unchanged", "changed"}

Entries == [name : Names, outcome : Outcomes, from : Value \cup {Null}, to : Value \cup {Null}]

Item == [name : Points, new : Value, read : Value]

TypeOK ==
  /\ pv \in [Points -> Value]
  /\ slot \in [Arrayed -> [Priorities -> Value \cup {Null}]]
  /\ pc \in [Callers -> {"idle", "look", "store"}]
  /\ todo \in [Callers -> Seq(Names \X Value)]
  /\ item \in [Callers -> Item \cup {Null}]
  /\ \A c \in Callers : pc[c] = "store" => item[c] \in Item
  /\ held \in [Callers -> [Points -> SUBSET Value]]
  /\ report \in [Callers -> SUBSET Entries]
  /\ calls \in 0 .. MaxCalls

\* A point with a priority array shows the value its highest priority commands,
\* whatever the agents update meanwhile (rpc_methods.py:104-111 skips it "to avoid
\* conflict"; docs/csv-points.md:25).
PriorityGoverns == \A p \in Arrayed : pv[p] = Effective(slot[p])

\* Each entry of a call tells what happened during that call: a "changed from X to Y"
\* means the point held X and then Y at moments of the call, no entry means it held
\* the value asked for at one (rpc_methods.py:119-155), however calls overlap.
ReportsWitnessed ==
  \A c \in Callers : \A e \in report[c] :
    /\ e.outcome = "changed" => {e.from, e.to} \subseteq held[c][e.name]
    /\ e.outcome = "unchanged" => e.to \in held[c][e.name]

\* A call that has come to its end has dealt with every name it was given: a name
\* that is skipped, unknown or fails, in its conversion or its assignment, does not keep
\* the later ones from being updated (rpc_methods.py:118, 158-160).
EveryNameHandled ==
  \A c \in Callers : pc[c] = "look" /\ todo[c] = <<>> =>
    {asked[c][i][1] : i \in DOMAIN asked[c]} = {e.name : e \in report[c]}

\* Whoever reads the points sees a store in which a commandable point stands still
\* while a call runs on the event loop (rpc_methods.py:104-111, 126): updates skip it
\* on every thread, and BACnet writes wait for the loop.
Board == INSTANCE PointStore WITH busy <- ~LoopFree
StoreSpec == Board!Spec

\* Between the read and the store of a coroutine only a thread can change the point:
\* the other coroutine's call and BACnet writes wait for the event loop
\* (mqtt_bridge.py:280, mqtt_rpc_gateway.py:345, rpc_methods.py:121-126).
NoStaleStore ==
  [][\A c \in Coroutines :
       (pc[c] = "store" /\ pc'[c] = "store" /\ pv'[item[c].name] # pv[item[c].name])
         => \E w \in Workers : pc[w] = "store" /\ pc'[w] # "store"]_vars

=============================================================================

------------------------- MODULE PointServiceProofs -------------------------
(***************************************************************************)
(* For any callers, points, requests and interleaving: a point with a      *)
(* priority array shows what its highest priority commands, and what the   *)
(* update calls report did happen while they ran.                          *)
(***************************************************************************)
EXTENDS PointService, WellFoundedInduction, TLAPS

\* What the code between the read and the store relies on: the point was not a
\* skipped one, and the value read was the point's during the call.  Both are
\* needed, as a store happens a step after the check that allows it.
StoreInv ==
  \A c \in Callers : pc[c] = "store" =>
    /\ item[c].name \notin CommandableNames
    /\ item[c].read \in held[c][item[c].name]

\* A call under way has recorded the present value of every point.
CurrentHeld ==
  \A c \in Callers : pc[c] # "idle" => \A p \in Points : pv[p] \in held[c][p]

\* What one report entry claims, as in ReportsWitnessed, with the point it names.
Claim(e, c) ==
  /\ e.outcome = "changed" => e.name \in Points /\ {e.from, e.to} \subseteq held[c][e.name]
  /\ e.outcome = "unchanged" => e.name \in Points /\ e.to \in held[c][e.name]

Claims == \A c \in Callers : \A e \in report[c] : Claim(e, c)

IdleReports == \A c \in Callers : pc[c] = "idle" => report[c] = {}

IInv == /\ TypeOK /\ PriorityGoverns /\ StoreInv
        /\ CurrentHeld /\ Claims /\ IdleReports

\* The arbitration of a priority array yields a value (bacpypes3's Commandable).
LEMMA EffectiveValue ==
  ASSUME NEW array \in [Priorities -> Value \cup {Null}]
  PROVE  Effective(array) \in Value
<1> DEFINE used == {k \in Priorities : array[k] # Null}
<1>1. CASE used = {}
  BY <1>1 DEF Effective, Value
<1>2. CASE used # {}
  <2>1. used \subseteq Nat
    BY ServiceAssumption
  <2> DEFINE Less == {ss \in Nat \X Nat : ss[1] < ss[2]}
  <2>2. IsWellFoundedOn(Less, Nat)
    BY NatLessThanWellFounded DEF OpToRel
  <2>a. PICK k \in used : \A j \in used : <<j, k>> \notin Less
    <3> HIDE DEF Less, used
    <3> QED
      BY <1>2, <2>1, <2>2, WFMin
  <2>b. ASSUME NEW j \in used PROVE k <= j
    <3>1. j \in Nat /\ k \in Nat
      BY <2>1
    <3>2. ~(<<j, k>>[1] < <<j, k>>[2])
      BY <3>1, <2>a
    <3> QED
      BY <3>1, <3>2
  <2>3. \E m \in Priorities : /\ array[m] # Null
                              /\ \A j \in Priorities : array[j] # Null => m <= j
    BY <2>b
  <2> QED
    BY <2>3 DEF Effective, Value
<1> QED
  BY <1>1, <1>2

\* Converting an input gives a present value (rpc_methods.py:120, 131-135, 146).
LEMMA ConvertValue ==
  ASSUME NEW p \in Points, NEW v \in Value, Kind[p] # "schedule", Convertible(p, v)
  PROVE  Convert(p, v) \in Value
<1>1. Kind[p] \in {"analog", "binary", "multistate"}
  BY ServiceAssumption
<1>2. CASE Kind[p] = "analog"
  BY <1>2 DEF Convert
<1>3. CASE Kind[p] = "binary"
  BY <1>3 DEF Convert, Value
<1>4. CASE Kind[p] = "multistate"
  <2>1. v \in Int
    BY <1>4 DEF Convertible, Value
  <2>2. 2 * (v \div 2) \in Int /\ -2 * ((-v) \div 2) \in Int
    BY <2>1
  <2> QED
    BY <1>4, <2>2 DEF Convert, Value
<1> QED
  BY <1>1, <1>2, <1>3, <1>4

LEMMA InitIInv == Init => IInv
<1> SUFFICES ASSUME Init PROVE IInv
  OBVIOUS
<1>1. TypeOK
  BY ServiceAssumption DEF Init, TypeOK, Value
<1>2. PriorityGoverns
  BY ServiceAssumption DEF Init, PriorityGoverns, Effective
<1>3. StoreInv /\ CurrentHeld /\ Claims /\ IdleReports
  BY DEF Init, StoreInv, CurrentHeld, Claims, IdleReports
<1> QED
  BY <1>1, <1>2, <1>3 DEF IInv

\* The record of a name that needs no store joins the report; nothing else that
\* IInv speaks of moves, but for the names still to do.
LEMMA AnswerIInv ==
  ASSUME IInv, NEW c \in Callers, Looking(c),
         NEW e \in Entries,
         Claim(e, c), Answer(c, e)
  PROVE  IInv'
<1>1. /\ report' = [report EXCEPT ![c] = @ \cup {e}]
      /\ todo' = [todo EXCEPT ![c] = Tail(@)]
      /\ UNCHANGED <<pv, slot, pc, item, held, calls>>
  BY DEF Answer
<1>2. todo[c] \in Seq(Names \X Value) /\ todo[c] # <<>>
  BY DEF IInv, TypeOK, Looking
<1>3. Tail(todo[c]) \in Seq(Names \X Value)
  BY <1>2
<1>a. DOMAIN report = Callers
  BY DEF IInv, TypeOK
<1>4. \A d \in Callers : report'[d] = report[d] \/ (d = c /\ report'[d] = report[d] \cup {e})
  BY <1>1, <1>a
<1>5. TypeOK'
  BY <1>1, <1>3, <1>4 DEF IInv, TypeOK, Item
<1>6. PriorityGoverns' /\ StoreInv' /\ CurrentHeld'
  BY <1>1 DEF IInv, PriorityGoverns, StoreInv, CurrentHeld
<1>7. Claims'
  BY <1>1, <1>4 DEF IInv, Claims, Claim
<1>8. IdleReports'
  BY <1>1, <1>4 DEF IInv, IdleReports, Looking
<1> QED
  BY <1>5, <1>6, <1>7, <1>8 DEF IInv

-----------------------------------------------------------------------------
(* The steps of a call *)

LEMMA BeginIInv ==
  ASSUME IInv, NEW c \in Callers, NEW request \in Requests, Begin(c, request)
  PROVE  IInv'
<1>1. /\ pc[c] = "idle"
      /\ calls' \in 0 .. MaxCalls
      /\ pc' = [pc EXCEPT ![c] = "look"]
      /\ todo' = [todo EXCEPT ![c] = request]
      /\ held' = [held EXCEPT ![c] = [p \in Points |-> {pv[p]}]]
      /\ UNCHANGED <<pv, slot, item, report>>
  BY ServiceAssumption DEF Begin, IInv, TypeOK
<1>2. request \in Seq(Names \X Value)
  BY ServiceAssumption
<1>3. [p \in Points |-> {pv[p]}] \in [Points -> SUBSET Value]
  BY DEF IInv, TypeOK
<1>4. TypeOK'
  BY <1>1, <1>2, <1>3 DEF IInv, TypeOK, Item, Entries
<1>5. /\ \A d \in Callers \ {c} : pc'[d] = pc[d] /\ held'[d] = held[d]
      /\ pc'[c] = "look" /\ held'[c] = [p \in Points |-> {pv[p]}]
  BY <1>1 DEF IInv, TypeOK
<1>6. PriorityGoverns' /\ StoreInv'
  BY <1>1, <1>5 DEF IInv, PriorityGoverns, StoreInv
<1>7. CurrentHeld'
  BY <1>1, <1>5 DEF IInv, CurrentHeld
<1>8. report[c] = {}
  BY <1>1 DEF IInv, IdleReports
<1>9. Claims' /\ IdleReports'
  BY <1>1, <1>5, <1>8 DEF IInv, Claims, Claim, IdleReports
<1> QED
  BY <1>4, <1>6, <1>7, <1>9 DEF IInv

LEMMA NameOfLooking ==
  ASSUME IInv, NEW c \in Callers, Looking(c)
  PROVE  NameOf(c) \in Names /\ InputOf(c) \in Value
<1>1. todo[c] \in Seq(Names \X Value) /\ todo[c] # <<>>
  BY DEF IInv, TypeOK, Looking
<1>2. Head(todo[c]) \in Names \X Value
  BY <1>1
<1> QED
  BY <1>2 DEF NameOf, InputOf

LEMMA SimpleAnswersIInv ==
  ASSUME IInv, NEW c \in Callers,
         SkipCommandable(c) \/ NotFound(c) \/ Unsupported(c) \/ ConversionFails(c)
  PROVE  IInv'
<1>1. Looking(c)
  BY DEF SkipCommandable, NotFound, Unsupported, ConversionFails, Found
<1>2. PICK outcome \in {"skipped", "not found", "unsupported", "error"} :
        Answer(c, Entry(NameOf(c), outcome, Null, Null))
  BY DEF SkipCommandable, NotFound, Unsupported, ConversionFails
<1>3. Entry(NameOf(c), outcome, Null, Null) \in Entries
  BY <1>1, NameOfLooking DEF Entry, Entries, Outcomes
<1>4. Claim(Entry(NameOf(c), outcome, Null, Null), c)
  BY DEF Claim, Entry
<1> QED
  BY <1>1, <1>2, <1>3, <1>4, AnswerIInv

LEMMA UnchangedIInv ==
  ASSUME IInv, NEW c \in Callers, Unchanged(c)
  PROVE  IInv'
<1> DEFINE p == NameOf(c)
           new == Convert(p, InputOf(c))
<1>1. /\ Looking(c) /\ p \in Points /\ pv[p] = new
      /\ Answer(c, Entry(p, "unchanged", Null, new))
  BY DEF Unchanged, Updatable, Found, Differs
<1>2. pv[p] \in Value /\ p \in Names
  BY <1>1, ServiceAssumption DEF IInv, TypeOK
<1> HIDE DEF p, new
<1>3. Entry(p, "unchanged", Null, new) \in Entries
  BY <1>1, <1>2 DEF Entry, Entries, Outcomes
<1>4. Claim(Entry(p, "unchanged", Null, new), c)
  BY <1>1 DEF Claim, Entry, IInv, CurrentHeld, Looking
<1> QED
  BY <1>1, <1>3, <1>4, AnswerIInv

LEMMA ReadDifferentIInv ==
  ASSUME IInv, NEW c \in Callers, ReadDifferent(c)
  PROVE  IInv'
<1> DEFINE p == NameOf(c)
           new == Convert(p, InputOf(c))
           it == [name |-> p, new |-> new, read |-> pv[p]]
<1>1. /\ Looking(c) /\ p \in Points /\ p \notin CommandableNames
      /\ Kind[p] # "schedule" /\ Convertible(p, InputOf(c))
      /\ pc' = [pc EXCEPT ![c] = "store"]
      /\ item' = [item EXCEPT ![c] = it]
      /\ todo' = [todo EXCEPT ![c] = Tail(@)]
      /\ UNCHANGED <<pv, slot, report, held, calls>>
  BY DEF ReadDifferent, Updatable, Found, Skipped
<1>2. new \in Value
  BY <1>1, NameOfLooking, ConvertValue
<1>3. pv[p] \in Value /\ pc[c] = "look"
  BY <1>1 DEF IInv, TypeOK, Looking
<1> HIDE DEF p, new
<1>4. it \in Item
  BY <1>1, <1>2, <1>3 DEF Item
<1>5. Tail(todo[c]) \in Seq(Names \X Value)
  BY <1>1 DEF IInv, TypeOK, Looking
<1>6. pc'[c] = "store" /\ item'[c] = it /\ it.name = p /\ it.read = pv[p]
  BY <1>1 DEF IInv, TypeOK
<1>7. \A d \in Callers \ {c} : pc'[d] = pc[d] /\ item'[d] = item[d]
  BY <1>1 DEF IInv, TypeOK
<1> HIDE DEF it
<1>8. TypeOK'
  BY <1>1, <1>4, <1>5, <1>6, <1>7 DEF IInv, TypeOK
<1>9. PriorityGoverns'
  BY <1>1 DEF IInv, PriorityGoverns
<1>10. StoreInv'
  BY <1>1, <1>3, <1>6, <1>7 DEF IInv, StoreInv, CurrentHeld
<1>11. CurrentHeld'
  BY <1>1, <1>3, <1>6, <1>7 DEF IInv, CurrentHeld
<1>12. Claims' /\ IdleReports'
  BY <1>1, <1>3, <1>6, <1>7 DEF IInv, Claims, Claim, IdleReports
<1> QED
  BY <1>8, <1>9, <1>10, <1>11, <1>12 DEF IInv

-----------------------------------------------------------------------------
(* The steps that change a present value *)

\* A value given to a point is remembered by the calls under way and nothing they
\* have recorded is forgotten.
LEMMA RememberKeeps ==
  ASSUME IInv, NEW p \in Points, NEW v \in Value,
         pv' = [pv EXCEPT ![p] = v], Remember(p, v)
  PROVE  /\ pv' \in [Points -> Value]
         /\ held' \in [Callers -> [Points -> SUBSET Value]]
         /\ \A d \in Callers : \A q \in Points : held[d][q] \subseteq held'[d][q]
         /\ \A d \in Callers : pc[d] # "idle" => v \in held'[d][p]
         /\ \A d \in Callers : pc[d] # "idle" => \A q \in Points : pv'[q] \in held'[d][q]
<1>1. /\ pv \in [Points -> Value]
      /\ held \in [Callers -> [Points -> SUBSET Value]]
  BY DEF IInv, TypeOK
<1>2. /\ pv' \in [Points -> Value]
      /\ pv'[p] = v
      /\ \A q \in Points \ {p} : pv'[q] = pv[q]
  BY <1>1
<1>3. ASSUME NEW d \in Callers
      PROVE  /\ held'[d] \in [Points -> SUBSET Value]
             /\ \A q \in Points : held[d][q] \subseteq held'[d][q]
             /\ pc[d] # "idle" => v \in held'[d][p]
  <2>1. held'[d] = IF pc[d] = "idle" THEN held[d]
                   ELSE [held[d] EXCEPT ![p] = @ \cup {v}]
    BY DEF Remember
  <2>2. held[d] \in [Points -> SUBSET Value]
    BY <1>1
  <2> QED
    BY <2>1, <2>2
<1>4. held' \in [Callers -> [Points -> SUBSET Value]]
  <2>1. held' = [d \in Callers |-> held'[d]]
    BY DEF Remember
  <2> QED
    BY <2>1, <1>3
<1>5. \A d \in Callers : pc[d] # "idle" => \A q \in Points : pv'[q] \in held'[d][q]
  BY <1>2, <1>3 DEF IInv, CurrentHeld
<1> QED
  BY <1>2, <1>3, <1>4, <1>5

\* What a call has claimed stays true as values are remembered.
LEMMA ClaimsKept ==
  ASSUME IInv, NEW c \in Callers, NEW e \in report[c],
         \A q \in Points : held[c][q] \subseteq held'[c][q]
  PROVE  Claim(e, c)'
<1>1. Claim(e, c)
  BY DEF IInv, Claims
<1> QED
  BY <1>1 DEF Claim

LEMMA StoreIInv ==
  ASSUME IInv, NEW c \in Callers, Store(c)
  PROVE  IInv'
<1> DEFINE p == item[c].name
           new == item[c].new
           e == Entry(p, "changed", item[c].read, new)
<1>1. /\ pc[c] = "store"
      /\ pv' = [pv EXCEPT ![p] = new]
      /\ Remember(p, pv'[p])
      /\ report' = [report EXCEPT ![c] = @ \cup {e}]
      /\ pc' = [pc EXCEPT ![c] = "look"]
      /\ item' = [item EXCEPT ![c] = Null]
      /\ UNCHANGED <<slot, todo, calls>>
  BY DEF Store, Assign
<1>2. item[c] \in Item
  BY <1>1 DEF IInv, TypeOK
<1>3. p \in Points /\ new \in Value /\ item[c].read \in Value /\ p \in Names
  BY <1>2, ServiceAssumption DEF Item
<1>4. pv'[p] = new
  BY <1>1, <1>3 DEF IInv, TypeOK
<1>5. /\ pv' \in [Points -> Value]
      /\ held' \in [Callers -> [Points -> SUBSET Value]]
      /\ \A d \in Callers : \A q \in Points : held[d][q] \subseteq held'[d][q]
      /\ \A d \in Callers : pc[d] # "idle" => new \in held'[d][p]
      /\ \A d \in Callers : pc[d] # "idle" => \A q \in Points : pv'[q] \in held'[d][q]
  BY <1>1, <1>3, <1>4, RememberKeeps
<1>6. e \in Entries
  BY <1>3 DEF Entry, Entries, Outcomes
<1>7. item[c].read \in held[c][p] /\ p \notin CommandableNames
  BY <1>1 DEF IInv, StoreInv
<1>8. \A x : x = e => Claim(x, c)'
  <2>1. {item[c].read, new} \subseteq held'[c][p]
    BY <1>1, <1>3, <1>5, <1>7
  <2>2. e.outcome = "changed" /\ e.name = p /\ e.from = item[c].read /\ e.to = new
    BY DEF Entry
  <2> HIDE DEF e
  <2> QED
    BY <1>3, <2>1, <2>2 DEF Claim
<1> HIDE DEF e
<1>9. /\ \A d \in Callers \ {c} : pc'[d] = pc[d] /\ item'[d] = item[d] /\ report'[d] = report[d]
      /\ pc'[c] = "look" /\ item'[c] = Null /\ report'[c] = report[c] \cup {e}
  BY <1>1 DEF IInv, TypeOK
<1>10. TypeOK'
  <2>1. pc' \in [Callers -> {"idle", "look", "store"}] /\ item' \in [Callers -> Item \cup {Null}]
    BY <1>1 DEF IInv, TypeOK
  <2>2. report' \in [Callers -> SUBSET Entries]
    BY <1>1, <1>6 DEF IInv, TypeOK
  <2>3. \A d \in Callers : pc'[d] = "store" => item'[d] \in Item
    BY <1>9 DEF IInv, TypeOK
  <2> QED
    BY <1>1, <1>5, <2>1, <2>2, <2>3 DEF IInv, TypeOK, Item, Entries
<1>11. PriorityGoverns'
  BY <1>1, <1>3, <1>7, ServiceAssumption DEF IInv, TypeOK, PriorityGoverns
<1>12. StoreInv'
  <2> SUFFICES ASSUME NEW d \in Callers, pc'[d] = "store"
               PROVE  /\ item'[d].name \notin CommandableNames
                      /\ item'[d].read \in held'[d][item'[d].name]
    BY DEF StoreInv
  <2>1. d # c /\ item'[d] = item[d] /\ pc[d] = "store"
    BY <1>9
  <2>2. item[d].name \in Points
    BY <2>1 DEF IInv, TypeOK, Item
  <2> QED
    BY <1>5, <2>1, <2>2 DEF IInv, StoreInv
<1>13. CurrentHeld'
  BY <1>1, <1>5, <1>9 DEF CurrentHeld
<1>14. Claims'
  <2> SUFFICES ASSUME NEW d \in Callers, NEW x \in report'[d] PROVE Claim(x, d)'
    BY DEF Claims
  <2>1. CASE d = c /\ x = e
    BY <1>8, <2>1
  <2>2. CASE x \in report[d]
    BY <1>5, <2>2, ClaimsKept
  <2> QED
    BY <1>9, <2>1, <2>2
<1>15. IdleReports'
  BY <1>9 DEF IInv, IdleReports
<1> QED
  BY <1>10, <1>11, <1>12, <1>13, <1>14, <1>15 DEF IInv

\* A failed assignment leaves an entry that claims nothing.
LEMMA StoreFailsIInv ==
  ASSUME IInv, NEW c \in Callers, StoreFails(c)
  PROVE  IInv'
<1> DEFINE e == Entry(item[c].name, "error", Null, Null)
<1>1. /\ pc[c] = "store"
      /\ report' = [report EXCEPT ![c] = @ \cup {e}]
      /\ pc' = [pc EXCEPT ![c] = "look"]
      /\ item' = [item EXCEPT ![c] = Null]
      /\ UNCHANGED <<pv, slot, todo, held, calls>>
  BY DEF StoreFails
<1>2. e \in Entries
  BY <1>1, ServiceAssumption DEF IInv, TypeOK, Item, Entry, Entries, Outcomes
<1>3. e.outcome = "error"
  BY DEF Entry
<1> HIDE DEF e
<1>4. /\ \A d \in Callers \ {c} : pc'[d] = pc[d] /\ item'[d] = item[d] /\ report'[d] = report[d]
      /\ pc'[c] = "look" /\ item'[c] = Null /\ report'[c] = report[c] \cup {e}
  BY <1>1 DEF IInv, TypeOK
<1>5. TypeOK'
  <2>1. pc' \in [Callers -> {"idle", "look", "store"}] /\ item' \in [Callers -> Item \cup {Null}]
    BY <1>1 DEF IInv, TypeOK
  <2>2. report' \in [Callers -> SUBSET Entries]
    BY <1>1, <1>2 DEF IInv, TypeOK
  <2>3. \A d \in Callers : pc'[d] = "store" => item'[d] \in Item
    BY <1>4 DEF IInv, TypeOK
  <2> QED
    BY <1>1, <2>1, <2>2, <2>3 DEF IInv, TypeOK, Item, Entries
<1>6. PriorityGoverns' /\ StoreInv' /\ CurrentHeld' /\ IdleReports'
  BY <1>1, <1>4 DEF IInv, PriorityGoverns, StoreInv, CurrentHeld, IdleReports
<1>7. Claims'
  BY <1>1, <1>3, <1>4 DEF IInv, Claims, Claim
<1> QED
  BY <1>5, <1>6, <1>7 DEF IInv

LEMMA ReturnIInv ==
  ASSUME IInv, NEW c \in Callers, Return(c)
  PROVE  IInv'
<1>1. /\ pc' = [pc EXCEPT ![c] = "idle"]
      /\ report' = [report EXCEPT ![c] = {}]
      /\ held' = [held EXCEPT ![c] = [p \in Points |-> {}]]
      /\ UNCHANGED <<pv, slot, todo, item, calls>>
  BY DEF Return
<1>2. /\ \A d \in Callers \ {c} : pc'[d] = pc[d] /\ held'[d] = held[d] /\ report'[d] = report[d]
      /\ pc'[c] = "idle" /\ report'[c] = {} /\ held'[c] = [p \in Points |-> {}]
  BY <1>1 DEF IInv, TypeOK
<1>3. TypeOK'
  BY <1>1, <1>2 DEF IInv, TypeOK, Item, Entries
<1>4. PriorityGoverns' /\ StoreInv' /\ CurrentHeld'
  BY <1>1, <1>2 DEF IInv, PriorityGoverns, StoreInv, CurrentHeld
<1>5. Claims' /\ IdleReports'
  BY <1>1, <1>2 DEF IInv, Claims, Claim, IdleReports
<1> QED
  BY <1>3, <1>4, <1>5 DEF IInv

\* A BACnet client's write may hit a point that a call has read and is about to store; what
\* the call read is still among the values held.
LEMMA BacnetWriteIInv == IInv /\ BacnetWrite => IInv'
<1>1. ASSUME IInv, NEW p \in Points, NEW v \in Value,
             pv' = [pv EXCEPT ![p] = v], Remember(p, v),
             slot' \in [Arrayed -> [Priorities -> Value \cup {Null}]],
             UNCHANGED <<pc, todo, item, report, calls>>,
             PriorityGoverns'
      PROVE  IInv'
  <2>2. /\ pv' \in [Points -> Value]
        /\ held' \in [Callers -> [Points -> SUBSET Value]]
        /\ \A d \in Callers : \A q \in Points : held[d][q] \subseteq held'[d][q]
        /\ \A d \in Callers : pc[d] # "idle" => \A q \in Points : pv'[q] \in held'[d][q]
    BY <1>1, RememberKeeps
  <2>3. TypeOK'
    BY <1>1, <2>2 DEF IInv, TypeOK
  <2>4. StoreInv'
    <3> SUFFICES ASSUME NEW d \in Callers, pc[d] = "store"
                 PROVE  /\ item[d].name \notin CommandableNames
                        /\ item[d].read \in held'[d][item[d].name]
      BY <1>1 DEF StoreInv
    <3>1. item[d].name \in Points
      BY <1>1 DEF IInv, TypeOK, Item
    <3> QED
      BY <1>1, <2>2, <3>1 DEF IInv, StoreInv
  <2>5. CurrentHeld' /\ IdleReports'
    BY <1>1, <2>2 DEF IInv, CurrentHeld, IdleReports
  <2>6. Claims'
    BY <1>1, <2>2, ClaimsKept DEF Claims
  <2> QED
    BY <1>1, <2>3, <2>4, <2>5, <2>6 DEF IInv
<1>2. ASSUME IInv, NEW p \in Arrayed, NEW k \in Priorities, NEW v \in Commands[p] \cup {Null},
             WriteSlot(p, k, v)
      PROVE  IInv'
  <2>1. /\ slot' = [slot EXCEPT ![p][k] = v]
        /\ pv' = [pv EXCEPT ![p] = Effective(slot'[p])]
        /\ Remember(p, pv'[p])
        /\ UNCHANGED <<pc, todo, item, report, calls>>
    BY <1>2 DEF WriteSlot
  <2>2. slot' \in [Arrayed -> [Priorities -> Value \cup {Null}]]
    BY <1>2, <2>1, ServiceAssumption DEF IInv, TypeOK, Value
  <2>3. Effective(slot'[p]) \in Value
    BY <2>2, EffectiveValue
  <2>4. p \in Points
    BY ServiceAssumption
  <2>5. /\ pv'[p] = Effective(slot'[p])
        /\ \A q \in Points \ {p} : pv'[q] = pv[q]
        /\ \A q \in Arrayed \ {p} : slot'[q] = slot[q]
    BY <1>2, <2>1, <2>4 DEF IInv, TypeOK
  <2>6. PriorityGoverns'
    BY <1>2, <2>5, ServiceAssumption DEF IInv, PriorityGoverns
  <2> QED
    BY <1>1, <1>2, <2>1, <2>2, <2>3, <2>4, <2>5, <2>6
<1>3. ASSUME IInv, NEW p \in Points \ Arrayed, NEW v \in Commands[p], WriteDirect(p, v)
      PROVE  IInv'
  <2>1. /\ pv' = [pv EXCEPT ![p] = v]
        /\ Remember(p, v)
        /\ UNCHANGED <<slot, pc, todo, item, report, calls>>
    BY <1>3 DEF WriteDirect
  <2>2. v \in Value
    BY ServiceAssumption DEF Value
  <2>3. PriorityGoverns'
    BY <1>3, <2>1, ServiceAssumption DEF IInv, TypeOK, PriorityGoverns
  <2> QED
    BY <1>1, <1>3, <2>1, <2>2, <2>3 DEF IInv, TypeOK
<1> QED
  BY <1>2, <1>3 DEF BacnetWrite

LEMMA NextIInv == IInv /\ [Next]_vars => IInv'
<1> SUFFICES ASSUME IInv, [Next]_vars PROVE IInv'
  OBVIOUS
<1>1. ASSUME NEW c \in Callers, Step(c) PROVE IInv'
  BY <1>1, BeginIInv, SimpleAnswersIInv, UnchangedIInv, ReadDifferentIInv, StoreIInv,
     StoreFailsIInv, ReturnIInv DEF Step
<1>2. CASE UNCHANGED vars
  BY <1>2 DEF vars, IInv, TypeOK, PriorityGoverns, StoreInv, CurrentHeld, Claims, Claim,
              IdleReports
<1> QED
  BY <1>1, <1>2, BacnetWriteIInv DEF Next

-----------------------------------------------------------------------------
(* No name is lost: EveryNameHandled *)

NamesIn(request) == {request[i][1] : i \in DOMAIN request}

Reported(c) == {e.name : e \in report[c]}

Storing(c) == IF pc[c] = "store" THEN {item[c].name} ELSE {}

\* The names a call was given are those it has reported, the one it is storing and
\* those it has not come to.
NamesKept ==
  /\ asked \in [Callers -> Seq(Names \X Value)]
  /\ \A c \in Callers : pc[c] # "idle" =>
       NamesIn(asked[c]) = Reported(c) \cup Storing(c) \cup NamesIn(todo[c])

\* Taking the head off the names still to do.
LEMMA NamesInTail ==
  ASSUME NEW request \in Seq(Names \X Value), request # <<>>
  PROVE  NamesIn(request) = {Head(request)[1]} \cup NamesIn(Tail(request))
<1>1. /\ Len(request) \in Nat /\ Len(request) > 0
      /\ DOMAIN request = 1 .. Len(request)
      /\ Head(request) = request[1]
      /\ DOMAIN Tail(request) = 1 .. (Len(request) - 1)
      /\ \A i \in 1 .. (Len(request) - 1) : Tail(request)[i] = request[i + 1]
  OBVIOUS
<1>2. ASSUME NEW i \in 1 .. Len(request)
      PROVE  request[i][1] \in {Head(request)[1]} \cup NamesIn(Tail(request))
  <2>1. CASE i = 1
    BY <1>1, <2>1
  <2>2. CASE i # 1
    <3>1. i - 1 \in 1 .. (Len(request) - 1) /\ (i - 1) + 1 = i
      BY <1>1, <2>2
    <3>2. Tail(request)[i - 1] = request[i]
      BY <1>1, <3>1
    <3> QED
      BY <1>1, <3>1, <3>2 DEF NamesIn
  <2> QED
    BY <2>1, <2>2
<1>3. ASSUME NEW i \in 1 .. (Len(request) - 1)
      PROVE  Tail(request)[i][1] \in NamesIn(request)
  <2>1. i + 1 \in DOMAIN request /\ Tail(request)[i] = request[i + 1]
    BY <1>1
  <2> QED
    BY <2>1 DEF NamesIn
<1>4. Head(request)[1] \in NamesIn(request)
  BY <1>1 DEF NamesIn
<1> QED
  BY <1>1, <1>2, <1>3, <1>4 DEF NamesIn

\* The entry made for a name takes the name's place.
LEMMA AnswerNames ==
  ASSUME TypeOK, NamesKept, NEW c \in Callers, Looking(c), NEW e, e.name = NameOf(c),
         Answer(c, e)
  PROVE  NamesKept'
<1>1. /\ report' = [report EXCEPT ![c] = @ \cup {e}]
      /\ todo' = [todo EXCEPT ![c] = Tail(@)]
      /\ pc' = pc /\ item' = item /\ asked' = asked
  BY DEF Answer
<1>2. /\ \A d \in Callers \ {c} : report'[d] = report[d] /\ todo'[d] = todo[d]
      /\ report'[c] = report[c] \cup {e} /\ todo'[c] = Tail(todo[c])
  BY <1>1 DEF TypeOK
<1>3. NamesIn(todo[c]) = {e.name} \cup NamesIn(Tail(todo[c]))
  BY NamesInTail DEF TypeOK, Looking, NameOf
<1>4. Reported(c)' = Reported(c) \cup {e.name}
  BY <1>2 DEF Reported
<1>5. \A d \in Callers \ {c} : Reported(d)' = Reported(d) /\ NamesIn(todo[d])' = NamesIn(todo[d])
  BY <1>2 DEF Reported, NamesIn
<1>6. NamesIn(todo[c])' = NamesIn(Tail(todo[c]))
  BY <1>2 DEF NamesIn
<1>7. \A d \in Callers : Storing(d)' = Storing(d) /\ NamesIn(asked[d])' = NamesIn(asked[d])
  BY <1>1 DEF Storing, NamesIn
<1>8. ASSUME NEW d \in Callers, pc'[d] # "idle"
      PROVE  NamesIn(asked[d])' = Reported(d)' \cup Storing(d)' \cup NamesIn(todo[d])'
  <2>1. NamesIn(asked[d]) = Reported(d) \cup Storing(d) \cup NamesIn(todo[d])
    BY <1>1, <1>8 DEF NamesKept
  <2>2. CASE d = c
    BY <1>3, <1>4, <1>6, <1>7, <2>1, <2>2
  <2>3. CASE d # c
    BY <1>5, <1>7, <2>1, <2>3
  <2> QED
    BY <2>2, <2>3
<1> QED
  BY <1>1, <1>8 DEF NamesKept

\* The name found different moves from the names to do to the one being stored.
LEMMA ReadDifferentNames ==
  ASSUME TypeOK, NamesKept, NEW c \in Callers, ReadDifferent(c)
  PROVE  NamesKept'
<1>1. /\ Looking(c)
      /\ pc' = [pc EXCEPT ![c] = "store"]
      /\ item' = [item EXCEPT ![c] = [name |-> NameOf(c), new |-> Convert(NameOf(c), InputOf(c)),
                                      read |-> pv[NameOf(c)]]]
      /\ todo' = [todo EXCEPT ![c] = Tail(@)]
      /\ report' = report /\ asked' = asked
  BY DEF ReadDifferent, Updatable, Found
<1>2. /\ \A d \in Callers \ {c} : pc'[d] = pc[d] /\ item'[d] = item[d] /\ todo'[d] = todo[d]
      /\ pc'[c] = "store" /\ item'[c].name = NameOf(c) /\ todo'[c] = Tail(todo[c])
      /\ pc[c] = "look"
  BY <1>1 DEF TypeOK, Looking
<1>3. NamesIn(todo[c]) = {NameOf(c)} \cup NamesIn(Tail(todo[c]))
  BY <1>1, NamesInTail DEF TypeOK, Looking, NameOf
<1>4. Storing(c) = {} /\ Storing(c)' = {NameOf(c)}
  BY <1>2 DEF Storing
<1>5. \A d \in Callers \ {c} : Storing(d)' = Storing(d) /\ NamesIn(todo[d])' = NamesIn(todo[d])
  BY <1>2 DEF Storing, NamesIn
<1>6. NamesIn(todo[c])' = NamesIn(Tail(todo[c]))
  BY <1>2 DEF NamesIn
<1>7. \A d \in Callers : Reported(d)' = Reported(d) /\ NamesIn(asked[d])' = NamesIn(asked[d])
  BY <1>1 DEF Reported, NamesIn
<1>8. ASSUME NEW d \in Callers, pc'[d] # "idle"
      PROVE  NamesIn(asked[d])' = Reported(d)' \cup Storing(d)' \cup NamesIn(todo[d])'
  <2>1. NamesIn(asked[d]) = Reported(d) \cup Storing(d) \cup NamesIn(todo[d])
    BY <1>2, <1>8 DEF NamesKept
  <2>2. CASE d = c
    BY <1>3, <1>4, <1>6, <1>7, <2>1, <2>2
  <2>3. CASE d # c
    BY <1>5, <1>7, <2>1, <2>3
  <2> QED
    BY <2>2, <2>3
<1> QED
  BY <1>1, <1>8 DEF NamesKept

\* The entry made for the name that was being stored takes its place.
LEMMA StoredName ==
  ASSUME TypeOK, NamesKept, NEW c \in Callers, pc[c] = "store", NEW e, e.name = item[c].name,
         report' = [report EXCEPT ![c] = @ \cup {e}],
         pc' = [pc EXCEPT ![c] = "look"],
         item' = [item EXCEPT ![c] = Null],
         todo' = todo, asked' = asked
  PROVE  NamesKept'
<1>3. /\ \A d \in Callers \ {c} : pc'[d] = pc[d] /\ item'[d] = item[d] /\ report'[d] = report[d]
      /\ pc'[c] = "look" /\ report'[c] = report[c] \cup {e}
  BY DEF TypeOK
<1>4. Storing(c) = {e.name} /\ Storing(c)' = {} /\ Reported(c)' = Reported(c) \cup {e.name}
  BY <1>3 DEF Storing, Reported
<1>5. \A d \in Callers \ {c} : Storing(d)' = Storing(d) /\ Reported(d)' = Reported(d)
  BY <1>3 DEF Storing, Reported
<1>6. \A d \in Callers : /\ NamesIn(todo[d])' = NamesIn(todo[d])
                         /\ NamesIn(asked[d])' = NamesIn(asked[d])
  BY DEF NamesIn
<1>7. ASSUME NEW d \in Callers, pc'[d] # "idle"
      PROVE  NamesIn(asked[d])' = Reported(d)' \cup Storing(d)' \cup NamesIn(todo[d])'
  <2>1. NamesIn(asked[d]) = Reported(d) \cup Storing(d) \cup NamesIn(todo[d])
    BY <1>3, <1>7 DEF NamesKept
  <2>2. CASE d = c
    BY <1>4, <1>6, <2>1, <2>2
  <2>3. CASE d # c
    BY <1>5, <1>6, <2>1, <2>3
  <2> QED
    BY <2>2, <2>3
<1> QED
  BY <1>7 DEF NamesKept

\* The stored name gets its entry.
LEMMA StoreNames ==
  ASSUME TypeOK, NamesKept, NEW c \in Callers, Store(c)
  PROVE  NamesKept'
<1> DEFINE e == Entry(item[c].name, "changed", item[c].read, item[c].new)
<1>1. /\ pc[c] = "store"
      /\ report' = [report EXCEPT ![c] = @ \cup {e}]
      /\ pc' = [pc EXCEPT ![c] = "look"]
      /\ item' = [item EXCEPT ![c] = Null]
      /\ todo' = todo /\ asked' = asked
  BY DEF Store
<1>2. e.name = item[c].name
  BY DEF Entry
<1> QED
  BY <1>1, <1>2, StoredName

\* The name whose assignment raised gets its entry too.
LEMMA StoreFailsNames ==
  ASSUME TypeOK, NamesKept, NEW c \in Callers, StoreFails(c)
  PROVE  NamesKept'
<1> DEFINE e == Entry(item[c].name, "error", Null, Null)
<1>1. /\ pc[c] = "store"
      /\ report' = [report EXCEPT ![c] = @ \cup {e}]
      /\ pc' = [pc EXCEPT ![c] = "look"]
      /\ item' = [item EXCEPT ![c] = Null]
      /\ todo' = todo /\ asked' = asked
  BY DEF StoreFails
<1>2. e.name = item[c].name
  BY DEF Entry
<1> QED
  BY <1>1, <1>2, StoredName

\* A call begins with every name to do and ends with none of the books open.
LEMMA BeginReturnNames ==
  ASSUME TypeOK, IdleReports, NamesKept, NEW c \in Callers,
         Return(c) \/ \E request \in Requests : Begin(c, request)
  PROVE  NamesKept'
<1>1. CASE Return(c)
  <2>1. /\ pc' = [pc EXCEPT ![c] = "idle"] /\ report' = [report EXCEPT ![c] = {}]
        /\ asked' = [asked EXCEPT ![c] = <<>>] /\ todo' = todo /\ item' = item
    BY <1>1 DEF Return
  <2>2. /\ asked' \in [Callers -> Seq(Names \X Value)]
        /\ pc'[c] = "idle"
        /\ \A d \in Callers \ {c} : /\ pc'[d] = pc[d] /\ report'[d] = report[d]
                                    /\ asked'[d] = asked[d]
    BY <2>1 DEF TypeOK, NamesKept
  <2>3. \A d \in Callers \ {c} : /\ NamesIn(asked[d])' = NamesIn(asked[d])
                                /\ NamesIn(todo[d])' = NamesIn(todo[d])
                                /\ Reported(d)' = Reported(d) /\ Storing(d)' = Storing(d)
    BY <2>1, <2>2 DEF NamesIn, Reported, Storing
  <2> QED
    BY <2>2, <2>3 DEF NamesKept
<1>2. ASSUME NEW request \in Requests, Begin(c, request)
      PROVE  NamesKept'
  <2>1. /\ pc[c] = "idle" /\ pc' = [pc EXCEPT ![c] = "look"]
        /\ todo' = [todo EXCEPT ![c] = request] /\ asked' = [asked EXCEPT ![c] = request]
        /\ report' = report /\ item' = item
    BY <1>2 DEF Begin
  <2>2. /\ asked' \in [Callers -> Seq(Names \X Value)]
        /\ pc'[c] = "look" /\ todo'[c] = request /\ asked'[c] = request /\ report'[c] = {}
        /\ \A d \in Callers \ {c} : /\ pc'[d] = pc[d] /\ todo'[d] = todo[d]
                                    /\ asked'[d] = asked[d]
    BY <2>1, ServiceAssumption DEF TypeOK, NamesKept, IdleReports
  <2>3. \A d \in Callers \ {c} : /\ NamesIn(asked[d])' = NamesIn(asked[d])
                                /\ NamesIn(todo[d])' = NamesIn(todo[d])
                                /\ Reported(d)' = Reported(d) /\ Storing(d)' = Storing(d)
    BY <2>1, <2>2 DEF NamesIn, Reported, Storing
  <2>4. /\ NamesIn(asked[c])' = NamesIn(todo[c])'
        /\ Reported(c)' = {} /\ Storing(c)' = {}
    BY <2>2 DEF NamesIn, Reported, Storing
  <2>5. ASSUME NEW d \in Callers, pc'[d] # "idle"
        PROVE  NamesIn(asked[d])' = Reported(d)' \cup Storing(d)' \cup NamesIn(todo[d])'
    <3>1. CASE d = c
      BY <2>4, <3>1
    <3>2. CASE d # c
      <4>1. NamesIn(asked[d]) = Reported(d) \cup Storing(d) \cup NamesIn(todo[d])
        BY <2>2, <2>5, <3>2 DEF NamesKept
      <4> QED
        BY <2>3, <3>2, <4>1
    <3> QED
      BY <3>1, <3>2
  <2> QED
    BY <2>2, <2>5 DEF NamesKept
<1> QED
  BY <1>1, <1>2

LEMMA NextNames == TypeOK /\ IdleReports /\ NamesKept /\ [Next]_vars => NamesKept'
<1> SUFFICES ASSUME TypeOK, IdleReports, NamesKept, [Next]_vars PROVE NamesKept'
  OBVIOUS
<1>1. ASSUME NEW c \in Callers, Step(c) PROVE NamesKept'
  <2>1. CASE SkipCommandable(c) \/ NotFound(c) \/ Unsupported(c) \/ ConversionFails(c)
    <3>1. PICK outcome : Answer(c, Entry(NameOf(c), outcome, Null, Null))
      BY <2>1 DEF SkipCommandable, NotFound, Unsupported, ConversionFails
    <3>2. Looking(c) /\ Entry(NameOf(c), outcome, Null, Null).name = NameOf(c)
      BY <2>1 DEF SkipCommandable, NotFound, Unsupported, ConversionFails, Found, Entry
    <3> QED
      BY <3>1, <3>2, AnswerNames
  <2>2. CASE Unchanged(c)
    <3>1. PICK new : Answer(c, Entry(NameOf(c), "unchanged", Null, new))
      BY <2>2 DEF Unchanged
    <3>2. Looking(c) /\ Entry(NameOf(c), "unchanged", Null, new).name = NameOf(c)
      BY <2>2 DEF Unchanged, Updatable, Found, Entry
    <3> QED
      BY <3>1, <3>2, AnswerNames
  <2> QED
    BY <1>1, <2>1, <2>2, ReadDifferentNames, StoreNames, StoreFailsNames,
       BeginReturnNames DEF Step
<1>2. CASE BacnetWrite \/ UNCHANGED vars
  <2>1. UNCHANGED <<pc, todo, item, report, asked>>
    BY <1>2 DEF BacnetWrite, WriteSlot, WriteDirect, vars
  <2>2. \A d \in Callers : /\ NamesIn(asked[d])' = NamesIn(asked[d])
                          /\ NamesIn(todo[d])' = NamesIn(todo[d])
                          /\ Reported(d)' = Reported(d) /\ Storing(d)' = Storing(d)
    BY <2>1 DEF NamesIn, Reported, Storing
  <2> QED
    BY <2>1, <2>2 DEF NamesKept
<1> QED
  BY <1>1, <1>2 DEF Next

-----------------------------------------------------------------------------
(* The event loop runs one update at a time: NoStaleStore *)

OneCoroutine == \A c, d \in Coroutines : pc[c] # "idle" /\ pc[d] # "idle" => c = d

\* Only a caller's own step moves it, and only Begin takes it from idle.
LEMMA StepMoves ==
  ASSUME TypeOK, NEW c \in Callers, Step(c)
  PROVE  /\ \A d \in Callers \ {c} : pc'[d] = pc[d]
         /\ pc[c] = "idle" => MayRun(c)
<1>1. pc' = pc \/ \E s \in {"idle", "look", "store"} : pc' = [pc EXCEPT ![c] = s]
  BY DEF Step, Begin, SkipCommandable, NotFound, Unsupported, ConversionFails, Unchanged,
         Answer, ReadDifferent, Store, StoreFails, Return
<1>2. \A d \in Callers \ {c} : pc'[d] = pc[d]
  BY <1>1 DEF TypeOK
<1>3. pc[c] = "idle" => MayRun(c)
  BY DEF Step, Begin, SkipCommandable, NotFound, Unsupported, ConversionFails, Unchanged,
         Updatable, Found, Looking, ReadDifferent, Store, StoreFails, Return
<1> QED
  BY <1>2, <1>3

LEMMA NextOneCoroutine == TypeOK /\ OneCoroutine /\ [Next]_vars => OneCoroutine'
<1> SUFFICES ASSUME TypeOK, OneCoroutine, [Next]_vars PROVE OneCoroutine'
  OBVIOUS
<1>1. ASSUME NEW c \in Callers, Step(c) PROVE OneCoroutine'
  <2>1. CASE c \in Coroutines /\ pc[c] = "idle"
    BY <1>1, <2>1, StepMoves, ServiceAssumption DEF MayRun, LoopFree, OneCoroutine, Callers
  <2>2. CASE ~(c \in Coroutines /\ pc[c] = "idle")
    BY <1>1, <2>2, StepMoves DEF OneCoroutine, Callers
  <2> QED
    BY <2>1, <2>2
<1>2. CASE BacnetWrite \/ UNCHANGED vars
  <2>1. pc' = pc
    BY <1>2 DEF BacnetWrite, WriteSlot, WriteDirect, vars
  <2> QED
    BY <2>1 DEF OneCoroutine
<1> QED
  BY <1>1, <1>2 DEF Next

\* A present value changes by a BACnet write, with the loop free, or by a store.
LEMMA WhoWrites ==
  ASSUME TypeOK, OneCoroutine, Next, pv' # pv,
         NEW c \in Coroutines, pc[c] = "store", pc'[c] = "store"
  PROVE  \E w \in Workers : pc[w] = "store" /\ pc'[w] # "store"
<1>1. ~BacnetWrite
  BY DEF BacnetWrite, WriteSlot, WriteDirect, LoopFree
<1>2. PICK d \in Callers : Step(d)
  BY <1>1 DEF Next
<1>3. Store(d)
  BY <1>2 DEF Step, Begin, SkipCommandable, NotFound, Unsupported, ConversionFails,
              Unchanged, Answer, ReadDifferent, StoreFails, Return
<1>4. pc[d] = "store" /\ pc'[d] = "look"
  BY <1>3 DEF Store, TypeOK
<1>5. d \notin Coroutines
  BY <1>4 DEF OneCoroutine
<1> QED
  BY <1>2, <1>4, <1>5 DEF Callers

-----------------------------------------------------------------------------
(* What the invariant gives *)

\* The inductive invariant holds in every reachable state.
THEOREM ServiceInvariant == Spec => []IInv
<1> QED
  BY InitIInv, NextIInv, PTL DEF Spec

\* Every state has its type (rpc_methods.py:100-161).
THEOREM ServiceTypes == Spec => []TypeOK
BY ServiceInvariant, PTL DEF IInv

\* A commandable point shows what its highest priority commands, whatever agents
\* update and however threads interleave (rpc_methods.py:104-111).
THEOREM PriorityAlwaysGoverns == Spec => []PriorityGoverns
BY ServiceInvariant, PTL DEF IInv

\* Every "changed from X to Y" and every silent "already so" tells something that
\* was true during the call (rpc_methods.py:119-155).
THEOREM ReportsAlwaysWitnessed == Spec => []ReportsWitnessed
<1>1. IInv => ReportsWitnessed
  BY DEF IInv, Claims, Claim, ReportsWitnessed
<1> QED
  BY <1>1, ServiceInvariant, PTL

\* A call that has come to its end has dealt with every name it was given
\* (rpc_methods.py:118, 158-160).
THEOREM NoNameLost == Spec => []EveryNameHandled
<1>1. Init => NamesKept
  BY DEF Init, NamesKept
<1>2. NamesKept => EveryNameHandled
  <2> SUFFICES ASSUME NamesKept, NEW c \in Callers, pc[c] = "look", todo[c] = <<>>
               PROVE  NamesIn(asked[c]) = Reported(c)
    BY DEF EveryNameHandled, NamesIn, Reported
  <2>1. NamesIn(asked[c]) = Reported(c) \cup Storing(c) \cup NamesIn(todo[c])
    BY DEF NamesKept
  <2>2. Storing(c) = {} /\ NamesIn(todo[c]) = {}
    BY DEF Storing, NamesIn
  <2> QED
    BY <2>1, <2>2
<1>3. IInv => TypeOK /\ IdleReports
  BY DEF IInv
<1> QED
  BY <1>1, <1>2, <1>3, ServiceInvariant, NextNames, PTL DEF Spec

\* What a coroutine read is still there when it stores, unless a thread changed it
\* (mqtt_bridge.py:280, mqtt_rpc_gateway.py:345, rpc_methods.py:121-126).
THEOREM NeverStaleStore == Spec => NoStaleStore
<1> DEFINE Fresh ==
      \A c \in Coroutines :
        (pc[c] = "store" /\ pc'[c] = "store" /\ pv'[item[c].name] # pv[item[c].name])
          => \E w \in Workers : pc[w] = "store" /\ pc'[w] # "store"
<1>1. Init => OneCoroutine
  BY DEF Init, OneCoroutine, Callers
<1>2. TypeOK /\ OneCoroutine /\ [Next]_vars => [Fresh]_vars
  <2> SUFFICES ASSUME TypeOK, OneCoroutine, Next PROVE Fresh
    OBVIOUS
  <2> QED
    BY WhoWrites
<1> QED
  BY <1>1, <1>2, ServiceTypes, NextOneCoroutine, PTL DEF Spec, NoStaleStore

-----------------------------------------------------------------------------
(* Points that only the loop's agents update *)

\* No HTTP call has found p different and is about to store it.
NoThreadOn(p) == \A w \in Workers : pc[w] = "store" => item[w].name # p

\* The value that a store is about to replace is the one its call read, which is the one
\* its entry will report as replaced.
Exact(p) == \A c \in Callers : pc[c] = "store" /\ item[c].name = p => pv[p] = item[c].read

\* Only a store on p, a write with the loop free, or a call that has just read p tells
\* about p (rpc_methods.py:121-153).
LEMMA NextExact ==
  ASSUME NEW p \in Points, TypeOK, OneCoroutine, NoThreadOn(p), NoThreadOn(p)', Exact(p),
         [Next]_vars
  PROVE  Exact(p)'
<1> SUFFICES ASSUME NEW c \in Callers, pc'[c] = "store", item'[c].name = p
             PROVE  pv'[p] = item'[c].read
  BY DEF Exact
<1>0. c \in Coroutines
  BY DEF NoThreadOn, Callers
<1>1. CASE UNCHANGED vars
  BY <1>1 DEF vars, Exact
<1>2. CASE BacnetWrite
  <2>1. LoopFree /\ pc' = pc
    BY <1>2 DEF BacnetWrite, WriteSlot, WriteDirect
  <2> QED
    BY <1>0, <2>1 DEF LoopFree
<1>3. ASSUME NEW d \in Callers, Step(d), ~Store(d), ~StoreFails(d), ~ReadDifferent(d)
      PROVE  pv'[p] = item'[c].read
  <2>1. pv' = pv /\ item' = item
    BY <1>3 DEF Step, Begin, SkipCommandable, NotFound, Unsupported, ConversionFails,
                Unchanged, Answer, Return
  <2>2. pc' = pc \/ \E stage \in {"idle", "look"} : pc' = [pc EXCEPT ![d] = stage]
    BY <1>3 DEF Step, Begin, SkipCommandable, NotFound, Unsupported, ConversionFails,
                Unchanged, Answer, Return
  <2>3. pc[c] = "store"
    BY <2>2 DEF TypeOK
  <2> QED
    BY <2>1, <2>3 DEF Exact
<1>4. ASSUME NEW d \in Callers, ReadDifferent(d) PROVE pv'[p] = item'[c].read
  <2>1. /\ pv' = pv
        /\ pc' = [pc EXCEPT ![d] = "store"]
        /\ item' = [item EXCEPT ![d] = [name |-> NameOf(d), new |-> Convert(NameOf(d), InputOf(d)),
                                        read |-> pv[NameOf(d)]]]
    BY <1>4 DEF ReadDifferent
  <2>2. CASE c = d
    BY <2>1, <2>2 DEF TypeOK
  <2>3. CASE c # d
    BY <2>1, <2>3 DEF TypeOK, Exact
  <2> QED
    BY <2>2, <2>3
<1>5. ASSUME NEW d \in Callers, Store(d) PROVE pv'[p] = item'[c].read
  <2>1. /\ pc[d] = "store"
        /\ pv' = [pv EXCEPT ![item[d].name] = item[d].new]
        /\ pc' = [pc EXCEPT ![d] = "look"] /\ item' = [item EXCEPT ![d] = Null]
    BY <1>5 DEF Store, Assign
  <2>2. c # d /\ pc[c] = "store" /\ item'[c] = item[c]
    BY <2>1 DEF TypeOK
  <2>3. item[d].name # p
    <3>1. d \notin Coroutines
      BY <1>0, <2>1, <2>2 DEF OneCoroutine
    <3> QED
      BY <2>1, <3>1 DEF NoThreadOn, Callers
  <2> QED
    BY <2>1, <2>2, <2>3 DEF TypeOK, Exact
<1>6. ASSUME NEW d \in Callers, StoreFails(d) PROVE pv'[p] = item'[c].read
  <2>1. /\ pv' = pv
        /\ pc' = [pc EXCEPT ![d] = "look"] /\ item' = [item EXCEPT ![d] = Null]
    BY <1>6 DEF StoreFails
  <2>2. c # d /\ pc[c] = "store" /\ item'[c] = item[c]
    BY <2>1 DEF TypeOK
  <2> QED
    BY <2>1, <2>2 DEF Exact
<1> QED
  BY <1>1, <1>2, <1>3, <1>4, <1>5, <1>6 DEF Next

\* Of a point that no HTTP call updates, every store of the bridge or the gateway replaces
\* the value it has read, so that the "changed from" of its entry is exact and no update of
\* the point is overwritten unseen: their calls are atomic to each other and to BACnet
\* clients, though threads update other points in between (mqtt_bridge.py:280,
\* mqtt_rpc_gateway.py:345, rpc_methods.py:121-153).
THEOREM LoopUpdatesExact ==
  ASSUME NEW p \in Points
  PROVE  Spec /\ []NoThreadOn(p) => []Exact(p)
<1>1. Init => Exact(p) /\ OneCoroutine
  BY DEF Init, Exact, OneCoroutine, Callers
<1>2. TypeOK /\ OneCoroutine /\ NoThreadOn(p) /\ NoThreadOn(p)' /\ Exact(p) /\ [Next]_vars
        => Exact(p)'
  BY NextExact
<1> QED
  BY <1>1, <1>2, ServiceTypes, NextOneCoroutine, PTL DEF Spec

-----------------------------------------------------------------------------
(* The points as their readers see them: PointStore *)

\* A step of a call that is not a store leaves the points alone.
LEMMA OnlyStoreWrites ==
  ASSUME NEW c \in Callers, Step(c), ~Store(c)
  PROVE  pv' = pv
BY DEF Step, Begin, SkipCommandable, NotFound, Unsupported, ConversionFails, Unchanged,
       Answer, ReadDifferent, StoreFails, Return

\* A step that changes the points changes one of them, the loop neither taken nor
\* left; a commandable one only with the loop free.
LEMMA StepIsBoardStep ==
  ASSUME IInv, Next
  PROVE  Board!Next \/ UNCHANGED <<pv, ~LoopFree>>
<1>0. pv \in [Points -> Value] /\ pc \in [Callers -> {"idle", "look", "store"}]
  BY DEF IInv, TypeOK
<1>1. ASSUME NEW c \in Callers, Step(c), ~Store(c)
      PROVE  Board!LoopTurns \/ UNCHANGED <<pv, ~LoopFree>>
  <2>1. pv' = pv
    BY <1>1, OnlyStoreWrites
  <2> QED
    BY <2>1 DEF Board!LoopTurns, LoopFree
<1>2. ASSUME NEW c \in Callers, Store(c)
      PROVE  Board!Next
  <2> DEFINE p == item[c].name
  <2>1. /\ pc[c] = "store" /\ pc' = [pc EXCEPT ![c] = "look"]
        /\ pv' = [pv EXCEPT ![p] = item[c].new]
    BY <1>2 DEF Store, Assign
  <2>2. p \in Points /\ p \notin CommandableNames
    BY <2>1 DEF IInv, TypeOK, StoreInv, Item
  <2>3. pv' = [pv EXCEPT ![p] = pv'[p]]
    BY <1>0, <2>1, <2>2
  <2>4. (~LoopFree)' = ~LoopFree
    BY <1>0, <2>1 DEF LoopFree, Callers
  <2>5. Board!Change(p, pv'[p])
    BY <2>2, <2>3 DEF Board!Change
  <2> QED
    BY <2>2, <2>4, <2>5 DEF Board!Next
<1>3. CASE BacnetWrite
  <2>1. PICK p \in Points :
            /\ LoopFree /\ pc' = pc
            /\ \E v : pv' = [pv EXCEPT ![p] = v]
    BY <1>3, ServiceAssumption DEF BacnetWrite, WriteSlot, WriteDirect
  <2>2. pv' = [pv EXCEPT ![p] = pv'[p]]
    BY <1>0, <2>1
  <2>3. (~LoopFree)' = ~LoopFree
    BY <2>1 DEF LoopFree
  <2>4. Board!Change(p, pv'[p])
    BY <2>1, <2>2 DEF Board!Change
  <2> QED
    BY <2>3, <2>4 DEF Board!Next
<1> QED
  BY <1>1, <1>2, <1>3 DEF Next, Board!Next

\* The points implement the store that readers rely on: a commandable point stands
\* still while a call runs on the event loop (rpc_methods.py:104-111, 126).
THEOREM PointsAreAStore == Spec => StoreSpec
<1>1. Init => Board!Init
  BY DEF Init, Board!Init, LoopFree, Callers
<1>2. IInv /\ [Next]_vars => [Board!Next]_<<pv, ~LoopFree>>
  <2>1. CASE Next
    BY <2>1, StepIsBoardStep
  <2>2. CASE UNCHANGED vars
    BY <2>2 DEF vars, LoopFree
  <2> QED
    BY <2>1, <2>2
<1> QED
  BY <1>1, <1>2, ServiceInvariant, PTL DEF Spec, StoreSpec, Board!Spec

=============================================================================

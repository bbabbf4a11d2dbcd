-------------------------- MODULE CsvLoaderProofs --------------------------
(***************************************************************************)
(* For every set of names, every largest instance number and every file:   *)
(* the loader's tables agree, hosted identifiers are reserved, commandable *)
(* points are protected, and point_map implements PointRegistry.           *)
(***************************************************************************)
EXTENDS CsvLoader, TLAPS

\* The conjunction that is inductive.  OutputsProtected speaks of point_map's objects
\* only, so that the refusal of an object must be known to leave point_map alone:
\* TypeOK gives that.
Inv == TypeOK /\ TablesAgree /\ OutputsProtected

\* The kind of a row the loader accepts is one of the ten CSV kinds
\* (server_utils.py:64-75).
LEMMA KindOfType ==
  ASSUME NEW row \in Row, WellTyped(row)
  PROVE  KindOf(row) \in Kinds
BY SMT DEF Row, AnyRow, WellTyped, KindOf, Kinds, POINTTYPE_TO_OBJECT_KIND,
           SUPPORTED_POINT_TYPES, InputTypes, OutputTypes, ValueTypes

\* A row handed to add_object is an Object under the row's name (server_utils.py:215-448).
LEMMA BuiltObject ==
  ASSUME NEW row \in Row, WellTyped(row), NEW inst \in 0 .. MaxInstance
  PROVE  /\ ObjectOf(row, inst) \in Object
         /\ ObjectOf(row, inst) # NoObject
         /\ ObjectOf(row, inst).name = row.name
         /\ row.name \in Names
         /\ Id(ObjectOf(row, inst)) \in Kinds \X (0 .. MaxInstance)
         /\ ObjectOf(row, inst).owner = "bacnet" <=> Commandable(row)
<1>1. KindOf(row) \in Kinds
  BY KindOfType
<1>2. row.name \in Names
  BY DEF Row, AnyRow, WellTyped
<1>3. ObjectOf(row, inst) \in Object
  BY <1>1, <1>2 DEF ObjectOf, Object
<1> QED
  BY <1>1, <1>2, <1>3, NoObjectAssumption DEF ObjectOf, Id

\* The tables at start hold only the device object (server_utils.py:130-142).
LEMMA InitInv == Init => Inv
<1> SUFFICES ASSUME Init PROVE Inv
  OBVIOUS
<1>1. DeviceObject \in Object
  BY LoaderAssumption DEF DeviceObject, Object
<1>2. TypeOK
  BY <1>1, LoaderAssumption DEF Init, FirstInstance, TypeOK
<1>3. Hosted = {}
  BY DEF Init, FirstInstance, Hosted
<1> QED
  BY <1>2, <1>3 DEF Init, FirstInstance, Inv, TablesAgree, HostedReserved, OutputsProtected

\* The automatic or explicit number of a row leaves the counters in range
\* (server_utils.py:159-182).
LEMMA InstanceCounters ==
  ASSUME TypeOK, NEW row \in Row, WellTyped(row),
         NEW inst \in 0 .. MaxInstance, InstanceIs(row, inst, next')
  PROVE  next' \in [Kinds -> 1 .. MaxInstance + 1]
<1>1. CASE row.mode = "number" /\ next' = next
  BY <1>1 DEF TypeOK
<1>2. CASE /\ inst \in FreeInstances(KindOf(row))
           /\ next' = [next EXCEPT ![KindOf(row)] = inst + 1]
  <2>1. KindOf(row) \in Kinds
    BY KindOfType
  <2>2. inst + 1 \in 1 .. MaxInstance + 1
    BY LoaderAssumption
  <2> QED
    BY <1>2, <2>1, <2>2 DEF TypeOK
<1> QED
  BY <1>1, <1>2 DEF InstanceIs

\* The step that registers an object keeps Inv, whether add_object accepts it or
\* not (server_utils.py:450-457).
LEMMA CreateObjectInv ==
  ASSUME Inv, NEW row \in Row, CreateObject(row)
  PROVE  Inv'
<1>1. PICK inst \in 0 .. MaxInstance :
        /\ InstanceIs(row, inst, next')
        /\ <<KindOf(row), inst>> \notin used
        /\ Register(row, ObjectOf(row, inst))
  BY DEF CreateObject
<1> DEFINE o == ObjectOf(row, inst)
<1>2. WellTyped(row)
  BY DEF CreateObject
<1>3. /\ o \in Object /\ o # NoObject /\ o.name = row.name /\ row.name \in Names
      /\ Id(o) \in Kinds \X (0 .. MaxInstance)
      /\ o.owner = "bacnet" <=> Commandable(row)
  BY <1>2, BuiltObject
<1>4. /\ commandable' = IF Commandable(row) THEN commandable \cup {row.name} ELSE commandable
      /\ used' = used \cup {Id(o)}
      /\ IF AddObjectAccepts(o)
         THEN /\ app' = app \cup {o}
              /\ pointMap' = [pointMap EXCEPT ![row.name] = o]
         ELSE UNCHANGED <<app, pointMap>>
  BY <1>1 DEF Register
<1>5. TypeOK /\ TablesAgree /\ HostedReserved /\ OutputsProtected
  BY DEF Inv, TablesAgree
<1>6. next' \in [Kinds -> 1 .. MaxInstance + 1]
  BY <1>1, <1>2, <1>5, InstanceCounters
<1>7. phase' = phase /\ rows' \in 0 .. MaxRows
  BY <1>5, LoaderAssumption DEF CreateObject, TakeRow, TypeOK
<1> HIDE DEF o
<1>8. TypeOK'
  <2>1. used' \subseteq Kinds \X (0 .. MaxInstance) /\ commandable' \subseteq Names
    BY <1>3, <1>4, <1>5 DEF TypeOK
  <2>2. pointMap' \in [Names -> Object \cup {NoObject}] /\ app' \subseteq Object
    BY <1>3, <1>4, <1>5 DEF TypeOK
  <2> QED
    BY <1>5, <1>6, <1>7, <2>1, <2>2 DEF TypeOK
<1>9. CASE ~AddObjectAccepts(o)
  <2>1. pointMap' = pointMap /\ app' = app /\ Hosted' = Hosted
    BY <1>4, <1>9 DEF Hosted
  <2>2. used \subseteq used' /\ commandable \subseteq commandable'
    BY <1>4
  <2>3. HostedReserved' /\ OutputsProtected'
    BY <2>1, <2>2, <1>5 DEF HostedReserved, OutputsProtected
  <2>4. TablesAgree'
    BY <2>1, <2>3, <1>5 DEF TablesAgree
  <2> QED
    BY <1>8, <2>3, <2>4 DEF Inv
<1>10. CASE AddObjectAccepts(o)
  <2>1. app' = app \cup {o} /\ pointMap' = [pointMap EXCEPT ![row.name] = o]
    BY <1>4, <1>10
  <2>2. row.name \notin Hosted
    <3>1. SUFFICES ASSUME row.name \in Hosted PROVE FALSE
      OBVIOUS
    <3>2. pointMap[row.name] \in app /\ pointMap[row.name].name = row.name
      BY <3>1, <1>5 DEF TablesAgree
    <3> QED
      BY <3>2, <1>3, <1>10 DEF AddObjectAccepts
  <2>3. /\ pointMap'[row.name] = o
        /\ \A n \in Names \ {row.name} : pointMap'[n] = pointMap[n]
    BY <2>1, <1>3, <1>5 DEF TypeOK
  <2>4. Hosted' = Hosted \cup {row.name}
    BY <2>3, <1>3 DEF Hosted
  <2>5. \A n \in Hosted : pointMap'[n] = pointMap[n]
    BY <2>2, <2>3 DEF Hosted
  <2>6. HostedReserved'
    BY <2>3, <2>4, <2>5, <1>4, <1>5 DEF HostedReserved
  <2>7. TablesAgree'
    <3>1. {pointMap'[n] : n \in Hosted'} = {pointMap[n] : n \in Hosted} \cup {o}
      BY <2>3, <2>4, <2>5
    <3>2. \A n \in Hosted' : pointMap'[n].name = n
      BY <2>3, <2>4, <2>5, <1>3, <1>5 DEF TablesAgree
    <3> QED
      BY <3>1, <3>2, <2>1, <2>6, <1>5 DEF TablesAgree
  <2>8. OutputsProtected'
    BY <2>3, <2>4, <2>5, <1>3, <1>4, <1>5 DEF OutputsProtected
  <2> QED
    BY <1>8, <2>7, <2>8 DEF Inv
<1> QED
  BY <1>9, <1>10

\* Every step keeps Inv.
LEMMA NextInv == Inv /\ [Next]_vars => Inv'
<1> SUFFICES ASSUME Inv, [Next]_vars PROVE Inv'
  OBVIOUS
<1>0. TypeOK
  BY DEF Inv
<1>1. ASSUME UNCHANGED tables, phase' \in {"headers", "rows", "loaded", "aborted"},
             rows' \in 0 .. MaxRows
      PROVE  Inv'
  <2>1. Hosted' = Hosted
    BY <1>1 DEF tables, Hosted
  <2> QED
    BY <1>1, <2>1 DEF tables, Inv, TypeOK, TablesAgree, HostedReserved, OutputsProtected
<1>2. ASSUME UNCHANGED <<used, commandable, pointMap, app>>, phase' = phase,
             rows' \in 0 .. MaxRows, next' \in [Kinds -> 1 .. MaxInstance + 1]
      PROVE  Inv'
  <2>1. Hosted' = Hosted
    BY <1>2 DEF Hosted
  <2> QED
    BY <1>2, <2>1 DEF Inv, TypeOK, TablesAgree, HostedReserved, OutputsProtected
<1>3. ASSUME TakeRow PROVE phase' = phase /\ rows' \in 0 .. MaxRows
  BY <1>0, <1>3, LoaderAssumption DEF TakeRow, TypeOK
<1>4. CASE HeadersPresent \/ LoadRaises \/ EndOfFile
  BY <1>0, <1>1, <1>4 DEF HeadersPresent, LoadRaises, EndOfFile, TypeOK
<1>5. ASSUME NEW row \in Row, SkipInvalidRow(row) PROVE Inv'
  BY <1>0, <1>1, <1>3, <1>5 DEF SkipInvalidRow, TypeOK
<1>6. ASSUME NEW row \in Row, RejectInstance(row) PROVE Inv'
  BY <1>0, <1>1, <1>3, <1>6 DEF RejectInstance, TypeOK
<1>7. ASSUME NEW row \in Row, RejectExhausted(row) PROVE Inv'
  <2>1. next' \in [Kinds -> 1 .. MaxInstance + 1]
    BY <1>0, <1>7, KindOfType, LoaderAssumption DEF RejectExhausted, TypeOK
  <2> QED
    BY <1>2, <1>3, <1>7, <2>1 DEF RejectExhausted
<1>8. ASSUME NEW row \in Row, RejectDuplicateIdentifier(row) PROVE Inv'
  BY <1>0, <1>1, <1>3, <1>8 DEF RejectDuplicateIdentifier, TypeOK
<1>9. ASSUME NEW row \in Row, RejectDefect(row) PROVE Inv'
  <2>1. next' \in [Kinds -> 1 .. MaxInstance + 1]
    BY <1>0, <1>9, InstanceCounters DEF RejectDefect
  <2> QED
    BY <1>2, <1>3, <1>9, <2>1 DEF RejectDefect
<1>10. CASE UNCHANGED vars
  BY <1>0, <1>1, <1>10 DEF vars, tables, TypeOK
<1> QED
  BY <1>4, <1>5, <1>6, <1>7, <1>8, <1>9, <1>10, CreateObjectInv DEF Next, HandleRow

\* Every reachable state of the loader satisfies Inv.
THEOREM LoaderInvariant == Spec => []Inv
<1>1. Init => Inv
  BY InitInv
<1>2. Inv /\ [Next]_vars => Inv'
  BY NextInv
<1> QED
  BY <1>1, <1>2, PTL DEF Spec

\* The loader's tables have their types, the automatic counters among them: they stay
\* within one past the last instance number (server_utils.py:130-142, 171-182).
THEOREM LoaderTypes == Spec => []TypeOK
<1>1. Inv => TypeOK
  BY DEF Inv
<1> QED
  BY <1>1, LoaderInvariant, PTL

\* What a BACnet client can discover is what the RPC methods reach, after any file, and
\* holds only reserved identifiers (server_utils.py:184-188, 450-457).
THEOREM TablesAlwaysAgree == Spec => []TablesAgree
BY LoaderInvariant, PTL DEF Inv

\* A commandable point is always one server_update_points skips
\* (server_utils.py:249, 269, 301, 319, 365, 389).
THEOREM OutputsAlwaysProtected == Spec => []OutputsProtected
BY LoaderInvariant, PTL DEF Inv

-----------------------------------------------------------------------------
(* Good rows *)

\* A row that gets an instance number and whose object can be built becomes a point, unless
\* its name is the device's or an earlier point's: add_object has no other reason to refuse
\* it, as every identifier of the application is among those the loader checks, whatever
\* rows failed before (server_utils.py:171-188, 450-457).
GoodRow ==
  \A row \in Row :
    CreateObject(row) /\ row.name # DeviceName /\ row.name \notin Hosted
      => Hosted' = Hosted \cup {row.name}

GoodRowsHosted == [][GoodRow]_vars

\* For any file the failed rows cost no other row its point, but for a name or an identifier
\* that they took (server_utils.py:171-188, 450-457).
THEOREM GoodRowsAlwaysHosted == Spec => GoodRowsHosted
<1>1. ASSUME Inv, NEW row \in Row, CreateObject(row),
             row.name # DeviceName, row.name \notin Hosted
      PROVE  Hosted' = Hosted \cup {row.name}
  <2>1. PICK inst \in 0 .. MaxInstance :
          <<KindOf(row), inst>> \notin used /\ Register(row, ObjectOf(row, inst))
    BY <1>1 DEF CreateObject
  <2> DEFINE o == ObjectOf(row, inst)
  <2>2. o # NoObject /\ o.name = row.name /\ row.name \in Names
    BY <1>1, BuiltObject DEF CreateObject
  <2>3. Id(o) = <<KindOf(row), inst>> /\ KindOf(row) \in Kinds
    BY <1>1, KindOfType DEF CreateObject, ObjectOf, Id
  <2>4. IF AddObjectAccepts(o)
        THEN pointMap' = [pointMap EXCEPT ![row.name] = o]
        ELSE UNCHANGED pointMap
    BY <2>1 DEF Register
  <2> HIDE DEF o
  <2>5. ASSUME NEW p \in app PROVE p.name # o.name /\ Id(p) # Id(o)
    <3>1. CASE p = DeviceObject
      <4>1. "device" \notin Kinds
        BY DEF Kinds
      <4>2. p.name = DeviceName /\ Id(p)[1] = "device"
        BY <3>1 DEF DeviceObject, Id
      <4> QED
        BY <1>1, <2>2, <2>3, <4>1, <4>2
    <3>2. ASSUME NEW n \in Hosted, p = pointMap[n] PROVE p.name # o.name /\ Id(p) # Id(o)
      BY <1>1, <2>1, <2>2, <2>3, <3>2 DEF Inv, TablesAgree, HostedReserved
    <3> QED
      BY <1>1, <2>5, <3>1, <3>2 DEF Inv, TablesAgree
  <2>6. pointMap' = [pointMap EXCEPT ![row.name] = o]
    BY <2>4, <2>5 DEF AddObjectAccepts
  <2>7. /\ pointMap'[row.name] = o
        /\ \A n \in Names \ {row.name} : pointMap'[n] = pointMap[n]
    BY <1>1, <2>2, <2>6 DEF Inv, TypeOK
  <2> QED
    BY <2>2, <2>7 DEF Hosted
<1>2. Inv => GoodRow
  BY <1>1 DEF GoodRow
<1> QED
  BY <1>2, LoaderInvariant, PTL DEF GoodRowsHosted

-----------------------------------------------------------------------------
(* Skipped names *)

\* Of the names server_update_points skips only the device's own may be no point: a name
\* is recorded before add_object can refuse the object, but add_object refuses a name for
\* being taken, and every other taken name is a point's (server_utils.py:249, 450-453).
SkippedKnown == commandable \subseteq Hosted \cup {DeviceName}

\* A name is never unhosted (server_utils.py:453).
LEMMA HostedGrows == Inv /\ [Next]_vars => Hosted \subseteq Hosted'
<1> SUFFICES ASSUME Inv, [Next]_vars PROVE Hosted \subseteq Hosted'
  OBVIOUS
<1>1. CASE pointMap' = pointMap
  BY <1>1 DEF Hosted
<1>2. ASSUME NEW row \in Row, CreateObject(row) PROVE Hosted \subseteq Hosted'
  <2>1. PICK inst \in 0 .. MaxInstance : Register(row, ObjectOf(row, inst))
    BY <1>2 DEF CreateObject
  <2>2. ObjectOf(row, inst) # NoObject
    BY <1>2, BuiltObject DEF CreateObject
  <2>3. \/ pointMap' = pointMap
        \/ pointMap' = [pointMap EXCEPT ![row.name] = ObjectOf(row, inst)]
    BY <2>1 DEF Register
  <2> QED
    BY <2>2, <2>3 DEF Hosted, Inv, TypeOK
<1>3. ASSUME NEW row \in Row, HandleRow(row), ~CreateObject(row) PROVE pointMap' = pointMap
  BY <1>3 DEF HandleRow, SkipInvalidRow, RejectInstance, RejectExhausted,
              RejectDuplicateIdentifier, RejectDefect, tables
<1>4. HeadersPresent \/ LoadRaises \/ EndOfFile \/ UNCHANGED vars => pointMap' = pointMap
  BY DEF HeadersPresent, LoadRaises, EndOfFile, tables, vars
<1> QED
  BY <1>1, <1>2, <1>3, <1>4 DEF Next

\* After any file, whatever rows were refused and in whatever order, a name that
\* server_update_points calls commandable is a point's or the device's: no other name is
\* kept from being reported as not found (server_utils.py:249-453, rpc_methods.py:104-117).
THEOREM SkippedAlwaysKnown == Spec => []SkippedKnown
<1>1. Init => SkippedKnown
  BY DEF Init, SkippedKnown
<1>2. Inv /\ GoodRow /\ SkippedKnown /\ [Next]_vars => SkippedKnown'
  <2> SUFFICES ASSUME Inv, GoodRow, SkippedKnown, [Next]_vars PROVE SkippedKnown'
    OBVIOUS
  <2>1. Hosted \subseteq Hosted'
    BY HostedGrows
  <2>2. CASE commandable' = commandable
    BY <2>1, <2>2 DEF SkippedKnown
  <2>3. ASSUME NEW row \in Row, CreateObject(row) PROVE SkippedKnown'
    <3>1. commandable' \subseteq commandable \cup {row.name}
      BY <2>3 DEF CreateObject, Register
    <3>2. row.name = DeviceName \/ row.name \in Hosted'
      BY <2>1, <2>3 DEF GoodRow
    <3> QED
      BY <2>1, <3>1, <3>2 DEF SkippedKnown
  <2>4. ASSUME NEW row \in Row, HandleRow(row), ~CreateObject(row)
        PROVE  commandable' = commandable
    BY <2>4 DEF HandleRow, SkipInvalidRow, RejectInstance, RejectExhausted,
                RejectDuplicateIdentifier, RejectDefect, tables
  <2>5. HeadersPresent \/ LoadRaises \/ EndOfFile \/ UNCHANGED vars
          => commandable' = commandable
    BY DEF HeadersPresent, LoadRaises, EndOfFile, tables, vars
  <2> QED
    BY <2>2, <2>3, <2>4, <2>5 DEF Next
<1>3. Spec => [][GoodRow]_vars
  BY GoodRowsAlwaysHosted DEF GoodRowsHosted, GoodRow
<1>4. SkippedKnown /\ UNCHANGED vars => SkippedKnown'
  BY DEF SkippedKnown, Hosted, vars
<1> QED
  BY <1>1, <1>2, <1>3, <1>4, LoaderInvariant, PTL DEF Spec

-----------------------------------------------------------------------------
(* Automatic numbers *)

\* A row without an instance number is refused by a later column: its number is gone, as
\* the counter has moved and the identifier is not recorded (server_utils.py:171-199, 451).
LateRefusal(k, n) ==
  \E row \in Row :
    /\ row.mode = "auto" /\ RejectDefect(row)
    /\ KindOf(row) = k /\ n = next'[k] - 1

\* Every number that an automatic counter passes over is taken when it has moved on, or is
\* the one number of a row refused by a later column (server_utils.py:171-188, 451).
NumbersAccounted ==
  [][\A k \in Kinds : \A n \in next[k] .. next'[k] - 1 :
       <<k, n>> \in used' \/ LateRefusal(k, n)]_vars

\* A number the search loop passes over on its way to a free one is taken.
LEMMA PassedAreUsed ==
  ASSUME TypeOK, NEW row \in Row, WellTyped(row), row.mode = "auto",
         NEW inst \in 0 .. MaxInstance, InstanceIs(row, inst, next'),
         NEW n \in next[KindOf(row)] .. next'[KindOf(row)] - 1, n # inst
  PROVE  <<KindOf(row), n>> \in used
<1> DEFINE k == KindOf(row)
<1>1. k \in Kinds /\ next[k] \in 1 .. MaxInstance + 1
  BY KindOfType DEF TypeOK
<1>2. /\ inst \in FreeInstances(k)
      /\ \A m \in FreeInstances(k) : inst <= m
      /\ next'[k] = inst + 1
  BY <1>1 DEF InstanceIs, TypeOK
<1>3. n \in next[k] .. MaxInstance /\ n < inst
  BY <1>1, <1>2, LoaderAssumption
<1>4. n \notin FreeInstances(k)
  BY <1>2, <1>3, LoaderAssumption
<1> QED
  BY <1>3, <1>4 DEF FreeInstances

\* For any file, the only numbers the counters pass over without recording them are those of
\* rows refused for a column read after the number was chosen (server_utils.py:171-199, 451).
\* A recorded number need not be a point's: see NameRefusal below.
THEOREM NumbersAlwaysAccounted == Spec => NumbersAccounted
<1> DEFINE Passed ==
      \A k \in Kinds : \A n \in next[k] .. next'[k] - 1 :
        <<k, n>> \in used' \/ LateRefusal(k, n)
<1>1. ASSUME Inv, [Next]_vars PROVE Passed
  <2> SUFFICES ASSUME NEW k \in Kinds, NEW n \in next[k] .. next'[k] - 1
               PROVE  <<k, n>> \in used' \/ LateRefusal(k, n)
    OBVIOUS
  <2>0. TypeOK /\ next[k] \in 1 .. MaxInstance + 1
    BY <1>1 DEF Inv, TypeOK
  <2>1. next'[k] # next[k]
    BY <2>0
  <2>2. PICK row \in Row : RejectExhausted(row) \/ RejectDefect(row) \/ CreateObject(row)
    BY <1>1, <2>1 DEF Next, HandleRow, HeadersPresent, LoadRaises, EndOfFile, SkipInvalidRow,
                      RejectInstance, RejectDuplicateIdentifier, tables, vars
  <2>3. WellTyped(row) /\ KindOf(row) \in Kinds
    BY <2>2, KindOfType DEF RejectExhausted, RejectDefect, CreateObject
  <2>4. CASE RejectExhausted(row)
    <3>1. next' = [next EXCEPT ![KindOf(row)] = MaxInstance + 1] /\ used' = used
      BY <2>4 DEF RejectExhausted
    <3>2. k = KindOf(row) /\ n \in next[k] .. MaxInstance
      BY <2>0, <2>1, <2>3, <3>1, LoaderAssumption DEF TypeOK
    <3>3. n \notin FreeInstances(k)
      BY <2>4, <3>2 DEF RejectExhausted
    <3> QED
      BY <3>1, <3>2, <3>3 DEF FreeInstances
  <2>5. ASSUME NEW inst \in 0 .. MaxInstance, InstanceIs(row, inst, next')
        PROVE  /\ row.mode = "auto" /\ k = KindOf(row)
               /\ next'[k] = inst + 1
               /\ n # inst => <<k, n>> \in used
    <3>1. row.mode = "auto" /\ next' = [next EXCEPT ![KindOf(row)] = inst + 1]
      BY <2>1, <2>5 DEF InstanceIs
    <3>2. k = KindOf(row) /\ next'[k] = inst + 1
      BY <2>0, <2>1, <2>3, <3>1 DEF TypeOK
    <3> QED
      BY <2>0, <2>3, <2>5, <3>1, <3>2, PassedAreUsed
  <2>6. CASE RejectDefect(row)
    <3>1. PICK inst \in 0 .. MaxInstance : InstanceIs(row, inst, next')
      BY <2>6 DEF RejectDefect
    <3>2. used' = used
      BY <2>6 DEF RejectDefect
    <3>3. n = inst => n = next'[k] - 1
      BY <2>5, <3>1
    <3> QED
      BY <2>5, <2>6, <3>1, <3>2, <3>3 DEF LateRefusal
  <2>7. CASE CreateObject(row)
    <3>1. PICK inst \in 0 .. MaxInstance :
            InstanceIs(row, inst, next') /\ Register(row, ObjectOf(row, inst))
      BY <2>7 DEF CreateObject
    <3>2. used' = used \cup {<<KindOf(row), inst>>}
      BY <3>1 DEF Register, ObjectOf, Id
    <3> QED
      BY <2>5, <3>1, <3>2
  <2> QED
    BY <2>2, <2>4, <2>6, <2>7
<1>2. Inv /\ [Next]_vars => [Passed]_vars
  BY <1>1
<1> QED
  BY <1>2, LoaderInvariant, PTL DEF Spec, NumbersAccounted

\* A row with a number and an object that add_object refuses for its name or its identifier:
\* the identifier stays recorded, for no point (server_utils.py:451-457).
NameRefusal == \E row \in Row : CreateObject(row) /\ app' = app

\* Every automatic number below the counter is a hosted point's.
NumbersDense ==
  \A k \in Kinds : \A n \in 1 .. next[k] - 1 : \E m \in Hosted : Id(pointMap[m]) = <<k, n>>

\* Every recorded identifier is a hosted point's.
UsedHosted == \A id \in used : \E m \in Hosted : Id(pointMap[m]) = id

\* A hosted name keeps its object.
LEMMA HostedKept ==
  ASSUME Inv, [Next]_vars, NEW m \in Hosted
  PROVE  m \in Hosted' /\ pointMap'[m] = pointMap[m]
<1>1. m \in Hosted'
  BY HostedGrows
<1>2. CASE pointMap' = pointMap
  BY <1>1, <1>2
<1>3. ASSUME NEW row \in Row, CreateObject(row) PROVE pointMap'[m] = pointMap[m]
  <2>1. PICK inst \in 0 .. MaxInstance : Register(row, ObjectOf(row, inst))
    BY <1>3 DEF CreateObject
  <2> DEFINE o == ObjectOf(row, inst)
  <2>2. o.name = row.name /\ row.name \in Names
    BY <1>3, BuiltObject DEF CreateObject
  <2>3. CASE AddObjectAccepts(o)
    <3>1. pointMap[m] \in app /\ pointMap[m].name = m /\ m \in Names
      BY DEF Inv, TablesAgree, Hosted
    <3>2. m # row.name
      BY <2>2, <2>3, <3>1 DEF AddObjectAccepts
    <3>3. pointMap' = [pointMap EXCEPT ![row.name] = o]
      BY <2>1, <2>3 DEF Register
    <3> QED
      BY <3>1, <3>2, <3>3 DEF Inv, TypeOK
  <2>4. CASE ~AddObjectAccepts(o)
    BY <2>1, <2>4 DEF Register
  <2> QED
    BY <2>3, <2>4
<1>4. ASSUME NEW row \in Row, HandleRow(row), ~CreateObject(row) PROVE pointMap' = pointMap
  BY <1>4 DEF HandleRow, SkipInvalidRow, RejectInstance, RejectExhausted,
              RejectDuplicateIdentifier, RejectDefect, tables
<1>5. HeadersPresent \/ LoadRaises \/ EndOfFile \/ UNCHANGED vars => pointMap' = pointMap
  BY DEF HeadersPresent, LoadRaises, EndOfFile, tables, vars
<1> QED
  BY <1>1, <1>2, <1>3, <1>4, <1>5 DEF Next

\* A row that add_object does not refuse records the identifier of the point it makes.
LEMMA UsedStaysHosted ==
  ASSUME Inv, [Next]_vars, UsedHosted, ~NameRefusal
  PROVE  UsedHosted'
<1> SUFFICES ASSUME NEW id \in used' PROVE \E m \in Hosted' : Id(pointMap'[m]) = id
  BY DEF UsedHosted, Id
<1>1. CASE id \in used
  <2>1. PICK m \in Hosted : Id(pointMap[m]) = id
    BY <1>1 DEF UsedHosted
  <2> QED
    BY <2>1, HostedKept
<1>2. CASE id \notin used
  <2>1. PICK row \in Row : CreateObject(row)
    BY <1>2 DEF Next, HandleRow, HeadersPresent, LoadRaises, EndOfFile, SkipInvalidRow,
                RejectInstance, RejectExhausted, RejectDuplicateIdentifier, RejectDefect,
                tables, vars
  <2>2. PICK inst \in 0 .. MaxInstance : Register(row, ObjectOf(row, inst))
    BY <2>1 DEF CreateObject
  <2> DEFINE o == ObjectOf(row, inst)
  <2>3. o \in Object /\ o # NoObject /\ row.name \in Names
    BY <2>1, BuiltObject DEF CreateObject
  <2>4. app' # app
    BY <2>1 DEF NameRefusal
  <2>5. /\ pointMap' = [pointMap EXCEPT ![row.name] = o]
        /\ used' = used \cup {Id(o)}
    BY <2>2, <2>4 DEF Register
  <2>6. pointMap'[row.name] = o
    BY <2>3, <2>5 DEF Inv, TypeOK
  <2>7. row.name \in Hosted'
    BY <2>3, <2>6 DEF Hosted
  <2>8. id = Id(o)
    BY <1>2, <2>5
  <2> QED
    BY <2>6, <2>7, <2>8
<1> QED
  BY <1>1, <1>2

\* The points of a file are numbered without gaps, explicit numbers in any place among the
\* automatic ones, if no row is refused after it had its number: neither by a later column
\* (server_utils.py:190-210) nor by add_object for a name that is taken (452).
THEOREM NumbersDenseWithoutDefects ==
  Spec /\ [][~NameRefusal /\ \A k \in Kinds, n \in 1 .. MaxInstance : ~LateRefusal(k, n)]_vars
    => []NumbersDense
<1> DEFINE NoneLost == ~NameRefusal /\ \A k \in Kinds, n \in 1 .. MaxInstance : ~LateRefusal(k, n)
           Passed == \A k \in Kinds : \A n \in next[k] .. next'[k] - 1 :
                       <<k, n>> \in used' \/ LateRefusal(k, n)
           Dense == UsedHosted /\ NumbersDense
<1>1. Init => Dense
  BY DEF Init, FirstInstance, NumbersDense, UsedHosted
<1>2. Inv /\ Inv' /\ Dense /\ NoneLost /\ Passed /\ [Next]_vars => Dense'
  <2> SUFFICES ASSUME Inv, Inv', Dense, NoneLost, Passed, [Next]_vars
               PROVE  UsedHosted' /\ NumbersDense'
    OBVIOUS
  <2>1. UsedHosted'
    BY UsedStaysHosted
  <2>2. ASSUME NEW k \in Kinds, NEW n \in 1 .. next'[k] - 1
        PROVE  \E m \in Hosted' : Id(pointMap'[m]) = <<k, n>>
    <3>1. next[k] \in 1 .. MaxInstance + 1 /\ next'[k] \in 1 .. MaxInstance + 1
      BY DEF Inv, TypeOK
    <3>2. CASE n < next[k]
      <4>1. PICK m \in Hosted : Id(pointMap[m]) = <<k, n>>
        BY <3>1, <3>2 DEF NumbersDense
      <4> QED
        BY <4>1, HostedKept
    <3>3. CASE n >= next[k]
      <4>1. n \in next[k] .. next'[k] - 1 /\ n \in 1 .. MaxInstance
        BY <3>1, <3>3, LoaderAssumption
      <4>2. <<k, n>> \in used'
        BY <4>1
      <4> QED
        BY <2>1, <4>2 DEF UsedHosted, Id
    <3> QED
      BY <3>1, <3>2, <3>3
  <2>3. NumbersDense'
    BY <2>2 DEF NumbersDense, Id
  <2> QED
    BY <2>1, <2>3
<1>3. Dense /\ UNCHANGED vars => Dense'
  BY DEF NumbersDense, UsedHosted, Hosted, Id, vars
<1>4. Spec => [][Passed]_vars
  BY NumbersAlwaysAccounted DEF NumbersAccounted
<1> HIDE DEF Passed, NoneLost, Dense
<1>5. Spec /\ [][NoneLost]_vars => []Dense
  BY <1>1, <1>2, <1>3, <1>4, LoaderInvariant, PTL DEF Spec
<1> QED
  BY <1>5, PTL DEF NoneLost, Dense

-----------------------------------------------------------------------------
(* Refinement *)

\* The points published so far, as PointRegistry sees them.
Points == {pointMap[n] : n \in Hosted}

\* A step that registers an object publishes it in the registry, or leaves the
\* registry alone when add_object refuses (server_utils.py:450-457).
LEMMA CreateObjectPublishes ==
  ASSUME Inv, NEW row \in Row, CreateObject(row)
  PROVE  Points' = Points \/ Registry!Next
<1>1. PICK inst \in 0 .. MaxInstance : Register(row, ObjectOf(row, inst))
  BY DEF CreateObject
<1> DEFINE o == ObjectOf(row, inst)
<1>2. /\ o \in Object /\ o # NoObject /\ o.name = row.name /\ row.name \in Names
  BY BuiltObject DEF CreateObject
<1>3. IF AddObjectAccepts(o)
      THEN pointMap' = [pointMap EXCEPT ![row.name] = o]
      ELSE UNCHANGED pointMap
  BY <1>1 DEF Register
<1>4. TypeOK /\ TablesAgree
  BY DEF Inv
<1> HIDE DEF o
<1>5. CASE ~AddObjectAccepts(o)
  BY <1>3, <1>5 DEF Points, Hosted
<1>6. CASE AddObjectAccepts(o)
  <2>1. Points \subseteq app
    BY <1>4 DEF TablesAgree, Points
  <2>2. \A p \in Points : Registry!Compatible(p, o)
    BY <2>1, <1>6 DEF AddObjectAccepts, Id, Registry!Compatible
  <2>3. row.name \notin Hosted
    BY <2>2, <1>2, <1>4 DEF Points, TablesAgree, Registry!Compatible
  <2>4. /\ pointMap'[row.name] = o
        /\ \A n \in Names \ {row.name} : pointMap'[n] = pointMap[n]
    BY <1>2, <1>3, <1>4, <1>6 DEF TypeOK
  <2>5. Hosted' = Hosted \cup {row.name}
    BY <2>4, <1>2 DEF Hosted
  <2>6. \A n \in Hosted : pointMap'[n] = pointMap[n]
    BY <2>3, <2>4 DEF Hosted
  <2>7. Points' = Points \cup {o}
    BY <2>4, <2>5, <2>6 DEF Points
  <2> QED
    BY <1>2, <2>2, <2>7 DEF Registry!Next, Registry!Publish, Points
<1> QED
  BY <1>5, <1>6

\* point_map implements PointRegistry: names and identifiers are never reassigned.
THEOREM LoaderImplementsRegistry == Spec => RegistrySpec
<1>1. Init => Registry!Init
  BY DEF Init, FirstInstance, Registry!Init, Hosted
<1>2. Inv /\ [Next]_vars => [Registry!Next]_Points
  <2> SUFFICES ASSUME Inv, [Next]_vars PROVE Points' = Points \/ Registry!Next
    OBVIOUS
  <2>1. CASE pointMap' = pointMap
    BY <2>1 DEF Points, Hosted
  <2>2. ASSUME NEW row \in Row, CreateObject(row) PROVE Points' = Points \/ Registry!Next
    BY <2>2, CreateObjectPublishes
  <2>3. ASSUME NEW row \in Row, HandleRow(row), ~CreateObject(row) PROVE pointMap' = pointMap
    BY <2>3 DEF HandleRow, SkipInvalidRow, RejectInstance, RejectExhausted,
                RejectDuplicateIdentifier, RejectDefect, tables
  <2>4. HeadersPresent \/ LoadRaises \/ EndOfFile \/ UNCHANGED vars => pointMap' = pointMap
    BY DEF HeadersPresent, LoadRaises, EndOfFile, tables, vars
  <2> QED
    BY <2>1, <2>2, <2>3, <2>4 DEF Next
<1> QED
  BY <1>1, <1>2, LoaderInvariant, PTL DEF Spec, RegistrySpec, Registry!Spec, Points

=============================================================================

----------------------------- MODULE CsvLoader -----------------------------
(***************************************************************************)
(* load_csv_and_create_objects (server_utils.py): the points file is read  *)
(* row by row, every row is handled under its own try, and a row that      *)
(* fails half-way is logged and skipped.  What a failed row leaves behind  *)
(* in the loader's four tables is what this module is about:               *)
(*                                                                         *)
(*   next         instance_ids             next automatic instance, by kind*)
(*   used         used_instances           identifiers taken               *)
(*   commandable  commandable_point_names  names server_update_points skips*)
(*   pointMap     point_map                name -> object, NoObject if none*)
(*   app          the BACnet application's objects                         *)
(*                                                                         *)
(* The file is arbitrary: each step takes any row.  A row's text is        *)
(* abstracted to what the loader tells apart.                              *)
(***************************************************************************)
EXTENDS Integers, FiniteSets

CONSTANTS
  Names,          \* names a row can carry, the device's own name among them
  BlankName,      \* the Name column is empty (after strip)
  DeviceName,     \* objectName of the device object created by from_args
  RowTypes,       \* PointType values the file uses
  MaxInstance,    \* largest instance number (4194303 in the code)
  MaxRows,        \* bound: rows of the file
  NoObject        \* point_map has no such key

-----------------------------------------------------------------------------
(* Point types, server_utils.py:50-75 *)

AnalogTypes  == {"AI", "AO", "AV"}
OutputTypes  == {"AO", "BO", "MSO"}     \* always commandable
ValueTypes   == {"AV", "BV", "MSV"}     \* commandable when Commandable=Y
InputTypes   == {"AI", "BI", "MSI"}

SUPPORTED_POINT_TYPES == InputTypes \cup OutputTypes \cup ValueTypes \cup {"SCHEDULE"}

POINTTYPE_TO_OBJECT_KIND ==
  [AI  |-> "analogInput",     AO  |-> "analogOutput",     AV  |-> "analogValue",
   BI  |-> "binaryInput",     BO  |-> "binaryOutput",     BV  |-> "binaryValue",
   MSI |-> "multiStateInput", MSO |-> "multiStateOutput", MSV |-> "multiStateValue",
   SCHEDULE |-> "schedule"]

Kinds ==
  {"analogInput", "analogOutput", "analogValue", "binaryInput", "binaryOutput",
   "binaryValue", "multiStateInput", "multiStateOutput", "multiStateValue", "schedule"}

ASSUME LoaderAssumption ==
  /\ MaxInstance \in Nat /\ MaxRows \in Nat
  /\ DeviceName \in Names /\ BlankName \notin Names

-----------------------------------------------------------------------------
(* A row: `mode` says what the Instance column holds (nothing, an integer, *)
(* some other text), `defect` what fails after the instance is chosen.     *)

AnyRow ==
  [name   : Names \cup {BlankName},
   type   : RowTypes \cup {"UNKNOWN"},
   Y      : BOOLEAN,
   mode   : {"auto", "number", "text"},
   num    : -1 .. MaxInstance + 1,
   defect : {"none", "covIncrement", "constructor"}]

Row == {row \in AnyRow : row.mode # "number" => row.num = 0}

Object ==
  [kind : Kinds \cup {"device"}, inst : 0 .. MaxInstance, name : Names,
   owner : {"server", "bacnet"}]

ASSUME NoObjectAssumption == NoObject \notin Object

Id(o) == <<o.kind, o.inst>>

DeviceObject == [kind |-> "device", inst |-> 0, name |-> DeviceName,
                 owner |-> "bacnet"]

KindOf(row) == POINTTYPE_TO_OBJECT_KIND[row.type]

\* The name goes to commandable_point_names.
Commandable(row) ==
  \/ row.type \in OutputTypes
  \/ row.type \in ValueTypes /\ row.Y

\* `owner` says who writes the point: BACnet clients if its row is commandable,
\* server_update_points otherwise.
ObjectOf(row, inst) ==
  [kind |-> KindOf(row), inst |-> inst, name |-> row.name,
   owner |-> IF Commandable(row) THEN "bacnet" ELSE "server"]

VARIABLES phase, rows, next, used, commandable, pointMap, app

vars == <<phase, rows, next, used, commandable, pointMap, app>>

tables == <<next, used, commandable, pointMap, app>>

\* Mutant of FirstInstance: automatic numbers from 0, which BACnet allows.
FirstInstanceZero == 0

FirstInstance == 1

Init ==
  /\ phase = "headers"
  /\ rows = 0
  /\ next = [k \in Kinds |-> FirstInstance]
  /\ used = {}
  /\ commandable = {}
  /\ pointMap = [n \in Names |-> NoObject]
  /\ app = {DeviceObject}

-----------------------------------------------------------------------------
(* Opening the file. *)

HeadersPresent ==
  /\ phase = "headers"
  /\ phase' = "rows"
  /\ UNCHANGED <<rows, tables>>

\* Missing columns raise ValueError, and a csv or decoding error of a later
\* line escapes the row's try: main logs "Startup error" and returns.
LoadRaises ==
  /\ phase \in {"headers", "rows"}
  /\ phase' = "aborted"
  /\ UNCHANGED <<rows, tables>>

EndOfFile ==
  /\ phase = "rows"
  /\ phase' = "loaded"
  /\ UNCHANGED <<rows, tables>>

-----------------------------------------------------------------------------
(* One row. *)

TakeRow ==
  /\ phase = "rows"
  /\ rows < MaxRows
  /\ rows' = rows + 1
  /\ UNCHANGED phase

WellTyped(row) == row.name # BlankName /\ row.type \in SUPPORTED_POINT_TYPES

\* Free automatic numbers: the counter never moves back, so lower ones are gone.
FreeInstances(kind) == {n \in next[kind] .. MaxInstance : <<kind, n>> \notin used}

\* The instance number the row gets, with the counter afterwards.
InstanceIs(row, inst, next1) ==
  \/ /\ row.mode = "number"
     /\ row.num \in 0 .. MaxInstance
     /\ inst = row.num
     /\ next1 = next
  \/ /\ row.mode = "auto"
     /\ inst \in FreeInstances(KindOf(row))
     /\ \A n \in FreeInstances(KindOf(row)) : inst <= n
     /\ next1 = [next EXCEPT ![KindOf(row)] = inst + 1]

\* CovIncrement is looked at for analog points only.
Defective(row) ==
  \/ row.defect = "covIncrement" /\ row.type \in AnalogTypes
  \/ row.defect = "constructor"

SkipInvalidRow(row) ==
  /\ TakeRow
  /\ ~WellTyped(row)
  /\ UNCHANGED tables

RejectInstance(row) ==
  /\ TakeRow
  /\ WellTyped(row)
  /\ \/ row.mode = "text"
     \/ row.mode = "number" /\ row.num \notin 0 .. MaxInstance
  /\ UNCHANGED tables

\* The search loop has run past the last number before it gives up.
RejectExhausted(row) ==
  /\ TakeRow
  /\ WellTyped(row)
  /\ row.mode = "auto"
  /\ FreeInstances(KindOf(row)) = {}
  /\ next' = [next EXCEPT ![KindOf(row)] = MaxInstance + 1]
  /\ UNCHANGED <<used, commandable, pointMap, app>>

RejectDuplicateIdentifier(row) ==
  /\ TakeRow
  /\ WellTyped(row)
  /\ row.mode = "number"
  /\ row.num \in 0 .. MaxInstance
  /\ <<KindOf(row), row.num>> \in used
  /\ UNCHANGED tables

\* The automatic counter has moved by the time a later column is refused.
RejectDefect(row) ==
  /\ TakeRow
  /\ WellTyped(row)
  /\ Defective(row)
  /\ \E inst \in 0 .. MaxInstance :
       /\ InstanceIs(row, inst, next')
       /\ <<KindOf(row), inst>> \notin used
  /\ UNCHANGED <<used, commandable, pointMap, app>>

\* Application.add_object: object names and identifiers are unique.
AddObjectAccepts(o) == \A p \in app : p.name # o.name /\ Id(p) # Id(o)

\* Mutants of Register: point_map assigned before add_object can refuse; the
\* identifier never recorded as used; a row without the flag taking its name out of
\* commandable_point_names.
RegisterMapFirst(row, o) ==
  /\ commandable' = IF Commandable(row) THEN commandable \cup {row.name} ELSE commandable
  /\ used' = used \cup {Id(o)}
  /\ pointMap' = [pointMap EXCEPT ![row.name] = o]
  /\ app' = IF AddObjectAccepts(o) THEN app \cup {o} ELSE app

RegisterUnreserved(row, o) ==
  /\ commandable' = IF Commandable(row) THEN commandable \cup {row.name} ELSE commandable
  /\ UNCHANGED used
  /\ IF AddObjectAccepts(o)
     THEN /\ app' = app \cup {o}
          /\ pointMap' = [pointMap EXCEPT ![row.name] = o]
     ELSE UNCHANGED <<app, pointMap>>

RegisterWithdrawing(row, o) ==
  /\ commandable' = IF Commandable(row) THEN commandable \cup {row.name}
                    ELSE commandable \ {row.name}
  /\ used' = used \cup {Id(o)}
  /\ IF AddObjectAccepts(o)
     THEN /\ app' = app \cup {o}
          /\ pointMap' = [pointMap EXCEPT ![row.name] = o]
     ELSE UNCHANGED <<app, pointMap>>

\* The registrations of a row whose object was built: its name first, then the
\* identifier, and the application and point_map only if add_object accepts.
Register(row, o) ==
  /\ commandable' = IF Commandable(row) THEN commandable \cup {row.name} ELSE commandable
  /\ used' = used \cup {Id(o)}
  /\ IF AddObjectAccepts(o)
     THEN /\ app' = app \cup {o}
          /\ pointMap' = [pointMap EXCEPT ![row.name] = o]
     ELSE UNCHANGED <<app, pointMap>>

CreateObject(row) ==
  /\ TakeRow
  /\ WellTyped(row)
  /\ ~Defective(row)
  /\ \E inst \in 0 .. MaxInstance :
       /\ InstanceIs(row, inst, next')
       /\ <<KindOf(row), inst>> \notin used
       /\ Register(row, ObjectOf(row, inst))

HandleRow(row) ==
  \/ SkipInvalidRow(row)
  \/ RejectInstance(row)
  \/ RejectExhausted(row)
  \/ RejectDuplicateIdentifier(row)
  \/ RejectDefect(row)
  \/ CreateObject(row)

Next ==
  \/ HeadersPresent
  \/ LoadRaises
  \/ EndOfFile
  \/ \E row \in Row : HandleRow(row)

Spec == Init /\ [][Next]_vars

-----------------------------------------------------------------------------
(* Properties *)

\* The tables hold values of the shapes the code gives them.
TypeOK ==
  /\ phase \in {"headers", "rows", "loaded", "aborted"}
  /\ rows \in 0 .. MaxRows
  /\ next \in [Kinds -> 1 .. MaxInstance + 1]
  /\ used \subseteq Kinds \X (0 .. MaxInstance)
  /\ commandable \subseteq Names
  /\ pointMap \in [Names -> Object \cup {NoObject}]
  /\ app \subseteq Object

Hosted == {n \in Names : pointMap[n] # NoObject}

\* Every hosted identifier is reserved, so that neither an explicit nor an
\* automatic row can be built with it later (server_utils.py:171-188, 451).
HostedReserved == \A n \in Hosted : Id(pointMap[n]) \in used

\* After any sequence of good, bad and colliding rows the objects a BACnet client
\* can discover, the device aside, are exactly the points the RPC methods reach,
\* each under its own name, and hold only reserved identifiers
\* (server_utils.py:451-453: three tables, one try).
TablesAgree ==
  /\ app = {DeviceObject} \cup {pointMap[n] : n \in Hosted}
  /\ \A n \in Hosted : pointMap[n].name = n
  /\ HostedReserved

\* A point that BACnet clients command is one server_update_points skips
\* (server_utils.py:45-46, rpc_methods.py:104): no order of rows hosts a
\* commandable object without recording its name.
OutputsProtected == \A n \in Hosted : pointMap[n].owner = "bacnet" => n \in commandable

\* point_map implements the abstract registry: a published point keeps its name
\* and its identifier whatever rows follow.
Registry == INSTANCE PointRegistry WITH hosted <- {pointMap[n] : n \in Hosted}

RegistrySpec == Registry!Spec

\* docs/csv-points.md:26 says Commandable=N points are server-owned and updated
\* with server_update_points: their names must stay out of the skipped set.
ServerOwnedUpdatable == \A n \in Hosted : pointMap[n].owner = "server" => n \notin commandable

=============================================================================

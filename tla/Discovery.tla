----------------------------- MODULE Discovery -----------------------------
(***************************************************************************)
(* point_discovery and supervisory_logic_check (client_utils.py) and       *)
(* client_read_multiple (rpc_methods.py), with the ReadPropertyMultiple    *)
(* below them, against a device that lives on meanwhile: overrides come    *)
(* and go and the object list may change between any two requests.         *)
(*                                                                         *)
(*   who-is     the device answers                                         *)
(*   list       object-list, whole                                         *)
(*   length     fallback: the list's length, then its elements one by one  *)
(*   names      object-name of each object, in chunks                      *)
(*   arrays     priority-array, of the nine types taken to have one        *)
(*   overrides  supervisory check only: the arrays again                   *)
(*   read       read-multiple only, and all it does: what the client asks  *)
(*                                                                         *)
(* An object's name is modelled by the object itself, and a priority array *)
(* by the set of its slots that are not null; a client of read-multiple is *)
(* taken to ask for priority arrays.                                       *)
(***************************************************************************)
EXTENDS Integers, Sequences, FiniteSets, Functions

CONSTANTS
  Objects,           \* identifiers, DeviceObject among them
  DeviceObject,      \* the device object's own
  Known,             \* of a type the vendor information knows
  MayCommand,        \* of one of the nine valid_commandable_types
  Arrayed,           \* that do have a priority array, of whichever type
  Lists,             \* object lists the device may have
  Requests,          \* what clients of client_read_multiple ask for
  Priorities,        \* priorities in use
  ChunkSize,         \* of the first two phases (15), and of the third (25)
  CheckChunkSize,
  MaxChanges         \* bound: changes at the device

ASSUME DiscoveryAssumption ==
  /\ DeviceObject \in Objects /\ DeviceObject \notin MayCommand
  /\ MayCommand \subseteq Known /\ Known \subseteq Objects /\ Arrayed \subseteq Objects
  /\ Lists \subseteq Seq(Objects) /\ Requests \subseteq Seq(Objects)
  /\ Priorities \subseteq 1 .. 16
  /\ ChunkSize \in Nat \ {0} /\ CheckChunkSize \in Nat \ {0} /\ MaxChanges \in Nat

VARIABLES
  goal,          \* "discover", "check" or "multiple": which function was called
  phase,         \* the request under way, or "done" or "failed"
  found,         \* object_list
  left,          \* requests of the phase still to be sent
  size,          \* elements the fallback will read
  results,       \* entries of the phase's chunks so far
  names,         \* name_map
  commandable,   \* commandable_oids
  slots,         \* by_oid
  deviceList,    \* the device's object list
  active,        \* overrides in force: <<object, priority>>
  seen,          \* history: overrides in force at some moment of the call,
  steady,        \* history: ... and throughout it
  sent,          \* history: requests of the phase
  failures,      \* history: some read of the call failed, or nobody answered
  changed        \* changes of the device

device == <<deviceList, active, changed, seen, steady>>
answer == <<names, commandable, slots>>
vars == <<goal, phase, found, left, size, results, answer, device, sent, failures>>

Overrides == Arrayed \X Priorities

Init ==
  /\ goal \in {"discover", "check", "multiple"}
  /\ phase = "who-is"
  /\ found = <<>> /\ left = <<>> /\ size = 0 /\ results = <<>>
  /\ names = {} /\ commandable = {} /\ slots = {}
  /\ deviceList \in Lists
  /\ active \in SUBSET Overrides
  /\ seen = active /\ steady = active
  /\ sent = <<>> /\ failures = FALSE
  /\ changed = 0

-----------------------------------------------------------------------------
(* The device changes: other BACnet clients override and release points, and *)
(* objects are created and deleted.                                          *)

DeviceChanges ==
  /\ phase \notin {"done", "failed"}
  /\ changed < MaxChanges
  /\ changed' = changed + 1
  /\ \/ /\ \E o \in Overrides : active' = (active \cup {o}) \ (active \cap {o})
        /\ UNCHANGED deviceList
     \/ deviceList' \in Lists /\ UNCHANGED active
  /\ seen' = seen \cup active'
  /\ steady' = steady \cap active'
  /\ UNCHANGED <<goal, phase, found, left, size, results, answer, sent, failures>>

-----------------------------------------------------------------------------
(* Finding the device and its objects *)

Ask(requests) == left' = requests /\ sent' = requests /\ results' = <<>>

\* Discovery raises.  A check catches that, and returns an empty summary.
Raise ==
  /\ phase' = IF goal = "check" THEN "done" ELSE "failed"
  /\ found' = <<>>
  /\ failures' = TRUE
  /\ UNCHANGED <<goal, left, size, results, answer, device, sent>>

\* Nobody answers; for read-multiple it is as bad if two devices do.
NoReply == phase = "who-is" /\ Raise

IAm ==
  /\ phase = "who-is" /\ goal # "multiple"
  /\ phase' = "list"
  /\ UNCHANGED <<goal, found, left, size, results, answer, device, sent, failures>>

\* read-multiple has the address from the cache or from the one answer.
AddressResolved ==
  /\ phase = "who-is" /\ goal = "multiple"
  /\ phase' = "read"
  /\ \E requests \in Requests : Ask(requests)
  /\ UNCHANGED <<goal, found, size, answer, device, failures>>

\* An error, reject or abort: discovery returns no objects at all.
ListUnreadable ==
  /\ phase \in {"list", "length", "element"}
  /\ phase' = "done"
  /\ found' = <<>>
  /\ failures' = TRUE
  /\ UNCHANGED <<goal, left, size, results, answer, device, sent>>

\* Any other exception becomes a PointDiscoveryError.
DiscoveryRaises == phase \in {"list", "length", "element"} /\ Raise

\* The elements of seq that are in S, in their order: SelectSeq, without the recursion that
\* no lemma could see through. Upto counts the places of such elements.
Places(seq, S) == {i \in DOMAIN seq : seq[i] \in S}
Upto(places, i) == Cardinality({j \in places : j <= i})

Selected(seq, S) ==
  LET places == Places(seq, S)
  IN  [k \in 1 .. Cardinality(places) |-> seq[CHOOSE i \in places : Upto(places, i) = k]]

ListRead ==
  /\ phase = "list"
  /\ found' = Selected(deviceList, Objects \ {DeviceObject})
  /\ IF found' = <<>>
     THEN phase' = "length" /\ UNCHANGED <<left, sent, results>>
     ELSE phase' = "names" /\ Ask(Selected(found', Known))
  /\ UNCHANGED <<goal, size, answer, device, failures>>

LengthRead ==
  /\ phase = "length"
  /\ size' = Len(deviceList)
  /\ IF size' = 0
     THEN phase' = "names" /\ Ask(<<>>)
     ELSE phase' = "element" /\ UNCHANGED <<left, sent, results>>
  /\ UNCHANGED <<goal, found, answer, device, failures>>

\* Beyond the end of a list that has shrunk the device answers with an error:
\* ListUnreadable.
ElementRead ==
  /\ phase = "element"
  /\ Len(found) < Len(deviceList)
  /\ found' = Append(found, deviceList[Len(found) + 1])
  /\ IF Len(found') = size
     THEN phase' = "names" /\ Ask(Selected(found', Known))
     ELSE UNCHANGED <<phase, left, sent, results>>
  /\ UNCHANGED <<goal, size, answer, device, failures>>

-----------------------------------------------------------------------------
(* Chunks *)

Lesser(a, b) == IF a < b THEN a ELSE b

ErrorEntry == [error |-> TRUE, oid |-> DeviceObject, value |-> {}, text |-> TRUE]

\* Mutant of Chunk: only full chunks are sent.
FullChunk(n) == SubSeq(left, 1, IF Len(left) < n THEN 0 ELSE n)

Chunk(n) == SubSeq(left, 1, Lesser(n, Len(left)))

\* ErrorType becomes a text and keeps its place among the values.
Entry(o, isText) ==
  [error |-> FALSE, oid |-> o, text |-> isText,
   value |-> IF isText THEN {} ELSE {a \in active : a[1] = o}]

\* The device has the property, and may fail to read it even so.
HasProperty(o) == phase = "names" \/ o \in Arrayed

SizeInPhase == IF phase \in {"overrides", "read"} THEN CheckChunkSize ELSE ChunkSize

InChunks == phase \in {"names", "arrays", "overrides", "read"}

NextChunk(entries) ==
  /\ InChunks
  /\ left # <<>>
  /\ left' = SubSeq(left, Lesser(SizeInPhase, Len(left)) + 1, Len(left))
  /\ results' = results \o entries
  /\ UNCHANGED <<goal, phase, found, size, answer, device, sent>>

\* The refused chunk has one entry, whatever its length.
ChunkRefused ==
  /\ NextChunk(<<ErrorEntry>>)
  /\ failures' = TRUE

\* In discovery each request of the chunk gets an error.
ChunkRaises ==
  /\ phase # "read"
  /\ NextChunk([i \in DOMAIN Chunk(SizeInPhase) |-> ErrorEntry])
  /\ failures' = TRUE

\* read-multiple gives up, and what the chunks before have read with it: RPMError.
ReadRaises ==
  /\ phase = "read"
  /\ left # <<>>
  /\ phase' = "failed"
  /\ UNCHANGED <<goal, found, left, size, results, answer, device, sent, failures>>

\* An object of an unknown type has its chunk refused before it is sent.
ChunkAnswered ==
  LET chunk == Chunk(SizeInPhase)
  IN \E unread \in SUBSET Range(chunk) :
       /\ Range(chunk) \subseteq Known
       /\ NextChunk([i \in DOMAIN chunk |->
                      Entry(chunk[i], chunk[i] \in unread \/ ~HasProperty(chunk[i]))])
       /\ failures' = (failures \/ unread # {})

-----------------------------------------------------------------------------
(* What a phase makes of its results; entries are matched by their identifier *)

Good == {results[i] : i \in {j \in DOMAIN results : ~results[j].error}}

\* Mutant of NamesOf: results and requests are zipped.
NamesZipped ==
  {<<sent[i], results[i].oid>> :
     i \in {j \in DOMAIN results \cap DOMAIN sent : ~results[j].error}}

\* The pairs of name_map; an ErrorType is a name like any other.
NamesOf == {<<e.oid, IF e.text THEN "text" ELSE e.oid>> : e \in Good}

\* A value came back, an ErrorType's text included.
CommandableOf == {e.oid : e \in Good}

\* Mutants of SlotsOf: results are zipped with the requests; slots are numbered from 1
\* before the base of 1 is added.
SlotsZipped ==
  UNION {{<<sent[i], a[2]>> : a \in results[i].value} : i \in DOMAIN results \cap DOMAIN sent}
SlotsShifted == {<<a[1], a[2] + 1>> : a \in UNION {e.value : e \in Good}}

SlotsOf == UNION {e.value : e \in Good}

NamesDone ==
  /\ phase = "names"
  /\ left = <<>>
  /\ names' = NamesOf
  /\ phase' = "arrays"
  /\ Ask(Selected(found, MayCommand))
  /\ UNCHANGED <<goal, found, size, commandable, slots, device, failures>>

\* Discovery returns; a check that has points goes on with the commandable ones.
ArraysDone ==
  /\ phase = "arrays"
  /\ left = <<>>
  /\ commandable' = CommandableOf
  /\ IF goal = "check" /\ found # <<>>
     THEN /\ phase' = "overrides"
          /\ Ask(Selected(found, commandable'))
     ELSE phase' = "done" /\ UNCHANGED <<left, sent, results>>
  /\ UNCHANGED <<goal, found, size, names, slots, device, failures>>

OverridesDone ==
  /\ phase = "overrides"
  /\ left = <<>>
  /\ slots' = SlotsOf
  /\ phase' = "done"
  /\ UNCHANGED <<goal, found, left, size, results, names, commandable, device, sent, failures>>

ReadDone ==
  /\ phase = "read"
  /\ left = <<>>
  /\ phase' = "done"
  /\ UNCHANGED <<goal, found, left, size, results, answer, device, sent, failures>>

Next ==
  \/ DeviceChanges
  \/ NoReply
  \/ IAm
  \/ AddressResolved
  \/ ListUnreadable
  \/ DiscoveryRaises
  \/ ListRead
  \/ LengthRead
  \/ ElementRead
  \/ ChunkRefused
  \/ ChunkRaises
  \/ ReadRaises
  \/ ChunkAnswered
  \/ NamesDone
  \/ ArraysDone
  \/ OverridesDone
  \/ ReadDone

Spec == Init /\ [][Next]_vars

-----------------------------------------------------------------------------
(* Properties *)

Listed == Range(found)

Entries == [error : BOOLEAN, oid : Objects, value : SUBSET Overrides, text : BOOLEAN]

TypeOK ==
  /\ goal \in {"discover", "check", "multiple"}
  /\ phase \in {"who-is", "list", "length", "element", "names", "arrays", "overrides", "read",
               "done", "failed"}
  /\ found \in Seq(Objects) /\ left \in Seq(Objects) /\ sent \in Seq(Objects)
  /\ size \in Nat
  /\ results \in Seq(Entries)
  /\ names \subseteq Objects \X (Objects \cup {"text"})
  /\ commandable \subseteq Objects
  /\ slots \subseteq Objects \X (1 .. 16)
  /\ deviceList \in Lists
  /\ active \subseteq Overrides /\ seen \subseteq Overrides /\ steady \subseteq Overrides
  /\ failures \in BOOLEAN
  /\ changed \in 0 .. MaxChanges

Answers == UNION {e.value : e \in Good}

\* An object is never given another object's name, whichever chunks before it were
\* refused and so have fewer entries than requests (client_utils.py:555-567).  A list that
\* had to be read element by element is reported whole or not at all, also if it shrinks
\* while it is read (client_utils.py:519-540).  A read-multiple that lacks a part of what
\* was asked shows an error entry: without one it has an entry for each request, in their
\* order (rpc_methods.py:295-313).
AnswersMatch ==
  /\ \A pair \in names : pair[2] \in {pair[1], "text"}
  /\ phase = "done" /\ size > 0 => Len(found) \in {0, size}
  /\ (phase = "done" /\ goal = "multiple" /\ \A i \in DOMAIN results : ~results[i].error)
     => [i \in DOMAIN results |-> results[i].oid] = sent

\* An override that is reported was in force on that object and at that priority at
\* some moment of the call, however the device changes between the phases and the
\* chunks (client_utils.py:702-788, rpc_methods.py:295-313).
OverridesWitnessed == slots \cup Answers \subseteq seen

\* A read-multiple none of whose reads failed reports every override that was in force
\* throughout it on an object it was asked for.  A check does so for the objects it lists
\* that are of the nine types it asks for arrays; other types may have arrays too, and
\* their overrides are not in its answer, which client_utils.py:695 ("on each point") does
\* not say (client_utils.py:394-427, 574-594, 697-788; rpc_methods.py:295-313).
SteadyOverridesReported ==
  phase = "done" /\ ~failures
  => /\ goal = "check" => {a \in steady : a[1] \in Listed \cap MayCommand} \subseteq slots
     /\ goal = "multiple" => {a \in steady : a[1] \in Range(sent)} \subseteq Answers

\* client_utils.py:592 says of a point it calls commandable "If we got a value back, it
\* has a priority array!", and client_utils.py:695 "error => not".
CommandableHasArray == commandable \subseteq Arrayed

=============================================================================

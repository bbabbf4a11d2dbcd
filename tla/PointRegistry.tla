--------------------------- MODULE PointRegistry ---------------------------
(***************************************************************************)
(* What the CSV loader promises to the rest of the server: a set of points *)
(* that only grows, in which a name denotes one object and a BACnet object *)
(* identifier denotes one object, for ever.  How rows are parsed, how      *)
(* instance numbers are found and what happens to a bad row is left to     *)
(* CsvLoader, which implements this specification.                         *)
(***************************************************************************)

CONSTANT Object     \* the records [kind, inst, name, writable] a point can be

VARIABLE hosted     \* the objects published so far

\* Two objects can be hosted together.
Compatible(a, b) ==
  /\ a.name # b.name
  /\ <<a.kind, a.inst>> # <<b.kind, b.inst>>

Init == hosted = {}

Publish(o) ==
  /\ \A p \in hosted : Compatible(p, o)
  /\ hosted' = hosted \cup {o}

Next == \E o \in Object : Publish(o)

Spec == Init /\ [][Next]_hosted

=============================================================================

--------------------------- MODULE CommandLedger ---------------------------
(***************************************************************************)
(* What the MQTT RPC gateway promises about the commands it receives: they *)
(* are served one at a time in the order they came; each is answered once  *)
(* or abandoned, for ever; and commands are abandoned all together, never  *)
(* one of several.  Sessions, acknowledgements and cancellation are left   *)
(* to RpcGateway, which implements this specification.                     *)
(***************************************************************************)
EXTENDS Naturals

CONSTANT MaxMessages        \* bound: commands numbered in order of receipt

Serials == 1 .. MaxMessages

VARIABLE status             \* status[s]: where command s stands

Open == {"queued", "handling"}
Final == {"ok", "error", "abandoned"}

Init == status = [s \in Serials |-> "absent"]

Receive(s) ==
  /\ status[s] = "absent"
  /\ \A t \in Serials : t < s => status[t] # "absent"
  /\ status' = [status EXCEPT ![s] = "queued"]

Start(s) ==
  /\ status[s] = "queued"
  /\ \A t \in Serials : t < s => status[t] \in Final
  /\ status' = [status EXCEPT ![s] = "handling"]

Answer(s, reply) ==
  /\ status[s] = "handling"
  /\ status' = [status EXCEPT ![s] = reply]

Abandon == status' = [s \in Serials |-> IF status[s] \in Open THEN "abandoned" ELSE status[s]]

Next ==
  \/ \E s \in Serials : Receive(s) \/ Start(s)
  \/ \E s \in Serials, reply \in {"ok", "error"} : Answer(s, reply)
  \/ Abandon

Spec == Init /\ [][Next]_status

=============================================================================

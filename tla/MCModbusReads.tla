--------------------------- MODULE MCModbusReads ---------------------------
(***************************************************************************)
(* Words of two bits, sent so that both sides of every sign change occur;  *)
(* two requests for one thread, a third invalid.  Scale and offset of the  *)
(* first operation take one of its words past the largest float.           *)
(***************************************************************************)
EXTENDS ModbusReads

MCOp(count, decode) == [count |-> count, decode |-> decode, scale |-> 1, offset |-> 0]

MCRequests == 1 .. 3
MCBody ==
  << <<[MCOp(1, "uint16") EXCEPT !.scale = 8, !.offset = 1], MCOp(1, "int16")>>,
     <<MCOp(2, "int32"), MCOp(2, "uint32"), MCOp(2, "float32")>>,
     <<MCOp(1, "raw"), MCOp(1, "uint32")>> >>

MCM == 4
MCMaxFloat == 16
MCAnswers == {<<>>, <<1>>, <<2>>, <<0, 1>>, <<1, 3>>, <<2, 0>>, <<3, 3>>}

\* The patterns whose high bits are ones are the infinities and NaNs.
MCFloatOf == [n \in 0 .. 15 |-> IF n >= 12 THEN NaN ELSE n]

=============================================================================

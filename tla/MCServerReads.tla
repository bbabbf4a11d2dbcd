--------------------------- MODULE MCServerReads ---------------------------
(* Instance of ServerReads for TLC: a point has one of two present values. *)
EXTENDS ServerReads

MCValues == 0 .. 1

=============================================================================

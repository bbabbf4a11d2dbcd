---------------------------- MODULE MCRpcGateway ----------------------------
(* RpcGateway has only bounds as constants; this module is where its runs start. *)
EXTENDS RpcGateway

=============================================================================

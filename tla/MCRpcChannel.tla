---------------------------- MODULE MCRpcChannel ----------------------------
(* Two calls with frames of three and five bytes, received into buffers of    *)
(* four, and a connection that may break once.                                *)
EXTENDS RpcChannel
=============================================================================

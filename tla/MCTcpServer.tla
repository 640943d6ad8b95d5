----------------------------- MODULE MCTcpServer -----------------------------
(* A server with no, one or two threads in its pool, and up to three           *)
(* connections, the one that is being accepted included.                       *)
EXTENDS TcpServer
=============================================================================

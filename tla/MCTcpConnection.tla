--------------------------- MODULE MCTcpConnection ---------------------------
(* One connection: three buffers, so that one is written, one is at the front *)
(* of the rest and one behind it, and two closures queued by other threads.   *)
EXTENDS TcpConnection
=============================================================================

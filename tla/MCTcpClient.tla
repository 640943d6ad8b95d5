----------------------------- MODULE MCTcpClient -----------------------------
(* A client with two connections, an old one and its successor, two retry      *)
(* timers, and three closures queued or about to be.                           *)
EXTENDS TcpClient

\* clean never holds again once it does not.  OneAttempt is about
\* states in which it holds, and a state in which it does not ends what
\* DisconnectEnds and TriesAgain ask for, so the states behind it add nothing to
\* these.  TypeOK is not conditioned on clean: this run checks it up to that point,
\* and TcpClientProofs proves it for all states.
StillClean == clean
=============================================================================

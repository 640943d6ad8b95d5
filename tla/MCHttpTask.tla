----------------------------- MODULE MCHttpTask -----------------------------
(* Three requests in two pieces each, on a connection that is kept or not, for *)
(* files of no, one or two chunks, with two workers.                           *)
EXTENDS HttpTask
=============================================================================

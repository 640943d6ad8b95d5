---------------------------- MODULE MCThreadPool ----------------------------
(* The thread pool on a small instance: three workers, so that a notification *)
(* can go to the "wrong" sleeper while another one is busy.                    *)
EXTENDS ThreadPool
=============================================================================

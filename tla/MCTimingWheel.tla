---------------------------- MODULE MCTimingWheel ----------------------------
(* The timing wheel with three ticks to a turn.  Intervals below and above one *)
(* turn, and fewer addresses than timers, so that memory is used again.        *)
EXTENDS TimingWheel
=============================================================================

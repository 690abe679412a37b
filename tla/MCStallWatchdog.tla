-------------------------- MODULE MCStallWatchdog --------------------------
(***************************************************************************)
(* StallWatchdog for TLC: a call that loses no time of its own, one whose  *)
(* callbacks are slow, and one that may be held up anywhere.               *)
(***************************************************************************)
EXTENDS StallWatchdog

AllKinds == {{}, {"busy"}, Places}
=============================================================================

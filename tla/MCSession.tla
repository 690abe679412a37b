----------------------------- MODULE MCSession -----------------------------
(***************************************************************************)
(* Session and its refinement of AgentLoop for TLC.  The configurations    *)
(* bound a session of two tool turns that is injected into, fails, and is  *)
(* rebuilt; the bounds are the constants of Session.                       *)
(***************************************************************************)
EXTENDS SessionRefinement
=============================================================================

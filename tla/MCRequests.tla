----------------------------- MODULE MCRequests -----------------------------
(* Requests for TLC: two calls of one model. *)
EXTENDS Requests, TLC

CONSTANTS c1, c2

TwoCalls     == {c1, c2}
AllProviders == {"anthropic", "openai", "google", "openrouter"}
MCHints      == {-1, 9}
Symmetric    == Permutations(TwoCalls)
=============================================================================

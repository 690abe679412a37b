----------------------------- MODULE MCTurnCall -----------------------------
(***************************************************************************)
(* TurnCall for TLC: every provider, with and without a streaming callback.*)
(***************************************************************************)
EXTENDS TurnCall

AllProviders == ProviderNames
OnlyOpenRouter == {"openrouter"}
=============================================================================

---------------------------- MODULE MCModelAccess ----------------------------
(***************************************************************************)
(* ModelAccess for TLC: callers and loaders are model values.              *)
(***************************************************************************)
EXTENDS ModelAccess

CONSTANTS c1, c2, l1, d1

TwoCallers == {c1, c2}
OneLoader == {l1}
OneDoc == {d1}
=============================================================================

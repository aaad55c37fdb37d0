------------------------- MODULE MCScriptSecondary -------------------------
(***************************************************************************)
(* Bundles for TLC: two sound ones that both repositories sign, one that   *)
(* only the Director signs, one that never validates, one that fails now   *)
(* and then, one whose loop() may not return.                              *)
(***************************************************************************)
EXTENDS ScriptSecondary

CONSTANTS a, b, d, k, m, r

=============================================================================

---------------------------- MODULE MCKeySettings ----------------------------
(* Small instances of KeySettings: all keys but the default one are alike.  *)
EXTENDS KeySettings, TLC

Symmetry == Permutations(Key \ {LAlt})
==============================================================================

----------------------------- MODULE MCMapEditor -----------------------------
(* Small instances of MapEditor: the files are interchangeable.             *)
EXTENDS MapEditor, TLC

Symmetry == Permutations(Path)
==============================================================================

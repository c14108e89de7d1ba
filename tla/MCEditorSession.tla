-------------------------- MODULE MCEditorSession --------------------------
(* Small instances of EditorSession for TLC.                               *)
EXTENDS EditorSession, TLC

Symmetry == Permutations(Tabs) \union Permutations(Titled)
=============================================================================

----------------------------- MODULE MCChatLog -----------------------------
(* Small instances of ChatLog for TLC.                                     *)
EXTENDS ChatLog, TLC

\* Client threads are interchangeable (safety runs only).
Symmetry == Permutations(Client)
=============================================================================

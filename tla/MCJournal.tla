------------------------------ MODULE MCJournal ------------------------------
(* Small instances of Journal for TLC. *)
EXTENDS Journal

\* Calls that write two blocks, or one of them.
MCCalls == {<<11, 12>>, <<12>>}
=============================================================================

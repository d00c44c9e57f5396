---------------------------- MODULE MCChangeLog ----------------------------
(* ChangeLog for TLC: bounds in the .cfg files, mutants of its operators.  *)
EXTENDS ChangeLog
=============================================================================

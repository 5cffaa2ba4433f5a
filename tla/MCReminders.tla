---------------------------- MODULE MCReminders ----------------------------
(***************************************************************************)
(* The instance of ReminderDispatch whose move loses its answer.            *)
(***************************************************************************)
EXTENDS ReminderDispatch, TLC
=============================================================================

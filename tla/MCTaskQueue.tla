---------------------------- MODULE MCTaskQueue ----------------------------
(* TLC instance of TaskQueue: model values come from the configuration. *)
EXTENDS TaskQueue
=============================================================================

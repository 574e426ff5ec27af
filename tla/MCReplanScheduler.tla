-------------------------- MODULE MCReplanScheduler --------------------------
(***************************************************************************)
(* Two direct callers, two task identities (a task is only created when    *)
(* the last one is done), three input changes, two callbacks in flight.    *)
(***************************************************************************)
EXTENDS ReplanScheduler
=============================================================================

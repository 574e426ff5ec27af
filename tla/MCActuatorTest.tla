---------------------------- MODULE MCActuatorTest ----------------------------
(***************************************************************************)
(* One load, one caller of each kind.  Tests of different loads share only *)
(* the lock, which is free for any holder of another load's call as well.  *)
(***************************************************************************)
EXTENDS ActuatorTest
=============================================================================

---------------------------- MODULE MCScheduler ----------------------------
(***************************************************************************)
(* A small instance of Scheduler: one job, whose trigger fires every       *)
(* minute.                                                                 *)
(***************************************************************************)
EXTENDS Scheduler

EveryMinute == {1..MaxMinute}
=============================================================================
